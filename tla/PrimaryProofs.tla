---------------------------- MODULE PrimaryProofs ----------------------------
(***************************************************************************)
(* For any ports, devices, rings, handles, texts and commands: spp_primary *)
(* implements FlowRules, whose rules are the ones in the devices; the      *)
(* tables of its ports stay in step with the devices, and status lists the *)
(* ports and the patches that replies promised.                            *)
(***************************************************************************)
EXTENDS Primary, TLAPS, FiniteSetTheorems, WellFoundedInduction

(* A rule put before a list moves the others up by one. *)
LEMMA ConsProperties ==
  ASSUME NEW S, NEW s \in Seq(S), NEW e \in S
  PROVE  /\ <<e>> \o s \in Seq(S)
         /\ Len(<<e>> \o s) = Len(s) + 1
         /\ (<<e>> \o s)[1] = e
         /\ \A i \in 2 .. Len(s) + 1 : (<<e>> \o s)[i] = s[i - 1]
OBVIOUS

(* Without a member, a list keeps the order of the others. *)
LEMMA WithoutProperties ==
  ASSUME NEW S, NEW s \in Seq(S), NEW i \in 1 .. Len(s)
  PROVE  /\ Abstract!Without(s, i) \in Seq(S)
         /\ Len(Abstract!Without(s, i)) = Len(s) - 1
         /\ DOMAIN Abstract!Without(s, i) = 1 .. Len(s) - 1
         /\ \A j \in 1 .. Len(s) - 1 :
              Abstract!Without(s, i)[j] = IF j < i THEN s[j] ELSE s[j + 1]
<1>1. Len(s) - 1 \in Nat OBVIOUS
<1>2. \A j \in 1 .. Len(s) - 1 : (IF j < i THEN s[j] ELSE s[j + 1]) \in S OBVIOUS
<1>3. Abstract!Without(s, i) \in [1 .. Len(s) - 1 -> S] BY <1>2 DEF Abstract!Without
<1>4. Abstract!Without(s, i) \in Seq(S) BY <1>1, <1>3
<1>5. Len(Abstract!Without(s, i)) = Len(s) - 1 BY <1>1, <1>3, <1>4
<1> QED BY <1>4, <1>5 DEF Abstract!Without

-----------------------------------------------------------------------------
(* FlowRules: the two invariants for the list l and the rules f of a port  *)

Fall(l) == \A i, j \in DOMAIN l : i < j => l[i].rule_id > l[j].rule_id

Agree(l, f) ==
  /\ \A i \in DOMAIN l : l[i].handle \in DOMAIN f /\ f[l[i].handle] = l[i].rule
  /\ \A i, j \in DOMAIN l : i # j => l[i].handle # l[j].handle
  /\ \A h \in DOMAIN f : \E i \in DOMAIN l : l[i].handle = h

Tables == UNION {[H -> RulesOf] : H \in SUBSET Handles}

(* A list stays ordered when a rule with an id above its first goes before. *)
LEMMA FallCons ==
  ASSUME NEW l \in Seq(Abstract!Entry), Fall(l), NEW e \in Abstract!Entry,
         l = <<>> \/ e.rule_id > l[1].rule_id
  PROVE  Fall(<<e>> \o l)
<1> DEFINE c == <<e>> \o l
<1> SUFFICES ASSUME NEW i \in 1 .. Len(l) + 1, NEW j \in 1 .. Len(l) + 1, i < j
             PROVE  c[i].rule_id > c[j].rule_id
  BY ConsProperties DEF Fall
<1>1. c[j] = l[j - 1] /\ j - 1 \in 1 .. Len(l) BY ConsProperties
<1>2. \A x \in Abstract!Entry : x.rule_id \in Nat BY DEF Abstract!Entry
<1>3. \A k \in 1 .. Len(l) : l[k] \in Abstract!Entry OBVIOUS
<1>4. CASE i = 1
  <2>1. c[i] = e BY <1>4, ConsProperties
  <2>2. l # <<>> BY <1>1
  <2>3. e.rule_id > l[1].rule_id BY <2>2
  <2>4. j - 1 = 1 \/ l[1].rule_id > l[j - 1].rule_id BY <1>1 DEF Fall
  <2> HIDE DEF c
  <2> QED BY <1>1, <1>2, <1>3, <2>1, <2>3, <2>4
<1>5. CASE i # 1
  <2>1. c[i] = l[i - 1] /\ i - 1 \in 1 .. Len(l) BY <1>5, ConsProperties
  <2>2. l[i - 1].rule_id > l[j - 1].rule_id BY <1>1, <2>1 DEF Fall
  <2> HIDE DEF c
  <2> QED BY <1>1, <2>1, <2>2
<1> QED BY <1>4, <1>5

(* It stays ordered when a rule is taken out. *)
LEMMA FallWithout ==
  ASSUME NEW l \in Seq(Abstract!Entry), Fall(l), NEW i \in 1 .. Len(l)
  PROVE  Fall(Abstract!Without(l, i))
<1> DEFINE c == Abstract!Without(l, i)
           at(j) == IF j < i THEN j ELSE j + 1
<1>1. DOMAIN c = 1 .. Len(l) - 1 /\ \A j \in DOMAIN c : c[j] = l[at(j)]
  BY ZenonT(60), WithoutProperties
<1>2. \A j, k \in 1 .. Len(l) - 1 :
        j < k => at(j) \in DOMAIN l /\ at(k) \in DOMAIN l /\ at(j) < at(k)
  OBVIOUS
<1> HIDE DEF c, at
<1>3. Fall(c) BY ZenonT(60), <1>1, <1>2 DEF Fall
<1> QED BY <1>3 DEF c

(* The list and the device still agree when a rule is installed under a new *)
(* handle and put before the list.                                          *)
LEMMA AgreeCons ==
  ASSUME NEW l \in Seq(Abstract!Entry), NEW f, Agree(l, f),
         NEW e \in Abstract!Entry, e.handle \notin DOMAIN f
  PROVE  Agree(<<e>> \o l,
               [k \in DOMAIN f \cup {e.handle} |->
                  IF k = e.handle THEN e.rule ELSE f[k]])
<1> DEFINE c == <<e>> \o l
           g == [k \in DOMAIN f \cup {e.handle} |->
                   IF k = e.handle THEN e.rule ELSE f[k]]
<1>1. /\ DOMAIN c \subseteq Int /\ 1 \in DOMAIN c /\ c[1] = e
      /\ \A i \in DOMAIN c : i # 1 => c[i] = l[i - 1] /\ i - 1 \in DOMAIN l
  BY ConsProperties
<1>2. \A i \in DOMAIN l : i + 1 \in DOMAIN c /\ c[i + 1] = l[i]
  BY ConsProperties
<1>3. DOMAIN g = DOMAIN f \cup {e.handle} /\ g[e.handle] = e.rule
      /\ \A k \in DOMAIN f : g[k] = f[k]
  OBVIOUS
<1> HIDE DEF c, g
<1>4. ASSUME NEW i \in DOMAIN c
      PROVE  c[i].handle \in DOMAIN g /\ g[c[i].handle] = c[i].rule
  <2>1. CASE i = 1 BY ZenonT(60), <1>1, <1>3, <2>1
  <2>2. CASE i # 1
    <3>1. c[i] = l[i - 1] /\ i - 1 \in DOMAIN l BY ZenonT(60), <1>1, <2>2
    <3>2. c[i].handle \in DOMAIN f /\ f[c[i].handle] = c[i].rule
      BY ZenonT(60), <3>1 DEF Agree
    <3> QED BY ZenonT(60), <1>3, <3>2
  <2> QED BY Zenon, <2>1, <2>2
<1>5. ASSUME NEW i \in DOMAIN c, NEW j \in DOMAIN c, i # j
      PROVE  c[i].handle # c[j].handle
  <2>1. CASE i = 1
    <3>1. c[j].handle \in DOMAIN f BY ZenonT(60), <1>1, <1>5, <2>1 DEF Agree
    <3> QED BY ZenonT(60), <1>1, <2>1, <3>1
  <2>2. CASE j = 1
    <3>1. c[i].handle \in DOMAIN f BY ZenonT(60), <1>1, <1>5, <2>2 DEF Agree
    <3> QED BY ZenonT(60), <1>1, <2>2, <3>1
  <2>3. CASE i # 1 /\ j # 1
    <3>1. i - 1 # j - 1
      <4>1. i \in Int /\ j \in Int BY Zenon, <1>1
      <4> QED BY <1>5, <4>1
    <3>2. /\ c[i] = l[i - 1] /\ i - 1 \in DOMAIN l
          /\ c[j] = l[j - 1] /\ j - 1 \in DOMAIN l
      BY ZenonT(60), <1>1, <2>3
    <3>3. PICK m, n : m = i - 1 /\ n = j - 1 BY Zenon
    <3>4. /\ c[i] = l[m] /\ m \in DOMAIN l
          /\ c[j] = l[n] /\ n \in DOMAIN l /\ m # n
      BY Zenon, <3>1, <3>2, <3>3
    <3>5. l[m].handle # l[n].handle BY Zenon, <3>4 DEF Agree
    <3> QED BY Zenon, <3>4, <3>5
  <2> QED BY Zenon, <2>1, <2>2, <2>3
<1>6. ASSUME NEW h \in DOMAIN g
      PROVE  \E i \in DOMAIN c : c[i].handle = h
  <2>1. CASE h = e.handle BY ZenonT(60), <1>1, <2>1
  <2>2. CASE h \in DOMAIN f
    <3>1. PICK i \in DOMAIN l : l[i].handle = h BY Zenon, <2>2 DEF Agree
    <3> QED BY ZenonT(60), <1>2, <3>1
  <2> QED BY Zenon, <1>3, <2>1, <2>2
<1>7. Agree(c, g) BY Zenon, <1>4, <1>5, <1>6 DEF Agree
<1> QED BY <1>7 DEF c, g

(* And when a listed rule leaves both.                                      *)
LEMMA AgreeWithout ==
  ASSUME NEW l \in Seq(Abstract!Entry), NEW f \in Tables, Agree(l, f),
         NEW i \in 1 .. Len(l)
  PROVE  Agree(Abstract!Without(l, i),
               [k \in DOMAIN f \cap (Handles \ {l[i].handle}) |-> f[k]])
<1> DEFINE c == Abstract!Without(l, i)
           g == [k \in DOMAIN f \cap (Handles \ {l[i].handle}) |-> f[k]]
           at(j) == IF j < i THEN j ELSE j + 1
           back(j) == IF j < i THEN j ELSE j - 1
<1>1. DOMAIN c = 1 .. Len(l) - 1 /\ \A j \in DOMAIN c : c[j] = l[at(j)]
  BY ZenonT(60), WithoutProperties
<1>2. DOMAIN f \subseteq Handles BY DEF Tables
<1>3. DOMAIN g = DOMAIN f \ {l[i].handle} /\ \A k \in DOMAIN g : g[k] = f[k]
  BY <1>2
<1>4. \A j \in 1 .. Len(l) - 1 : at(j) \in DOMAIN l \ {i} OBVIOUS
<1>5. \A j, k \in 1 .. Len(l) - 1 : j # k => at(j) # at(k) OBVIOUS
<1>6. \A j \in DOMAIN l \ {i} : back(j) \in 1 .. Len(l) - 1 /\ at(back(j)) = j
  OBVIOUS
<1>7. i \in DOMAIN l OBVIOUS
<1> HIDE DEF c, g, at, back
<1>8. ASSUME NEW j \in DOMAIN c
      PROVE  c[j].handle \in DOMAIN g /\ g[c[j].handle] = c[j].rule
  <2>1. c[j] = l[at(j)] /\ at(j) \in DOMAIN l /\ at(j) # i BY ZenonT(60), <1>1, <1>4
  <2>2. c[j].handle \in DOMAIN f /\ f[c[j].handle] = c[j].rule
    BY ZenonT(60), <2>1 DEF Agree
  <2>3. c[j].handle # l[i].handle BY ZenonT(60), <1>7, <2>1 DEF Agree
  <2> QED BY ZenonT(60), <1>3, <2>2, <2>3
<1>9. ASSUME NEW j \in DOMAIN c, NEW k \in DOMAIN c, j # k
      PROVE  c[j].handle # c[k].handle
  <2>1. /\ c[j] = l[at(j)] /\ at(j) \in DOMAIN l
        /\ c[k] = l[at(k)] /\ at(k) \in DOMAIN l /\ at(j) # at(k)
    BY ZenonT(60), <1>1, <1>4, <1>5, <1>9
  <2> QED BY ZenonT(60), <2>1 DEF Agree
<1>10. ASSUME NEW h \in DOMAIN g
       PROVE  \E j \in DOMAIN c : c[j].handle = h
  <2>1. PICK j \in DOMAIN l : l[j].handle = h BY ZenonT(60), <1>3 DEF Agree
  <2>2. j # i BY ZenonT(60), <1>3, <2>1
  <2> QED BY ZenonT(60), <1>1, <1>6, <2>1, <2>2
<1>11. Agree(c, g) BY Zenon, <1>8, <1>9, <1>10 DEF Agree
<1> QED BY Zenon, <1>11 DEF c, g

(* An empty list agrees with a device without rules.                        *)
LEMMA AgreeEmpty == ASSUME NEW f PROVE Agree(<<>>, [k \in DOMAIN f \cap {} |-> f[k]])
BY DEF Agree
-----------------------------------------------------------------------------
(* The inductive invariant, port by port *)
PortInv(p) == /\ Fall(port_list[p])
              /\ p \in spoiled \/ Agree(port_list[p], hw[p])

FlowInv == /\ Attached \in SUBSET Devs /\ spoiled \in SUBSET Devs
       /\ port_list \in [Devs -> Seq(Abstract!Entry)]
       /\ hw \in [Devs -> Tables]
       /\ \A p \in Devs : PortInv(p)

(* It contains type correctness and both properties.                        *)
LEMMA InvImplies == FlowInv => Abstract!FlowTypeOK /\ Abstract!RuleIdsFall /\ Abstract!FlowListed
BY DEF FlowInv, Abstract!FlowTypeOK, Abstract!RuleIdsFall, Abstract!FlowListed, PortInv, Fall, Agree, Tables

(* A step that changes one port's list and rules to l and f keeps the       *)
(* invariant if these satisfy it.                                           *)
LEMMA OnePort ==
  ASSUME FlowInv, NEW p \in Devs, NEW l \in Seq(Abstract!Entry), NEW f \in Tables,
         Attached' \in SUBSET Devs,
         spoiled' \in SUBSET Devs, spoiled \subseteq spoiled',
         port_list' = [port_list EXCEPT ![p] = l], hw' = [hw EXCEPT ![p] = f],
         Fall(l), p \in spoiled' \/ Agree(l, f)
  PROVE  FlowInv'
<1>1. /\ port_list' \in [Devs -> Seq(Abstract!Entry)] /\ hw' \in [Devs -> Tables]
      /\ port_list'[p] = l /\ hw'[p] = f
      /\ \A q \in Devs \ {p} : port_list'[q] = port_list[q] /\ hw'[q] = hw[q]
  BY DEF FlowInv
<1>2. ASSUME NEW q \in Devs PROVE PortInv(q)'
  <2>1. CASE q = p BY <1>1, <2>1 DEF PortInv
  <2>2. CASE q # p
    <3>1. PortInv(q) BY DEF FlowInv
    <3> QED BY <1>1, <2>2, <3>1 DEF PortInv
  <2> QED BY <2>1, <2>2
<1> QED BY <1>1, <1>2 DEF FlowInv
(* Empty lists over devices without rules satisfy the invariant.            *)
LEMMA InitInv == Abstract!FlowInit => FlowInv
<1> SUFFICES ASSUME Abstract!FlowInit PROVE FlowInv OBVIOUS
<1>1. <<>> \in Seq(Abstract!Entry) OBVIOUS
<1>2. Abstract!Nothing \in [{} -> RulesOf] /\ DOMAIN Abstract!Nothing = {} BY DEF Abstract!Nothing
<1>3. Abstract!Nothing \in Tables BY <1>2 DEF Tables
<1>4. Fall(<<>>) BY DEF Fall
<1>5. Agree(<<>>, Abstract!Nothing) BY <1>2 DEF Agree
<1> QED BY <1>1, <1>3, <1>4, <1>5 DEF Abstract!FlowInit, FlowInv, PortInv

(* A device's rules, more of them or fewer, are again a device's rules.     *)
LEMMA TablesClosed ==
  ASSUME NEW f \in Tables
  PROVE  /\ \A h \in Handles, r \in RulesOf :
              [k \in DOMAIN f \cup {h} |-> IF k = h THEN r ELSE f[k]] \in Tables
         /\ \A H : [k \in DOMAIN f \cap H |-> f[k]] \in Tables
<1>1. PICK G \in SUBSET Handles : f \in [G -> RulesOf] BY DEF Tables
<1>2. ASSUME NEW h \in Handles, NEW r \in RulesOf
      PROVE  [k \in DOMAIN f \cup {h} |-> IF k = h THEN r ELSE f[k]] \in Tables
  <2>1. [k \in DOMAIN f \cup {h} |-> IF k = h THEN r ELSE f[k]]
          \in [G \cup {h} -> RulesOf]
    BY <1>1
  <2>2. G \cup {h} \in SUBSET Handles BY <1>1
  <2> QED BY ZenonT(60), <2>1, <2>2 DEF Tables
<1>3. ASSUME NEW H PROVE [k \in DOMAIN f \cap H |-> f[k]] \in Tables
  <2>1. [k \in DOMAIN f \cap H |-> f[k]] \in [G \cap H -> RulesOf] BY <1>1
  <2>2. G \cap H \in SUBSET Handles BY <1>1
  <2> QED BY ZenonT(60), <2>1, <2>2 DEF Tables
<1> QED BY ZenonT(60), <1>2, <1>3
-----------------------------------------------------------------------------
(* One lemma per command                                                   *)

(* exec_flow_create keeps the invariant: the id it takes is above all       *)
(* others, and a flow that is undone is nowhere or the port is spoiled.     *)
LEMMA CreateInv ==
  ASSUME FlowInv, NEW p \in Devs, NEW h \in Handles, NEW r \in RulesOf,
         Abstract!exec_flow_create(p, h, r)
  PROVE  FlowInv'
<1> DEFINE l == port_list[p]
           e == [rule_id |-> Abstract!NextId(p), handle |-> h, rule |-> r]
           f == [k \in DOMAIN hw[p] \cup {h} |-> IF k = h THEN r ELSE hw[p][k]]
<1>1. l \in Seq(Abstract!Entry) /\ hw[p] \in Tables /\ PortInv(p) BY DEF FlowInv
<1>2. f \in Tables BY ZenonT(60), <1>1, TablesClosed
<1>3. CASE Abstract!Created(p, h, r)
  <2>1. Abstract!NextId(p) \in Nat /\ (l = <<>> \/ Abstract!NextId(p) > l[1].rule_id)
    <3>1. CASE l = <<>> BY <3>1 DEF Abstract!NextId
    <3>2. CASE l # <<>>
      <4>1. Head(l) = l[1] /\ l[1] \in Abstract!Entry BY <1>1, <3>2
      <4>2. l[1].rule_id \in Nat BY <4>1 DEF Abstract!Entry
      <4> QED BY <3>2, <4>1, <4>2 DEF Abstract!NextId
    <3> QED BY <3>1, <3>2
  <2>2. e \in Abstract!Entry BY <2>1 DEF Abstract!Entry
  <2>3. <<e>> \o l \in Seq(Abstract!Entry) BY <1>1, <2>2
  <2>4. Fall(<<e>> \o l)
    <3>1. Fall(l) BY <1>1 DEF PortInv
    <3> QED BY <1>1, <2>1, <2>2, <3>1, FallCons
  <2>5. p \in spoiled \/ Agree(<<e>> \o l, f)
    <3>1. h \notin DOMAIN hw[p] BY <1>3 DEF Abstract!Created, Abstract!Installs
    <3>2. CASE p \notin spoiled
      <4>1. Agree(l, hw[p]) BY <1>1, <3>2 DEF PortInv
      <4> QED BY ZenonT(60), <1>1, <2>2, <3>1, <4>1, AgreeCons
    <3> QED BY <3>2
  <2>6. /\ port_list' = [port_list EXCEPT ![p] = <<e>> \o l]
        /\ hw' = [hw EXCEPT ![p] = f]
        /\ UNCHANGED <<Attached, spoiled>>
    BY <1>3 DEF Abstract!Created, Abstract!Installs
  <2> HIDE DEF e, f, l
  <2> QED BY ZenonT(60), <1>2, <2>3, <2>4, <2>5, <2>6, OnePort DEF FlowInv
<1>4. CASE Abstract!CreateUndone(p, h, r)
  <2>1. CASE UNCHANGED <<hw, spoiled>>
    BY <1>4, <2>1 DEF Abstract!CreateUndone, FlowInv, PortInv
  <2>2. CASE Abstract!Installs(p, h, r) /\ spoiled' = spoiled \cup {p}
    <3>1. /\ port_list' = [port_list EXCEPT ![p] = l]
          /\ hw' = [hw EXCEPT ![p] = f]
          /\ Attached' = Attached
      BY <1>4, <2>2 DEF Abstract!CreateUndone, Abstract!Installs, FlowInv
    <3>2. Fall(l) BY <1>1 DEF PortInv
    <3> HIDE DEF f, l
    <3> QED BY ZenonT(60), <1>1, <1>2, <2>2, <3>1, <3>2, OnePort DEF FlowInv
  <2> QED BY <1>4, <2>1, <2>2 DEF Abstract!CreateUndone
<1>5. CASE Abstract!CreateRefused(p) BY <1>5 DEF Abstract!CreateRefused, Abstract!flowvars, FlowInv, PortInv
<1> QED BY <1>3, <1>4, <1>5 DEF Abstract!exec_flow_create

(* exec_flow_destroy keeps it: one rule leaves the list and the device.     *)
LEMMA DestroyInv ==
  ASSUME FlowInv, NEW p \in Devs, NEW id, Abstract!exec_flow_destroy(p, id)
  PROVE  FlowInv'
<1> DEFINE l == port_list[p]
           f(i) == [k \in DOMAIN hw[p] \cap (Handles \ {l[i].handle}) |-> hw[p][k]]
<1>1. l \in Seq(Abstract!Entry) /\ hw[p] \in Tables /\ PortInv(p) BY DEF FlowInv
<1>2. CASE Abstract!Destroyed(p, id)
  <2>1. PICK i \in 1 .. Len(l) :
          /\ hw' = Abstract!Keeping(p, Handles \ {l[i].handle})
          /\ port_list' = [port_list EXCEPT ![p] = Abstract!Without(l, i)]
    BY ZenonT(60), <1>2 DEF Abstract!Destroyed
  <2>2. Abstract!Without(l, i) \in Seq(Abstract!Entry) BY <1>1, WithoutProperties
  <2>3. f(i) \in Tables BY ZenonT(60), <1>1, TablesClosed
  <2>4. Fall(Abstract!Without(l, i))
    <3>1. Fall(l) BY <1>1 DEF PortInv
    <3> QED BY <1>1, <3>1, FallWithout
  <2>5. p \in spoiled \/ Agree(Abstract!Without(l, i), f(i))
    <3>1. CASE p \notin spoiled
      <4>1. Agree(l, hw[p]) BY <1>1, <3>1 DEF PortInv
      <4> QED BY ZenonT(60), <1>1, <4>1, AgreeWithout
    <3> QED BY <3>1
  <2>6. hw' = [hw EXCEPT ![p] = f(i)] /\ UNCHANGED <<Attached, spoiled>>
    BY ZenonT(60), <1>2, <2>1 DEF Abstract!Destroyed, Abstract!Keeping
  <2> HIDE DEF l, f
  <2> QED BY ZenonT(60), <2>1, <2>2, <2>3, <2>4, <2>5, <2>6, OnePort DEF FlowInv
<1>3. CASE Abstract!DestroyRefused(p, id)
  BY <1>3 DEF Abstract!DestroyRefused, Abstract!flowvars, FlowInv, PortInv
<1> QED BY <1>2, <1>3 DEF Abstract!exec_flow_destroy
(* exec_flow_flush keeps it: the list is emptied, and where the device is   *)
(* not the port is spoiled.                                                 *)
LEMMA FlushInv ==
  ASSUME FlowInv, NEW p \in Devs, Abstract!exec_flow_flush(p)
  PROVE  FlowInv'
<1> DEFINE f(H) == [k \in DOMAIN hw[p] \cap H |-> hw[p][k]]
<1>1. \A H : f(H) \in Tables
  <2>1. hw[p] \in Tables BY DEF FlowInv
  <2> QED BY Zenon, <2>1, TablesClosed
<1>2. <<>> \in Seq(Abstract!Entry) /\ Fall(<<>>) BY DEF Fall
<1>3. Agree(<<>>, f({})) BY AgreeEmpty
<1>4. CASE Abstract!Flushed(p)
  <2>1. /\ port_list' = [port_list EXCEPT ![p] = <<>>]
        /\ hw' = [hw EXCEPT ![p] = f({})]
        /\ UNCHANGED <<Attached, spoiled>>
    BY <1>4 DEF Abstract!Flushed, Abstract!Keeping
  <2> HIDE DEF f
  <2> QED BY ZenonT(60), <1>1, <1>2, <1>3, <2>1, OnePort DEF FlowInv
<1>5. CASE Abstract!FlushFailed(p)
  <2>1. PICK Kept \in SUBSET Handles : hw' = Abstract!Keeping(p, Kept)
    BY <1>5 DEF Abstract!FlushFailed
  <2>2. /\ port_list' = [port_list EXCEPT ![p] = <<>>]
        /\ hw' = [hw EXCEPT ![p] = f(Kept)]
        /\ Attached' = Attached /\ spoiled' = spoiled \cup {p}
    BY ZenonT(60), <1>5, <2>1 DEF Abstract!FlushFailed, Abstract!Keeping
  <2> HIDE DEF f
  <2> QED BY ZenonT(60), <1>1, <1>2, <2>2, OnePort DEF FlowInv
<1>6. CASE Abstract!FlushRefused(p) BY <1>6 DEF Abstract!FlushRefused, Abstract!flowvars, FlowInv, PortInv
<1> QED BY <1>4, <1>5, <1>6 DEF Abstract!exec_flow_flush

(* A device that is detached has no rules; if some were listed, its port    *)
(* counts as spoiled.                                                       *)
LEMMA DetachInv ==
  ASSUME FlowInv, NEW p \in Devs, Abstract!Detach(p)
  PROVE  FlowInv'
<1> DEFINE l == port_list[p]
           f == [k \in DOMAIN hw[p] \cap {} |-> hw[p][k]]
<1>1. l \in Seq(Abstract!Entry) /\ hw[p] \in Tables /\ Fall(l) BY DEF FlowInv, PortInv
<1>2. f \in Tables BY ZenonT(60), <1>1, TablesClosed
<1>3. /\ port_list' = [port_list EXCEPT ![p] = l]
      /\ hw' = [hw EXCEPT ![p] = f]
      /\ Attached' \in SUBSET Devs
      /\ spoiled' \in SUBSET Devs /\ spoiled \subseteq spoiled'
  BY DEF Abstract!Detach, Abstract!Keeping, FlowInv
<1>4. p \in spoiled' \/ Agree(l, f)
  <2>1. CASE l = <<>> BY <2>1, AgreeEmpty
  <2>2. CASE l # <<>> BY <2>2 DEF Abstract!Detach
  <2> QED BY <2>1, <2>2
<1> HIDE DEF l, f
<1> QED BY ZenonT(60), <1>1, <1>2, <1>3, <1>4, OnePort

(* So every step of FlowRules keeps the invariant, attaching a port too.    *)
LEMMA NextInv == FlowInv /\ [Abstract!FlowNext]_(Abstract!flowvars) => FlowInv'
<1> SUFFICES ASSUME FlowInv, Abstract!FlowNext \/ UNCHANGED Abstract!flowvars PROVE FlowInv'
  OBVIOUS
<1>1. CASE UNCHANGED Abstract!flowvars BY <1>1 DEF Abstract!flowvars, FlowInv, PortInv
<1>2. ASSUME NEW p \in Devs, Abstract!Attach(p) PROVE FlowInv'
  BY <1>2 DEF Abstract!Attach, FlowInv, PortInv
<1> QED BY <1>1, <1>2, CreateInv, DestroyInv, FlushInv, DetachInv DEF Abstract!FlowNext

(* The invariant holds throughout.                                          *)
LEMMA SpecInv == Abstract!FlowSpec => []FlowInv
BY InitInv, NextInv, PTL DEF Abstract!FlowSpec

(* For any devices, handles, rules and ids, and whatever the devices        *)
(* refuse, the ids that status lists for a port fall from the newest rule   *)
(* to the oldest: "flow destroy" names one rule (exec_flow_create,          *)
(* exec_flow_destroy).                                                      *)
THEOREM RuleIdsFallAlways == Abstract!FlowSpec => []Abstract!RuleIdsFall
BY SpecInv, InvImplies, PTL

(* And on every port where no clean-up failed and that was not detached     *)
(* with rules, status lists exactly the rules that are in the device.       *)
THEOREM FlowListedAlways == Abstract!FlowSpec => []Abstract!FlowListed
BY SpecInv, InvImplies, PTL
-----------------------------------------------------------------------------
(* Primary implements FlowRules                                            *)

(* The devices and the other tables have their shapes.                      *)
FwdEntry == [in : BOOLEAN, out : Devs \cup {Reset}]

TypeOK == /\ port_id_list \in [Devs -> AnyUid]
          /\ port_map \in [Devs -> AnyUid]
          /\ dev \in [Devs -> AnyUid]
          /\ fwd \in [Devs -> FwdEntry]

(* An id is found in the list, or the reset value is returned.              *)
LEMMA LeastIn ==
  ASSUME NEW S \in SUBSET Devs, S # {}
  PROVE  Min(S) \in S
<1>1. S \subseteq Nat BY PrimaryAssumption DEF Devs
<1>2. PICK x \in S : \A y \in S : ~(<<y, x>> \in OpToRel(<, Nat))
  BY <1>1, NatLessThanWellFounded, WFMin
<1>3. \A y \in S : x <= y
  <2> SUFFICES ASSUME NEW y \in S PROVE x <= y OBVIOUS
  <2>1. ~(y < x) BY ZenonT(60), <1>1, <1>2 DEF OpToRel
  <2> QED BY <1>1, <2>1
<1> QED BY <1>3, Zenon DEF Min

(* An add gives one of the ids there are, ...                               *)
LEMMA DevSlotsIn == ASSUME NEW u PROVE DevSlots(u) \subseteq Devs
<1> DEFINE Free == Devs \ Attached
<1>1. Free # {} => Min(Free) \in Devs BY LeastIn
<1> QED BY <1>1 DEF DevSlots

(* ... and so do the searches in the tables, unless they find nothing.      *)
LEMMA FindIn ==
  ASSUME NEW u
  PROVE  find_ethdev_id(u) \in Devs \cup {Reset} /\ find_port_id(u) \in Devs \cup {Reset}
<1> DEFINE E == {i \in Devs : port_id_list[i] = u}
           P == {i \in Devs : port_map[i] = Uid(IF u.type = "pipe" THEN "UNDEF" ELSE u.type, u.id)}
<1>1. E # {} => Min(E) \in Devs BY LeastIn
<1>2. P # {} => Min(P) \in Devs BY LeastIn
<1>3. find_ethdev_id(u) = IF E = {} THEN Reset ELSE Min(E) BY DEF find_ethdev_id
<1>4. find_port_id(u) = IF P = {} THEN Reset ELSE Min(P) BY DEF find_port_id
<1> HIDE DEF E, P
<1> QED BY <1>1, <1>2, <1>3, <1>4

(* What the steps of the loop and of spp-ctl leave alone                    *)
Kept == UNCHANGED <<port_id_list, rings, port_map, fwd, dev, stopped, port_list, hw,
                    spoiled, asked, patches, odd, cut>>

(* A step that is no command changes no table.                              *)
LEMMA OthersKeep ==
  ASSUME Loop \/ turn_off \/ PeerGoes \/ PeerComes \/ UNCHANGED vars
  PROVE  Kept
<1> USE DEF Kept, data, tables, flows, promises
<1>1. CASE do_connection BY <1>1, Zenon DEF do_connection
<1>2. CASE ReceiveClosed BY <1>2, Zenon DEF ReceiveClosed
<1>3. CASE do_send BY <1>3, Zenon DEF do_send
<1>4. CASE SendFails BY <1>4, Zenon DEF SendFails
<1>5. CASE Leave BY <1>5, Zenon DEF Leave
<1>6. CASE turn_off BY <1>6, Zenon DEF turn_off
<1>7. CASE PeerGoes BY <1>7, Zenon DEF PeerGoes
<1>8. CASE PeerComes BY <1>8, Zenon DEF PeerComes
<1>9. CASE UNCHANGED vars BY <1>9, Zenon DEF vars
<1> QED BY Zenon, <1>1, <1>2, <1>3, <1>4, <1>5, <1>6, <1>7, <1>8, <1>9 DEF Loop

(* A command that changes a table is an add or a del of a port, a patch,    *)
(* its reset or a command about flow rules.                                 *)
LEMMA Commands ==
  ASSUME Next \/ UNCHANGED vars
  PROVE  \/ Kept
         \/ \E u \in Uids : \E q : add_port(u, q)
         \/ \E u \in Uids : del_port(u)
         \/ \E s, d \in Uids : Patch(s, d)
         \/ forward_array_reset
         \/ \E r \in Request : r.op = "flow" /\ FlowCommand(r)
<1>1. CASE ~(\E r \in Request : Receive(r)) BY <1>1, OthersKeep DEF Next
<1>2. ASSUME NEW r \in Request, Receive(r)
      PROVE  Runs(r) \/ Quits(r) \/ LaunchSplits(r) \/ Killed(r)
  BY <1>2, Zenon DEF Receive, parse_command
<1>3. ASSUME NEW r \in Request, Quits(r) \/ LaunchSplits(r) \/ Killed(r)
      PROVE  Kept
  <2> USE DEF Kept, Unchanged, tables, flows, promises
  <2>1. CASE Quits(r) BY <2>1, Zenon DEF Quits
  <2>2. CASE LaunchSplits(r) BY <2>2, Zenon DEF LaunchSplits
  <2>3. CASE Killed(r) BY <2>3, Zenon DEF Killed
  <2> QED BY <1>3, <2>1, <2>2, <2>3
<1>4. ASSUME NEW r \in Request, Plain(r) \/ ForwardStop(r) \/ Launch(r)
      PROVE  Kept
  <2> USE DEF Kept, Unchanged, tables, flows, promises
  <2>1. CASE Plain(r) BY <2>1, Zenon DEF Plain
  <2>2. CASE ForwardStop(r) BY <2>2, Zenon DEF ForwardStop
  <2>3. CASE Launch(r) BY <2>3, Zenon DEF Launch
  <2> QED BY <1>4, <2>1, <2>2, <2>3
<1>5. ASSUME NEW r \in Request
      PROVE  /\ r.op \in {"add", "del"} => r.uid \in Uids \cup {BadUid}
             /\ r.op = "patch" => r.src \in Uids /\ r.dst \in Uids
  BY DEF Request
<1> QED BY <1>1, <1>2, <1>3, <1>4, <1>5, Zenon DEF Runs

(* The id 0 is there.                                                       *)
LEMMA ZeroDev == 0 \in Devs /\ Devs \subseteq Nat /\ Reset \notin Devs
BY PrimaryAssumption, UidsAssumption DEF Devs, Reset

(* A UID of a command is none of the marks for a free place.                *)
LEMMA UidIs ==
  ASSUME NEW u \in Uids
  PROVE  u \in AnyUid /\ u # None /\ u.id # Reset /\ Uid("UNDEF", u.id) \in AnyUid
<1>1. u \in AnyUid /\ u.id # Reset BY Zenon, UidsAssumption
<1>2. u # None BY <1>1 DEF None, Uid
<1>3. u.id \in 0 .. Reset BY <1>1 DEF AnyUid
<1>4. Uid("UNDEF", u.id) \in AnyUid BY <1>3 DEF AnyUid, Uid, Types
<1> QED BY Zenon, <1>1, <1>2, <1>4

(* A port put in use keeps its destination, and the others are left alone.  *)
LEMMA InUse ==
  ASSUME NEW f \in [Devs -> FwdEntry], NEW i \in Devs
  PROVE  /\ [f EXCEPT ![i].in = TRUE] \in [Devs -> FwdEntry]
         /\ [f EXCEPT ![i].in = TRUE][i].in
         /\ [f EXCEPT ![i].in = TRUE][i].out = f[i].out
         /\ \A j \in Devs \ {i} : [f EXCEPT ![i].in = TRUE][j] = f[j]
BY DEF FwdEntry

(* What an add may do to the tables                                         *)
Enters(u, i) == /\ dev' = [dev EXCEPT ![i] = u]
                /\ stopped' = stopped \ {i}
                /\ Mapped(i, u)
                /\ port_id_list' = [j \in Devs |-> IF j = FreeIndex THEN u
                                                                    ELSE port_id_list[j]]
                /\ asked' = asked \cup {u}
                /\ odd' = (odd \/ Slips(u, TRUE))

LEMMA AddDoes ==
  ASSUME NEW u \in Uids, NEW q, add_port(u, q)
  PROVE  /\ UNCHANGED <<port_list, hw, spoiled, patches, cut>>
         /\ \/ u.type \in Added \cup {"pipe"} /\ \E i \in DevSlots(u) : Enters(u, i)
            \/ /\ UNCHANGED <<port_map, fwd, stopped, asked>>
               /\ \/ UNCHANGED <<dev, port_id_list, odd>>
                  \/ /\ odd' = TRUE
                     /\ dev' = dev \/ \E i \in DevSlots(u) : dev' = [dev EXCEPT ![i] = u]
                     /\ port_id_list' = [j \in Devs |-> IF j = FreeIndex THEN u
                                                        ELSE port_id_list[j]]
            \/ /\ UNCHANGED <<dev, port_id_list>> /\ odd' = TRUE
               /\ Mapped(0, Uid("UNDEF", u.id))
<1>1. CASE AddSucceeds(u, q) /\ u.type \in Added \cup {"pipe"}
  BY Zenon, <1>1 DEF AddSucceeds, Enters, Listed, flows
<1>2. CASE AddFails(u)
  <2>1. /\ UNCHANGED <<port_list, hw, spoiled, patches, cut, port_map, fwd, stopped, asked>>
    BY Zenon, <1>2 DEF AddFails, flows
  <2>2. CASE u.type = "pipe"
    <3>1. u.type \notin Added BY <2>2 DEF Added
    <3> QED BY Zenon, <1>2, <2>1, <2>2, <3>1 DEF AddFails
  <2>3. CASE u.type # "pipe"
    BY Zenon, <1>2, <2>1, <2>3 DEF AddFails, Listed
  <2> QED BY <2>2, <2>3
<1>3. CASE AddNothing(u) BY Zenon, <1>3 DEF AddNothing, flows
<1> QED BY Zenon, <1>1, <1>2, <1>3 DEF add_port

(* A del takes its port out of use and gives no port another destination.   *)
LEMMA RemoveIs ==
  ASSUME fwd \in [Devs -> FwdEntry], NEW i \in Devs
  PROVE  /\ forward_array_remove(i) \in [Devs -> FwdEntry]
         /\ ~forward_array_remove(i)[i].in /\ forward_array_remove(i)[i].out = Reset
         /\ \A j \in Devs \ {i} :
              /\ forward_array_remove(i)[j].in = fwd[j].in
              /\ forward_array_remove(i)[j].out \in {fwd[j].out, Reset}
<1>1. PICK f : f = [fwd EXCEPT ![i] = [in |-> FALSE, out |-> Reset]] BY Zenon
<1>2. /\ f \in [Devs -> FwdEntry] /\ f[i] = [in |-> FALSE, out |-> Reset]
      /\ \A j \in Devs \ {i} : f[j] = fwd[j]
  BY <1>1 DEF FwdEntry
<1>3. PICK Hit : Hit = {j \in Devs : f[j].in \/ f[j].out = i} BY Zenon
<1>4. PICK g : g = [j \in Devs |-> IF Hit # {} /\ j = Min(Hit) THEN [f[j] EXCEPT !.out = Reset]
                                                              ELSE f[j]]
  BY Zenon
<1>5. forward_array_remove(i) = g BY Zenon, <1>1, <1>3, <1>4 DEF forward_array_remove
<1>6. \A j \in Devs : g[j] \in {f[j], [f[j] EXCEPT !.out = Reset]} BY Zenon, <1>4
<1>7. \A e \in FwdEntry : /\ [e EXCEPT !.out = Reset] \in FwdEntry
                          /\ [e EXCEPT !.out = Reset].in = e.in
                          /\ [e EXCEPT !.out = Reset].out = Reset
  BY DEF FwdEntry
<1>8. \A j \in Devs : /\ f[j] \in FwdEntry /\ g[j] \in FwdEntry
                      /\ g[j].in = f[j].in /\ g[j].out \in {f[j].out, Reset}
  <2> SUFFICES ASSUME NEW j \in Devs
               PROVE  /\ f[j] \in FwdEntry /\ g[j] \in FwdEntry
                      /\ g[j].in = f[j].in /\ g[j].out \in {f[j].out, Reset}
    BY Zenon
  <2>1. PICK e : e = f[j] BY Zenon
  <2>2. e \in FwdEntry BY Zenon, <1>2, <2>1
  <2>3. CASE g[j] = e BY Zenon, <2>1, <2>2, <2>3
  <2>4. CASE g[j] = [e EXCEPT !.out = Reset] BY Zenon, <1>7, <2>1, <2>2, <2>4
  <2> QED BY Zenon, <1>6, <2>1, <2>3, <2>4
<1>9. g \in [Devs -> FwdEntry] BY Zenon, <1>4, <1>8
<1>10. ~g[i].in /\ g[i].out = Reset BY <1>2, <1>8
<1> QED BY Zenon, <1>2, <1>5, <1>8, <1>9, <1>10

(* The device that a del names, and what it does to the tables              *)
Leaves(u, i) == /\ Forgotten(i)
                /\ asked' = asked \ {u}
                /\ patches' = Restrict(patches, {s \in DOMAIN patches :
                                                   u \notin {s, patches[s]}})
                /\ odd' = (odd \/ u.type \in {"phy", "tap"})
                /\ cut' = (cut \/ \E j \in Devs : Patched(j))
                /\ \/ dev' = dev /\ UNCHANGED <<port_list, hw, spoiled>>
                   \/ dev' = [dev EXCEPT ![i] = None] /\ Flow!Detach(i) /\ i \in Attached

LEMMA DelDoes ==
  ASSUME NEW u \in Uids, del_port(u)
  PROVE  \/ UNCHANGED <<tables, flows, promises>>
         \/ /\ u.type \in {"phy", "tap"}
            /\ Leaves(u, 0)
         \/ /\ u.type \notin {"phy", "tap"} /\ find_ethdev_id(u) # Reset
            /\ Leaves(u, find_ethdev_id(u))
            /\ DetachOrClose(u, find_ethdev_id(u))
<1>1. ASSUME NEW i, DetachOrClose(u, i), Forgotten(i),
             asked' = asked \ {u},
             patches' = Restrict(patches, {s \in DOMAIN patches : u \notin {s, patches[s]}}),
             odd' = (odd \/ u.type \in {"phy", "tap"}),
             cut' = (cut \/ \E j \in Devs : Patched(j))
      PROVE  Leaves(u, i)
  <2>1. \/ dev' = dev /\ UNCHANGED <<port_list, hw, spoiled>>
        \/ dev' = [dev EXCEPT ![i] = None] /\ Flow!Detach(i) /\ i \in Attached
    BY Zenon, <1>1 DEF DetachOrClose, flows
  <2> QED BY Zenon, <1>1, <2>1 DEF Leaves
<1>2. CASE u.type \in {"phy", "tap"}
  <2>1. 0 # Reset BY DEF Reset
  <2> QED BY Zenon, <1>1, <1>2, <2>1 DEF del_port
<1>3. CASE u.type \notin {"phy", "tap"} /\ find_ethdev_id(u) = Reset
  BY Zenon, <1>3 DEF del_port
<1>4. CASE u.type \notin {"phy", "tap"} /\ find_ethdev_id(u) # Reset
  BY Zenon, <1>1, <1>4 DEF del_port
<1> QED BY <1>2, <1>3, <1>4

(* A patch leads its port to the destination and changes no other one's.    *)
LEMMA PatchIs ==
  ASSUME NEW i \in Devs, NEW o \in Devs, fwd \in [Devs -> FwdEntry]
  PROVE  /\ add_patch(i, o) \in [Devs -> FwdEntry]
         /\ add_patch(i, o)[i].in /\ add_patch(i, o)[i].out = o
         /\ add_patch(i, o)[o].in
         /\ o # i => add_patch(i, o)[o].out = fwd[o].out
         /\ \A j \in Devs \ {i, o} : add_patch(i, o)[j] = fwd[j]
<1>1. PICK f : f = [fwd EXCEPT ![i] = [in |-> TRUE, out |-> o]] BY Zenon
<1>2. /\ f \in [Devs -> FwdEntry] /\ f[i] = [in |-> TRUE, out |-> o]
      /\ \A j \in Devs \ {i} : f[j] = fwd[j]
  BY <1>1 DEF FwdEntry
<1>3. PICK g : g = [f EXCEPT ![o].in = TRUE] BY Zenon
<1>4. add_patch(i, o) = g
  BY <1>1, <1>3 DEF add_patch
<1>5. /\ g \in [Devs -> FwdEntry] /\ g[o].in /\ g[o].out = f[o].out
      /\ \A j \in Devs \ {o} : g[j] = f[j]
  BY <1>2, <1>3, InUse
<1>6. g[i].in /\ g[i].out = o
  <2>1. f[i].in /\ f[i].out = o BY <1>2
  <2>2. CASE i = o BY Zenon, <1>5, <2>1, <2>2
  <2>3. CASE i # o BY Zenon, <1>5, <2>1, <2>3
  <2> QED BY <2>2, <2>3
<1> QED BY Zenon, <1>2, <1>4, <1>5, <1>6

(* After "patch reset" no port that is in use has a destination.            *)
LEMMA ResetIs ==
  ASSUME fwd \in [Devs -> FwdEntry], forward_array_reset
  PROVE  /\ fwd' \in [Devs -> FwdEntry]
         /\ \A j \in Devs : /\ fwd'[j].in = fwd[j].in
                            /\ fwd'[j].in => fwd'[j].out = Reset
                            /\ ~fwd'[j].in => fwd'[j].out = fwd[j].out
<1>1. fwd' = [i \in Devs |-> IF fwd[i].in THEN [fwd[i] EXCEPT !.out = Reset] ELSE fwd[i]]
  BY Zenon DEF forward_array_reset
<1>2. \A e \in FwdEntry : /\ [e EXCEPT !.out = Reset] \in FwdEntry
                          /\ [e EXCEPT !.out = Reset].in = e.in
                          /\ [e EXCEPT !.out = Reset].out = Reset
  BY DEF FwdEntry
<1>3. ASSUME NEW j \in Devs
      PROVE  /\ fwd'[j] \in FwdEntry /\ fwd'[j].in = fwd[j].in
             /\ fwd'[j].in => fwd'[j].out = Reset
             /\ ~fwd'[j].in => fwd'[j].out = fwd[j].out
  <2>1. PICK e \in FwdEntry : e = fwd[j] OBVIOUS
  <2>2. fwd'[j] = IF e.in THEN [e EXCEPT !.out = Reset] ELSE e BY Zenon, <1>1, <2>1
  <2>3. CASE e.in BY Zenon, <1>2, <2>1, <2>2, <2>3
  <2>4. CASE ~e.in BY Zenon, <2>1, <2>2, <2>4
  <2> QED BY <2>3, <2>4
<1>4. fwd' \in [Devs -> FwdEntry] BY Zenon, <1>1, <1>3
<1> QED BY Zenon, <1>3, <1>4

(* The tables have their shapes, and only a port in use has a destination.  *)
Shape == TypeOK /\ \A i \in Devs : ~fwd[i].in => fwd[i].out = Reset

LEMMA ShapeInit == Init => Shape
<1> SUFFICES ASSUME Init PROVE Shape OBVIOUS
<1>0. None \in AnyUid /\ \A i \in Devs : Uid("phy", i) \in AnyUid
  <2>1. Reset \in Nat BY DEF Reset
  <2>2. Reset \in 0 .. Reset BY <2>1
  <2>3. \A i \in Devs : i \in 0 .. Reset BY <2>1, PrimaryAssumption, UidsAssumption DEF Devs
  <2> QED BY <2>2, <2>3 DEF None, AnyUid, Uid, Types
<1>1. dev \in [Devs -> AnyUid] BY <1>0 DEF Init
<1>2. fwd \in [Devs -> FwdEntry] /\ \A i \in Devs : fwd[i].out = Reset
  <2>1. \A b \in BOOLEAN : [in |-> b, out |-> Reset] \in FwdEntry BY DEF FwdEntry
  <2>2. fwd = [i \in Devs |-> [in |-> i < NPhy, out |-> Reset]] BY Zenon DEF Init
  <2>3. \A i \in Devs : (i < NPhy) \in BOOLEAN OBVIOUS
  <2> QED BY Zenon, <2>1, <2>2, <2>3
<1> QED BY Zenon, <1>1, <1>2 DEF Init, Shape, TypeOK

(* The place in the list an add takes                                       *)
LEMMA ListedTyped ==
  ASSUME Shape, NEW u \in Uids
  PROVE  [j \in Devs |-> IF j = FreeIndex THEN u ELSE port_id_list[j]] \in [Devs -> AnyUid]
<1>1. u \in AnyUid BY UidIs
<1> QED BY Zenon, <1>1 DEF Shape, TypeOK

LEMMA AddShape ==
  ASSUME Shape, NEW u \in Uids, NEW q, add_port(u, q)
  PROVE  Shape' /\ \E i \in Devs : dev' \in {dev, [dev EXCEPT ![i] = u]}
<1>0. /\ dev \in [Devs -> AnyUid] /\ port_map \in [Devs -> AnyUid]
      /\ port_id_list \in [Devs -> AnyUid] /\ fwd \in [Devs -> FwdEntry]
      /\ \A i \in Devs : ~fwd[i].in => fwd[i].out = Reset
  BY Zenon DEF Shape, TypeOK
<1>1. u \in AnyUid /\ Uid("UNDEF", u.id) \in AnyUid BY UidIs
<1>2. DevSlots(u) \subseteq Devs /\ 0 \in Devs BY DevSlotsIn, ZeroDev
<1>3. ASSUME NEW i \in Devs, NEW v \in AnyUid, Mapped(i, v)
      PROVE  /\ port_map' \in [Devs -> AnyUid] /\ fwd' \in [Devs -> FwdEntry]
             /\ \A j \in Devs : ~fwd'[j].in => fwd'[j].out = Reset
  <2>1. port_map' = [port_map EXCEPT ![i] = v] /\ fwd' = [fwd EXCEPT ![i].in = TRUE]
    BY Zenon, <1>3 DEF Mapped
  <2>2. /\ fwd' \in [Devs -> FwdEntry] /\ fwd'[i].in
        /\ \A j \in Devs \ {i} : fwd'[j] = fwd[j]
    BY <1>0, <2>1, InUse
  <2> QED BY Zenon, <1>0, <2>1, <2>2
<1>4. \A i \in Devs : [dev EXCEPT ![i] = u] \in [Devs -> AnyUid] BY Zenon, <1>0, <1>1
<1>5. CASE \E i \in DevSlots(u) : Enters(u, i)
  <2>1. PICK i \in Devs : Enters(u, i) BY Zenon, <1>2, <1>5
  <2>2. /\ port_map' \in [Devs -> AnyUid] /\ fwd' \in [Devs -> FwdEntry]
        /\ \A j \in Devs : ~fwd'[j].in => fwd'[j].out = Reset
    BY Zenon, <1>1, <1>3, <2>1 DEF Enters
  <2>3. port_id_list' \in [Devs -> AnyUid] BY Zenon, <2>1, ListedTyped DEF Enters
  <2>4. dev' = [dev EXCEPT ![i] = u] BY Zenon, <2>1 DEF Enters
  <2>5. dev' \in [Devs -> AnyUid] BY Zenon, <1>4, <2>4
  <2> QED BY Zenon, <2>2, <2>3, <2>4, <2>5 DEF Shape, TypeOK
<1>6. CASE /\ UNCHANGED <<port_map, fwd, stopped, asked>>
           /\ UNCHANGED <<dev, port_id_list, odd>>
  BY Zenon, <1>0, <1>2, <1>6 DEF Shape, TypeOK
<1>7. CASE /\ UNCHANGED <<port_map, fwd, stopped, asked>>
           /\ odd' = TRUE
           /\ dev' = dev \/ \E i \in DevSlots(u) : dev' = [dev EXCEPT ![i] = u]
           /\ port_id_list' = [j \in Devs |-> IF j = FreeIndex THEN u ELSE port_id_list[j]]
  <2>1. PICK i \in Devs : dev' \in {dev, [dev EXCEPT ![i] = u]} BY Zenon, <1>2, <1>7
  <2>2. dev' \in [Devs -> AnyUid] BY Zenon, <1>0, <1>4, <2>1
  <2>3. port_id_list' \in [Devs -> AnyUid] BY Zenon, <1>7, ListedTyped
  <2> QED BY Zenon, <1>0, <1>7, <2>1, <2>2, <2>3 DEF Shape, TypeOK
<1>8. CASE /\ UNCHANGED <<dev, port_id_list>>
           /\ Mapped(0, Uid("UNDEF", u.id))
  <2>1. /\ port_map' \in [Devs -> AnyUid] /\ fwd' \in [Devs -> FwdEntry]
        /\ \A j \in Devs : ~fwd'[j].in => fwd'[j].out = Reset
    BY Zenon, <1>1, <1>2, <1>3, <1>8
  <2> QED BY Zenon, <1>0, <1>2, <1>8, <2>1 DEF Shape, TypeOK
<1> QED BY Zenon, <1>5, <1>6, <1>7, <1>8, AddDoes

LEMMA DelShape ==
  ASSUME Shape, NEW u \in Uids, del_port(u)
  PROVE  Shape'
<1>0. /\ dev \in [Devs -> AnyUid] /\ port_map \in [Devs -> AnyUid]
      /\ port_id_list \in [Devs -> AnyUid] /\ fwd \in [Devs -> FwdEntry]
      /\ \A i \in Devs : ~fwd[i].in => fwd[i].out = Reset
  BY Zenon DEF Shape, TypeOK
<1>1. None \in AnyUid
  <2>1. Reset \in Nat BY DEF Reset
  <2>2. Reset \in 0 .. Reset BY <2>1
  <2> QED BY <2>2 DEF None, AnyUid, Uid, Types
<1>2. 0 \in Devs BY ZeroDev
<1>3. find_ethdev_id(u) # Reset => find_ethdev_id(u) \in Devs BY Zenon, FindIn
<1>4. ASSUME NEW i \in Devs, Leaves(u, i) PROVE Shape'
  <2>1. /\ port_id_list' = [port_id_list EXCEPT ![i] = None]
        /\ fwd' = forward_array_remove(i)
        /\ port_map' = [port_map EXCEPT ![i] = None]
        /\ dev' \in {dev, [dev EXCEPT ![i] = None]}
    BY Zenon, <1>4 DEF Leaves, Forgotten
  <2>2. /\ fwd' \in [Devs -> FwdEntry] /\ fwd'[i].out = Reset
        /\ \A j \in Devs \ {i} : fwd'[j].in = fwd[j].in /\ fwd'[j].out \in {fwd[j].out, Reset}
    BY Zenon, <1>0, <2>1, RemoveIs
  <2>3. \A j \in Devs : ~fwd'[j].in => fwd'[j].out = Reset BY Zenon, <1>0, <2>2
  <2> QED BY Zenon, <1>0, <1>1, <2>1, <2>2, <2>3 DEF Shape, TypeOK
<1>5. CASE UNCHANGED <<tables, flows, promises>>
  BY Zenon, <1>5 DEF Shape, TypeOK, tables
<1> QED BY Zenon, <1>2, <1>3, <1>4, <1>5, DelDoes

LEMMA PatchShape ==
  ASSUME Shape, NEW s \in Uids, NEW d \in Uids, Patch(s, d)
  PROVE  Shape'
<1>0. /\ dev \in [Devs -> AnyUid] /\ port_map \in [Devs -> AnyUid]
      /\ port_id_list \in [Devs -> AnyUid] /\ fwd \in [Devs -> FwdEntry]
      /\ \A i \in Devs : ~fwd[i].in => fwd[i].out = Reset
  BY Zenon DEF Shape, TypeOK
<1>1. PICK i, o : i = find_port_id(s) /\ o = find_port_id(d) BY Zenon
<1>2. UNCHANGED <<dev, port_map, port_id_list>> BY Zenon DEF Patch
<1>3. CASE Reset \in {i, o}
  <2>1. fwd' = fwd BY Zenon, <1>1, <1>3 DEF Patch
  <2> QED BY Zenon, <1>0, <1>2, <2>1 DEF Shape, TypeOK
<1>4. CASE Reset \notin {i, o}
  <2>1. fwd' = add_patch(i, o) BY Zenon, <1>1, <1>4 DEF Patch
  <2>2. i \in Devs /\ o \in Devs BY Zenon, <1>1, <1>4, FindIn
  <2>3. /\ fwd' \in [Devs -> FwdEntry] /\ fwd'[i].in /\ fwd'[o].in
        /\ \A j \in Devs \ {i, o} : fwd'[j] = fwd[j]
    <3>1. /\ add_patch(i, o) \in [Devs -> FwdEntry]
          /\ add_patch(i, o)[i].in /\ add_patch(i, o)[i].out = o
          /\ add_patch(i, o)[o].in
          /\ o # i => add_patch(i, o)[o].out = fwd[o].out
          /\ \A j \in Devs \ {i, o} : add_patch(i, o)[j] = fwd[j]
      BY <1>0, <2>2, PatchIs
    <3> QED BY Zenon, <2>1, <3>1
  <2> QED BY Zenon, <1>0, <1>2, <2>3 DEF Shape, TypeOK
<1> QED BY <1>3, <1>4

LEMMA ResetShape ==
  ASSUME Shape, forward_array_reset
  PROVE  Shape'
<1>1. UNCHANGED <<dev, port_map, port_id_list>> BY Zenon DEF forward_array_reset
<1>2. fwd \in [Devs -> FwdEntry] BY Zenon DEF Shape, TypeOK
<1>3. /\ fwd' \in [Devs -> FwdEntry]
      /\ \A j \in Devs : /\ fwd'[j].in = fwd[j].in
                         /\ ~fwd'[j].in => fwd'[j].out = fwd[j].out
  BY Zenon, <1>2, ResetIs
<1> QED BY Zenon, <1>1, <1>3 DEF Shape, TypeOK

(* Whatever is done, the tables keep their shapes.                          *)
LEMMA ShapeNext == ASSUME Shape, [Next]_vars PROVE Shape'
<1>1. CASE Kept BY Zenon, <1>1 DEF Kept, Shape, TypeOK
<1>2. CASE \E r \in Request : r.op = "flow" /\ FlowCommand(r)
  <2>1. UNCHANGED tables BY Zenon, <1>2 DEF FlowCommand
  <2> QED BY Zenon, <2>1 DEF tables, Shape, TypeOK
<1> QED BY Zenon, <1>1, <1>2, Commands, AddShape, DelShape, PatchShape, ResetShape

-----------------------------------------------------------------------------
(* An add attaches a device or finds one.                                   *)
LEMMA AddFlow ==
  ASSUME Shape, NEW u \in Uids, NEW q, add_port(u, q)
  PROVE  [Abstract!FlowNext]_(Abstract!flowvars)
<1>1. UNCHANGED <<port_list, hw, spoiled>> BY Zenon, AddDoes
<1>2. PICK i \in Devs : dev' \in {dev, [dev EXCEPT ![i] = u]} BY Zenon, AddShape
<1>3. dev \in [Devs -> AnyUid] /\ u # None BY Zenon, UidIs DEF Shape, TypeOK
<1>4. CASE dev' = dev BY Zenon, <1>1, <1>4 DEF Abstract!flowvars, Attached
<1>5. CASE dev' = [dev EXCEPT ![i] = u]
  <2>1. dev'[i] = u /\ \A j \in Devs \ {i} : dev'[j] = dev[j] BY Zenon, <1>3, <1>5
  <2>2. Attached' = Attached \cup {i} BY Zenon, <1>3, <2>1 DEF Attached
  <2>3. CASE i \in Attached
    <3>1. Attached' = Attached BY Zenon, <2>2, <2>3
    <3> QED BY Zenon, <1>1, <3>1 DEF Abstract!flowvars
  <2>4. CASE i \notin Attached
    <3>1. Abstract!Attach(i) BY Zenon, <1>1, <2>2, <2>4 DEF Abstract!Attach
    <3> QED BY Zenon, <3>1 DEF Abstract!FlowNext
  <2> QED BY <2>3, <2>4
<1> QED BY <1>2, <1>4, <1>5

(* A del detaches one or leaves it.                                         *)
LEMMA DelFlow ==
  ASSUME Shape, NEW u \in Uids, del_port(u)
  PROVE  [Abstract!FlowNext]_(Abstract!flowvars)
<1>1. ASSUME NEW i \in Devs, Leaves(u, i) PROVE [Abstract!FlowNext]_(Abstract!flowvars)
  <2>1. CASE dev' = dev /\ UNCHANGED <<port_list, hw, spoiled>>
    BY Zenon, <2>1 DEF Abstract!flowvars, Attached
  <2>2. CASE Flow!Detach(i)
    <3>1. Abstract!Detach(i)
      BY Zenon, <2>2 DEF Flow!Detach, Abstract!Detach, Flow!Keeping, Abstract!Keeping
    <3> QED BY Zenon, <3>1 DEF Abstract!FlowNext
  <2> QED BY Zenon, <1>1, <2>1, <2>2 DEF Leaves
<1>2. CASE UNCHANGED <<tables, flows, promises>>
  BY Zenon, <1>2 DEF tables, flows, Abstract!flowvars, Attached
<1>3. 0 \in Devs BY ZeroDev
<1>4. find_ethdev_id(u) # Reset => find_ethdev_id(u) \in Devs BY Zenon, FindIn
<1> QED BY Zenon, <1>1, <1>2, <1>3, <1>4, DelDoes

(* A flow command is a step of FlowRules or changes no rule.                *)
LEMMA CommandFlow ==
  ASSUME NEW r \in Request, r.op = "flow", FlowCommand(r)
  PROVE  [Abstract!FlowNext]_(Abstract!flowvars)
<1>0. Attached \subseteq Devs BY Zenon DEF Attached
<1>1. /\ r.sub \in {"create", "validate"} => r.text \in Texts
      /\ r.sub = "destroy" => r.id \in 0 .. MaxRuleId
  BY DEF Request
<1>2. UNCHANGED Attached BY Zenon DEF FlowCommand, tables, Attached
<1>3. CASE UNCHANGED flows BY Zenon, <1>2, <1>3 DEF flows, Abstract!flowvars
<1>4. ASSUME NEW p \in Devs, \/ \E h \in Handles, v \in RulesOf : Abstract!exec_flow_create(p, h, v)
                             \/ \E n \in 0 .. MaxRuleId : Abstract!exec_flow_destroy(p, n)
                             \/ Abstract!exec_flow_flush(p)
      PROVE  [Abstract!FlowNext]_(Abstract!flowvars)
  BY Zenon, <1>4 DEF Abstract!FlowNext
<1>5. ASSUME r.sub = "create", Parsed(r.text), NEW h \in Handles,
             \/ Flow!Created(r.port, h, flow_args[r.text].val)
             \/ Flow!CreateUndone(r.port, h, flow_args[r.text].val)
      PROVE  [Abstract!FlowNext]_(Abstract!flowvars)
  <2>1. PICK p, v : p = r.port /\ v = flow_args[r.text].val BY Zenon
  <2>2. v \in RulesOf BY Zenon, <1>1, <1>5, <2>1 DEF RulesOf, Parsed
  <2>3. CASE Flow!Created(p, h, v)
    <3>1. Abstract!Created(p, h, v)
      BY Zenon, <2>3 DEF Flow!Created, Abstract!Created, Flow!Installs, Abstract!Installs,
                        Flow!NextId, Abstract!NextId
    <3>2. p \in Devs BY Zenon, <1>0, <3>1 DEF Abstract!Created, Abstract!Installs
    <3> QED BY Zenon, <1>4, <1>5, <2>2, <3>1, <3>2 DEF Abstract!exec_flow_create
  <2>4. CASE Flow!CreateUndone(p, h, v)
    <3>1. Abstract!CreateUndone(p, h, v)
      BY Zenon, <2>4 DEF Flow!CreateUndone, Abstract!CreateUndone, Flow!Installs,
                        Abstract!Installs, Flow!NextId, Abstract!NextId
    <3>2. p \in Devs BY Zenon, <1>0, <3>1 DEF Abstract!CreateUndone, Abstract!Installs
    <3> QED BY Zenon, <1>4, <1>5, <2>2, <3>1, <3>2 DEF Abstract!exec_flow_create
  <2> QED BY Zenon, <1>5, <2>1, <2>3, <2>4
<1>6. CASE r.sub = "destroy" /\ Flow!Destroyed(r.port, r.id)
  <2>1. Abstract!Destroyed(r.port, r.id)
    BY Zenon, <1>6 DEF Flow!Destroyed, Abstract!Destroyed, Flow!IsFirst, Abstract!IsFirst,
                      Flow!Keeping, Abstract!Keeping, Flow!Without, Abstract!Without
  <2>2. r.port \in Devs BY Zenon, <1>0, <2>1 DEF Abstract!Destroyed
  <2> QED BY Zenon, <1>1, <1>4, <1>6, <2>1, <2>2 DEF Abstract!exec_flow_destroy
<1>7. CASE Flow!Flushed(r.port) \/ Flow!FlushFailed(r.port)
  <2>1. Abstract!Flushed(r.port) \/ Abstract!FlushFailed(r.port)
    BY Zenon, <1>7 DEF Flow!Flushed, Abstract!Flushed, Flow!FlushFailed, Abstract!FlushFailed,
                      Flow!Keeping, Abstract!Keeping
  <2>2. r.port \in Devs BY Zenon, <1>0, <2>1 DEF Abstract!Flushed, Abstract!FlushFailed
  <2> QED BY Zenon, <1>4, <2>1, <2>2 DEF Abstract!exec_flow_flush
<1>8. ASSUME NEW p, NEW n, \/ Flow!CreateRefused(p)
                           \/ Flow!DestroyRefused(p, n)
                           \/ Flow!FlushRefused(p)
      PROVE  UNCHANGED flows
  BY Zenon, <1>8 DEF Flow!CreateRefused, Flow!DestroyRefused, Flow!FlushRefused,
                     Flow!flowvars, flows
<1> QED BY Zenon, <1>3, <1>5, <1>6, <1>7, <1>8
        DEF FlowCommand, ParseRefused, exec_flow_validate

(* Every step of the process is a step of FlowRules, or none.               *)
LEMMA FlowStep ==
  ASSUME Shape, [Next]_vars
  PROVE  [Abstract!FlowNext]_(Abstract!flowvars)
<1>1. CASE UNCHANGED <<dev, port_list, hw, spoiled>>
  BY Zenon, <1>1 DEF Abstract!flowvars, Attached
<1>2. CASE Kept BY Zenon, <1>1, <1>2 DEF Kept
<1>3. ASSUME NEW s, NEW d, Patch(s, d) PROVE UNCHANGED <<dev, port_list, hw, spoiled>>
  BY Zenon, <1>3 DEF Patch, flows
<1>4. CASE forward_array_reset BY Zenon, <1>1, <1>4 DEF forward_array_reset, flows
<1> QED BY Zenon, <1>1, <1>2, <1>3, <1>4, Commands, AddFlow, DelFlow, CommandFlow

LEMMA FlowStart == Init => Abstract!FlowInit
<1> SUFFICES ASSUME Init PROVE Abstract!FlowInit OBVIOUS
<1>1. Attached \subseteq Devs BY DEF Attached
<1>2. Flow!Nothing = Abstract!Nothing BY Zenon DEF Flow!Nothing, Abstract!Nothing
<1> QED BY Zenon, <1>1, <1>2 DEF Init, Abstract!FlowInit

LEMMA ShapeAlways == Spec => []Shape
<1>1. Shape /\ [Next]_vars => Shape' BY ShapeNext
<1> QED BY <1>1, ShapeInit, PTL DEF Spec

(* spp_primary implements FlowRules: whatever commands, devices and         *)
(* connections do, the rules and the devices change only as FlowRules says. *)
THEOREM PrimaryImplementsFlow == Spec => ImplementsFlow
<1>1. Shape /\ [Next]_vars => [Abstract!FlowNext]_(Abstract!flowvars) BY FlowStep
<1> QED BY <1>1, FlowStart, ShapeAlways, PTL DEF Spec, ImplementsFlow, Abstract!FlowSpec

(* So what holds of FlowRules holds of spp_primary: whatever ports come and *)
(* go, status lists for a port the rules that are in its device.            *)
THEOREM FlowListedInPrimary == Spec => []FlowListed
<1>1. Abstract!FlowListed => FlowListed
  BY Zenon DEF Abstract!FlowListed, FlowListed, Flow!FlowListed
<1> QED BY <1>1, PrimaryImplementsFlow, FlowListedAlways, PTL DEF ImplementsFlow


(* What status shows of a port: every rule is what parse_flow_rule made of  *)
(* a text that users sent, and the ids rise.                                *)
ShownParsed ==
  \A p \in Devs :
    \A i \in DOMAIN append_flow_json(p) :
      /\ append_flow_json(p)[i].rule \in RulesOf
      /\ \A j \in DOMAIN append_flow_json(p) :
           i < j => append_flow_json(p)[i].rule_id < append_flow_json(p)[j].rule_id

(* For any texts, ports and handles, and whatever rules were destroyed,     *)
(* flushed or refused by a device, status shows of a port only rules that   *)
(* the parser read from a text that was sent, in the order of their ids     *)
(* (exec_flow_create, append_flow_json).                                    *)
THEOREM ShownParsedAlways == Spec => []ShownParsed
<1>1. FlowInv => ShownParsed
  <2> SUFFICES ASSUME FlowInv, NEW p \in Devs, NEW i \in DOMAIN append_flow_json(p)
               PROVE  /\ append_flow_json(p)[i].rule \in RulesOf
                      /\ \A j \in DOMAIN append_flow_json(p) :
                           i < j => append_flow_json(p)[i].rule_id < append_flow_json(p)[j].rule_id
    BY Zenon DEF ShownParsed
  <2>1. PICK l \in Seq(Abstract!Entry) : l = port_list[p]
    BY InvImplies DEF Abstract!FlowTypeOK
  <2>2. append_flow_json(p) = [k \in DOMAIN l |-> l[Len(l) + 1 - k]]
    BY Zenon, <2>1 DEF append_flow_json
  <2>3. DOMAIN append_flow_json(p) = 1 .. Len(l) /\ DOMAIN l = 1 .. Len(l)
    BY <2>1, <2>2
  <2>4. \A k \in 1 .. Len(l) : append_flow_json(p)[k] = l[Len(l) + 1 - k]
    BY Zenon, <2>2, <2>3
  <2>5. \A k \in 1 .. Len(l) : Len(l) + 1 - k \in 1 .. Len(l) BY <2>1
  <2>6. \A m, n \in 1 .. Len(l) : m < n => l[m].rule_id > l[n].rule_id
    BY Zenon, <2>1, <2>3, InvImplies DEF Abstract!RuleIdsFall
  <2>7. \A m \in 1 .. Len(l) : l[m].rule_id \in Nat
    <3>1. \A m \in 1 .. Len(l) : l[m] \in Abstract!Entry OBVIOUS
    <3>2. \A e \in Abstract!Entry : e.rule_id \in Nat BY DEF Abstract!Entry
    <3> QED BY Zenon, <3>1, <3>2
  <2>8. ASSUME NEW j \in 1 .. Len(l), i < j
        PROVE  append_flow_json(p)[i].rule_id < append_flow_json(p)[j].rule_id
    <3>1. PICK m, n : m = Len(l) + 1 - i /\ n = Len(l) + 1 - j BY Zenon
    <3>2. m \in 1 .. Len(l) /\ n \in 1 .. Len(l) BY Zenon, <2>3, <2>5, <3>1
    <3>3. n < m BY <2>1, <2>3, <2>8, <3>1
    <3>4. l[n].rule_id > l[m].rule_id BY Zenon, <2>6, <3>2, <3>3
    <3>5. l[m].rule_id < l[n].rule_id BY <2>7, <3>2, <3>4
    <3>6. append_flow_json(p)[i] = l[m] /\ append_flow_json(p)[j] = l[n]
      BY Zenon, <2>3, <2>4, <3>1
    <3> QED BY Zenon, <3>5, <3>6
  <2>9. append_flow_json(p)[i].rule \in RulesOf
    <3>1. \A m \in 1 .. Len(l) : l[m] \in Abstract!Entry OBVIOUS
    <3>2. \A e \in Abstract!Entry : e.rule \in RulesOf BY DEF Abstract!Entry
    <3>3. PICK m \in 1 .. Len(l) : append_flow_json(p)[i] = l[m]
      BY Zenon, <2>3, <2>4, <2>5
    <3> QED BY Zenon, <3>1, <3>2, <3>3
  <2> QED BY Zenon, <2>3, <2>8, <2>9
<1> QED BY <1>1, PrimaryImplementsFlow, SpecInv, PTL DEF ImplementsFlow

(* So RuleAsWritten is left to the parser: it holds if every text without a *)
(* pcp or dei is read as it says.                                           *)
LEMMA RuleAsWrittenIfRead == ASSUME Misread = {} PROVE Spec => []RuleAsWritten
<1>1. ShownParsed => RuleAsWritten BY Zenon DEF ShownParsed, RuleAsWritten
<1> QED BY <1>1, ShownParsedAlways, PTL

-----------------------------------------------------------------------------
(* Ports and patches                                                       *)

(* A place of the tables that holds no port: its device, if any, is that of *)
(* a deleted ring.                                                          *)
Vacant(i) == /\ dev[i] \notin asked /\ (dev[i] = None \/ dev[i].type = "ring")
             /\ port_map[i] = None /\ port_id_list[i] = None /\ ~fwd[i].in

(* A place that holds the port of its device, which runs                    *)
Holds(i) == /\ dev[i] \in asked /\ i \notin stopped /\ fwd[i].in
            /\ port_map[i] = dev[i] /\ port_id_list[i] = dev[i]

(* The three tables are in step: index and ethdev id are the same, ...      *)
Lean == /\ \A i \in Devs : Vacant(i) \/ Holds(i)
        /\ \A i, j \in Devs : dev[i] = dev[j] => i = j \/ dev[i] = None
        /\ \A u \in asked : \E i \in Devs : dev[i] = u
        /\ \A u \in asked : u \in AnyUid /\ u.id # Reset /\ u.type # "UNDEF"

(* ... and every patch that was accepted leads from port to port.           *)
Held == /\ \A i \in Devs : Patched(i) => /\ dev[i] \in DOMAIN patches
                                         /\ patches[dev[i]] = dev[fwd[i].out]
                                         /\ dev[fwd[i].out] \in asked
        /\ \A s \in DOMAIN patches : \E i \in Devs : dev[i] = s /\ Patched(i)

TablesInv == Shape /\ (~odd => Lean) /\ (~odd /\ ~cut => Held)

(* What the invariant says of the status                                    *)
LEMMA PortsShown == ASSUME TablesInv PROVE PortsAsAsked
<1> SUFFICES ASSUME ~odd
             PROVE  /\ append_port_info_json =
                         {<<i, dev[i]>> : i \in Attached} \ (Devs \X Closed)
                    /\ \A u \in asked : /\ Cardinality(At(dev, u)) = 1
                                        /\ At(dev, u) = At(port_map, u)
                                        /\ At(dev, u) = At(port_id_list, u)
                                        /\ At(dev, u) \cap stopped = {}
                    /\ \A u \in Closed : u.type = "ring"
                    /\ \A q \in pipes_json : Uid("pipe", q[1]) \in asked
  BY Zenon DEF PortsAsAsked
<1>1. /\ \A i \in Devs : Vacant(i) \/ Holds(i)
      /\ \A i, j \in Devs : dev[i] = dev[j] => i = j \/ dev[i] = None
      /\ \A u \in asked : \E i \in Devs : dev[i] = u
      /\ \A u \in asked : u \in AnyUid /\ u.id # Reset /\ u.type # "UNDEF"
  BY Zenon DEF TablesInv, Lean
<1>2. None.id = Reset /\ None.type = "UNDEF" BY DEF None, Uid
<1>3. None \notin asked BY Zenon, <1>1, <1>2
<1>4. \A i \in Devs : fwd[i].in <=> Holds(i) BY Zenon, <1>1 DEF Holds, Vacant
<1>5. \A i \in Devs : Holds(i) <=> dev[i] \in asked BY Zenon, <1>1 DEF Holds, Vacant
<1>6. \A u \in Closed : u.type = "ring"
  <2> SUFFICES ASSUME NEW i \in Attached, dev[i] \notin asked PROVE dev[i].type = "ring"
    BY Zenon DEF Closed
  <2>1. i \in Devs /\ dev[i] # None BY Zenon DEF Attached
  <2> QED BY Zenon, <1>1, <2>1 DEF Holds, Vacant
<1>7. \A q \in pipes_json : Uid("pipe", q[1]) \in asked
  <2> SUFFICES ASSUME NEW i \in Devs, port_id_list[i].type = "pipe"
               PROVE  Uid("pipe", port_id_list[i].id) \in asked
    BY DEF pipes_json
  <2>1. port_id_list[i] # None BY Zenon, <1>2
  <2>2. port_id_list[i] \in asked BY Zenon, <1>1, <2>1 DEF Holds, Vacant
  <2>3. PICK v \in AnyUid : v = port_id_list[i] BY Zenon, <1>1, <2>2
  <2>4. v = Uid("pipe", v.id) BY <2>3 DEF AnyUid, Uid
  <2> QED BY Zenon, <2>2, <2>3, <2>4
<1>8. ASSUME NEW u \in asked
      PROVE  /\ Cardinality(At(dev, u)) = 1
             /\ At(dev, u) = At(port_map, u)
             /\ At(dev, u) = At(port_id_list, u)
             /\ At(dev, u) \cap stopped = {}
  <2>1. PICK i \in Devs : dev[i] = u BY Zenon, <1>1
  <2>2. u # None BY Zenon, <1>3
  <2>3. At(dev, u) = {i} BY Zenon, <1>1, <2>1, <2>2 DEF At
  <2>4. Cardinality({i}) = 1 BY FS_Singleton
  <2>5. Holds(i) BY Zenon, <1>5, <2>1
  <2>6. \A j \in Devs : j # i => dev[j] # u BY Zenon, <1>1, <2>1, <2>2
  <2>7. \A j \in Devs : j # i => port_map[j] # u /\ port_id_list[j] # u
    <3> SUFFICES ASSUME NEW j \in Devs, j # i PROVE port_map[j] # u /\ port_id_list[j] # u
      BY Zenon
    <3>1. dev[j] # u BY Zenon, <2>6
    <3>2. CASE Vacant(j) BY Zenon, <2>2, <3>2 DEF Vacant
    <3>3. CASE Holds(j) BY Zenon, <3>1, <3>3 DEF Holds
    <3> QED BY Zenon, <1>1, <3>2, <3>3
  <2>8. At(port_map, u) = {i} /\ At(port_id_list, u) = {i}
    <3>1. port_map[i] = u /\ port_id_list[i] = u BY Zenon, <2>1, <2>5 DEF Holds
    <3>2. ASSUME NEW t, t[i] = u, \A j \in Devs : j # i => t[j] # u
          PROVE  At(t, u) = {i}
      BY Zenon, <3>2 DEF At
    <3> QED BY Zenon, <2>7, <3>1, <3>2
  <2> QED BY Zenon, <2>3, <2>4, <2>5, <2>8 DEF Holds
<1>9. append_port_info_json = {<<i, dev[i]>> : i \in Attached} \ (Devs \X Closed)
  <2>1. append_port_info_json = {<<i, dev[i]>> : i \in {j \in Devs : dev[j] \in asked}}
    <3>1. \A i \in Devs : dev[i] \in asked => port_map[i] = dev[i] BY Zenon, <1>5 DEF Holds
    <3>2. {j \in Devs : fwd[j].in} = {j \in Devs : dev[j] \in asked} BY Zenon, <1>4, <1>5
    <3> QED BY <3>1, <3>2 DEF append_port_info_json
  <2>2. \A i \in Devs : (dev[i] \in asked) <=> (i \in Attached /\ dev[i] \notin Closed)
    BY Zenon, <1>3 DEF Attached, Closed
  <2>3. Attached \subseteq Devs BY DEF Attached
  <2> QED BY <2>1, <2>2, <2>3
<1> QED BY Zenon, <1>6, <1>7, <1>8, <1>9

LEMMA PatchesShown == ASSUME TablesInv PROVE PatchesAsAccepted
<1> SUFFICES ASSUME ~odd, ~cut
             PROVE  append_patch_info_json = {<<s, patches[s]>> : s \in DOMAIN patches}
  BY Zenon DEF PatchesAsAccepted
<1>1. /\ \A i \in Devs : Vacant(i) \/ Holds(i)
      /\ \A i \in Devs : Patched(i) => /\ dev[i] \in DOMAIN patches
                                       /\ patches[dev[i]] = dev[fwd[i].out]
                                       /\ dev[fwd[i].out] \in asked
      /\ \A s \in DOMAIN patches : \E i \in Devs : dev[i] = s /\ Patched(i)
  BY Zenon DEF TablesInv, Lean, Held
<1>2. ASSUME NEW i \in Devs, Patched(i)
      PROVE  <<port_map[i], port_map[fwd[i].out]>> = <<dev[i], patches[dev[i]]>>
  <2>1. fwd[i] \in FwdEntry /\ fwd[i].in /\ fwd[i].out # Reset
    BY <1>2 DEF Patched, TablesInv, Shape, TypeOK
  <2>2. fwd[i].out \in Devs BY <2>1 DEF FwdEntry
  <2>3. port_map[i] = dev[i] BY Zenon, <1>1, <2>1 DEF Holds, Vacant
  <2>4. port_map[fwd[i].out] = dev[fwd[i].out] BY Zenon, <1>1, <1>2, <2>2 DEF Holds, Vacant
  <2> QED BY Zenon, <1>1, <1>2, <2>3, <2>4
<1>3. append_patch_info_json = {<<dev[i], patches[dev[i]]>> : i \in {j \in Devs : Patched(j)}}
  BY <1>2 DEF append_patch_info_json
<1> QED BY <1>1, <1>3

LEMMA PortStart == ASSUME Init PROVE TablesInv
<1>1. /\ dev = [i \in Devs |-> IF i < NPhy THEN Uid("phy", i) ELSE None]
      /\ port_id_list = dev /\ port_map = dev
      /\ fwd = [i \in Devs |-> [in |-> i < NPhy, out |-> Reset]]
      /\ stopped = {} /\ asked = Phys /\ patches = [u \in {} |-> u]
  BY Zenon DEF Init
<1>2. Shape BY ShapeInit
<1>3. \A i \in Devs : /\ i < NPhy => dev[i] = Uid("phy", i)
                      /\ ~(i < NPhy) => dev[i] = None
  BY Zenon, <1>1
<1>4. \A i \in Devs : fwd[i].in = (i < NPhy) /\ fwd[i].out = Reset BY <1>1
<1>5. \A i \in Devs : i < NPhy => Uid("phy", i) \in asked
  <2>1. \A i \in Devs : i < NPhy => i \in 0 .. NPhy - 1 BY PrimaryAssumption DEF Devs
  <2> QED BY Zenon, <1>1, <2>1 DEF Phys
<1>6. \A u \in asked : \E i \in Devs : dev[i] = u /\ u = Uid("phy", i)
  <2>1. \A i \in 0 .. NPhy - 1 : i \in Devs /\ i < NPhy BY PrimaryAssumption DEF Devs
  <2> QED BY Zenon, <1>1, <1>3, <2>1 DEF Phys
<1>7. \A u \in asked : u \in AnyUid /\ u.id # Reset /\ u.type # "UNDEF"
  <2>1. \A i \in Devs : Uid("phy", i).id = i /\ Uid("phy", i).type = "phy" BY DEF Uid
  <2>2. \A u \in asked : u \in AnyUid BY <1>2, <1>6 DEF Shape, TypeOK
  <2>3. Reset \notin Devs /\ "phy" # "UNDEF" BY ZeroDev
  <2> SUFFICES ASSUME NEW u \in asked PROVE u.id # Reset /\ u.type # "UNDEF" BY Zenon, <2>2
  <2>4. PICK i \in Devs : u = Uid("phy", i) BY Zenon, <1>6
  <2>5. u.id = i /\ u.type = "phy" BY Zenon, <2>1, <2>4
  <2> QED BY <2>3, <2>5
<1>8. None \notin asked
  <2>1. None.id = Reset BY DEF None, Uid
  <2> QED BY Zenon, <1>7, <2>1
<1>9. \A i \in Devs : Vacant(i) \/ Holds(i)
  <2> SUFFICES ASSUME NEW i \in Devs PROVE Vacant(i) \/ Holds(i) BY Zenon
  <2>1. CASE i < NPhy
    <3>1. Holds(i) BY Zenon, <1>1, <1>3, <1>4, <1>5, <2>1 DEF Holds
    <3> QED BY Zenon, <3>1
  <2>2. CASE ~(i < NPhy)
    <3>1. Vacant(i) BY Zenon, <1>1, <1>3, <1>4, <1>8, <2>2 DEF Vacant
    <3> QED BY Zenon, <3>1
  <2> QED BY Zenon, <2>1, <2>2
<1>10. \A i, j \in Devs : dev[i] = dev[j] => i = j \/ dev[i] = None
  <2>1. \A i \in Devs : Uid("phy", i).id = i BY DEF Uid
  <2> SUFFICES ASSUME NEW i \in Devs, NEW j \in Devs, dev[i] = dev[j], dev[i] # None
               PROVE  i = j
    BY Zenon
  <2>2. dev[i] = Uid("phy", i) /\ dev[j] = Uid("phy", j) BY Zenon, <1>3
  <2>3. Uid("phy", i).id = Uid("phy", j).id BY Zenon, <2>2
  <2> QED BY Zenon, <2>1, <2>3
<1>11. Lean BY Zenon, <1>6, <1>7, <1>9, <1>10 DEF Lean
<1>12. Held
  <2>1. DOMAIN patches = {} BY Zenon, <1>1
  <2>2. \A i \in Devs : ~Patched(i) BY Zenon, <1>4 DEF Patched
  <2> QED BY Zenon, <2>1, <2>2 DEF Held
<1> QED BY Zenon, <1>2, <1>11, <1>12 DEF TablesInv

(* Tables that are left alone                                               *)
LEMMA SamePorts ==
  ASSUME TablesInv, UNCHANGED <<port_map, fwd, stopped, asked, dev, port_id_list,
                              patches, odd, cut>>
  PROVE  TablesInv'
<1>1. Shape' BY Zenon DEF TablesInv, Shape, TypeOK
<1>2. \A i \in Devs : /\ Vacant(i)' <=> Vacant(i)
                      /\ Holds(i)' <=> Holds(i)
                      /\ Patched(i)' <=> Patched(i)
  BY DEF Vacant, Holds, Patched
<1>3. Lean' <=> Lean BY <1>2 DEF Lean
<1>4. Held' <=> Held BY <1>2 DEF Held
<1> QED BY Zenon, <1>1, <1>3, <1>4 DEF TablesInv

(* An add that is no slip takes the first free place in all tables.         *)
LEMMA AddPorts ==
  ASSUME TablesInv, NEW u \in Uids, NEW q, add_port(u, q)
  PROVE  TablesInv'
<1>0. Shape /\ Shape' BY Zenon, AddShape DEF TablesInv
<1>1. patches' = patches /\ cut' = cut BY Zenon, AddDoes
<1>2. CASE odd' BY Zenon, <1>0, <1>2 DEF TablesInv
<1>3. CASE ~odd' /\ UNCHANGED <<port_map, fwd, stopped, asked, dev, port_id_list, odd>>
  BY Zenon, <1>1, <1>3, SamePorts
<1>4. CASE /\ ~odd' /\ u.type \in Added \cup {"pipe"}
           /\ \E i \in DevSlots(u) : Enters(u, i)
  <2>1. PICK i \in DevSlots(u) : Enters(u, i) BY Zenon, <1>4
  <2>2. ~odd /\ Closed = {} /\ u \notin asked BY Zenon, <1>4, <2>1 DEF Enters, Slips
  <2>3. /\ \A j \in Devs : Vacant(j) \/ Holds(j)
        /\ \A j, k \in Devs : dev[j] = dev[k] => j = k \/ dev[j] = None
        /\ \A v \in asked : \E j \in Devs : dev[j] = v
        /\ \A v \in asked : v \in AnyUid /\ v.id # Reset /\ v.type # "UNDEF"
    BY Zenon, <2>2 DEF TablesInv, Lean
  <2>4. \A j \in Devs : dev[j] = None \/ Holds(j)
    <3>1. \A j \in Devs : dev[j] = None \/ dev[j] \in asked BY Zenon, <2>2 DEF Closed, Attached
    <3> QED BY Zenon, <2>3, <3>1 DEF Vacant
  <2>5. None.id = Reset BY DEF None, Uid
  <2>6. None \notin asked BY Zenon, <2>3, <2>5
  <2>7. u \in AnyUid /\ u # None /\ u.id # Reset BY Zenon, UidIs
  <2>8. u.type # "UNDEF" BY <1>4 DEF Added
  <2>9. \A j \in Devs : dev[j] # u BY Zenon, <2>2, <2>4, <2>7 DEF Holds
  <2>10. Devs \ Attached = {j \in Devs : dev[j] = None} BY Zenon DEF Attached
  <2>11. Devs \ Attached = {j \in Devs : port_id_list[j].id = Reset}
    <3>1. ASSUME NEW j \in Devs PROVE (dev[j] = None) <=> (port_id_list[j].id = Reset)
      <4>1. CASE dev[j] = None
        <5>1. ~Holds(j) BY Zenon, <2>6, <4>1 DEF Holds
        <5> QED BY Zenon, <2>3, <2>5, <4>1, <5>1 DEF Vacant
      <4>2. CASE dev[j] # None BY Zenon, <2>3, <2>4, <4>2 DEF Holds
      <4> QED BY Zenon, <4>1, <4>2
    <3> QED BY Zenon, <2>10, <3>1
  <2>12. Devs \ Attached # {} /\ i = Min(Devs \ Attached)
    <3>1. {j \in Devs : dev[j] = u} = {} BY Zenon, <2>9
    <3> QED BY <2>1, <3>1 DEF DevSlots
  <2>13. FreeIndex = i BY Zenon, <2>11, <2>12 DEF FreeIndex
  <2>14. i \in Devs /\ dev[i] = None
    <3>1. Min(Devs \ Attached) \in Devs \ Attached BY <2>12, LeastIn
    <3> QED BY Zenon, <2>10, <2>12, <3>1
  <2>15. Vacant(i) BY Zenon, <2>3, <2>6, <2>14 DEF Holds
  <2>16. /\ dev' = [dev EXCEPT ![i] = u] /\ stopped' = stopped \ {i}
         /\ port_map' = [port_map EXCEPT ![i] = u] /\ fwd' = [fwd EXCEPT ![i].in = TRUE]
         /\ port_id_list' = [j \in Devs |-> IF j = i THEN u ELSE port_id_list[j]]
         /\ asked' = asked \cup {u}
    BY Zenon, <2>1, <2>13 DEF Enters, Mapped
  <2>17. /\ dev \in [Devs -> AnyUid] /\ port_map \in [Devs -> AnyUid]
         /\ fwd \in [Devs -> FwdEntry] /\ fwd[i].out = Reset
    BY Zenon, <1>0, <2>14, <2>15 DEF Shape, TypeOK, Vacant
  <2>18. /\ dev'[i] = u /\ port_map'[i] = u /\ port_id_list'[i] = u
         /\ \A j \in Devs \ {i} : /\ dev'[j] = dev[j] /\ port_map'[j] = port_map[j]
                                  /\ port_id_list'[j] = port_id_list[j]
    BY Zenon, <2>14, <2>16, <2>17
  <2>19. fwd'[i].in /\ fwd'[i].out = Reset /\ \A j \in Devs \ {i} : fwd'[j] = fwd[j]
    BY <2>14, <2>16, <2>17, InUse
  <2>20. Holds(i)'
    <3>1. u \in asked' /\ i \notin stopped' BY Zenon, <2>16
    <3> QED BY Zenon, <2>18, <2>19, <3>1 DEF Holds
  <2>21. \A j \in Devs : (Vacant(j) \/ Holds(j))'
    <3> SUFFICES ASSUME NEW j \in Devs, j # i PROVE (Vacant(j) \/ Holds(j))' BY Zenon, <2>20
    <3>1. j \in Devs \ {i} BY Zenon
    <3>2. /\ dev'[j] = dev[j] /\ port_map'[j] = port_map[j] /\ fwd'[j] = fwd[j]
          /\ port_id_list'[j] = port_id_list[j]
          /\ dev[j] \in asked' <=> dev[j] \in asked
          /\ j \in stopped => j # i /\ j \in stopped'
          /\ j \in stopped' => j \in stopped
      BY Zenon, <2>9, <2>16, <2>18, <2>19, <3>1
    <3>3. Vacant(j) => Vacant(j)' BY Zenon, <3>2 DEF Vacant
    <3>4. Holds(j) => Holds(j)' BY Zenon, <3>2 DEF Holds
    <3> QED BY Zenon, <2>3, <3>3, <3>4
  <2>22. \A j, k \in Devs : dev'[j] = dev'[k] => j = k \/ dev'[j] = None
    <3> SUFFICES ASSUME NEW j \in Devs, NEW k \in Devs, dev'[j] = dev'[k], j # k
                 PROVE  dev'[j] = None
      BY Zenon
    <3>1. j # i
      <4> SUFFICES ASSUME j = i PROVE FALSE BY Zenon
      <4>1. dev'[k] = dev[k] /\ dev'[j] = u BY Zenon, <2>18
      <4> QED BY Zenon, <2>9, <4>1
    <3>2. k # i
      <4> SUFFICES ASSUME k = i PROVE FALSE BY Zenon
      <4>1. dev'[j] = dev[j] /\ dev'[k] = u BY Zenon, <2>18
      <4> QED BY Zenon, <2>9, <4>1
    <3>3. dev'[j] = dev[j] /\ dev'[k] = dev[k] BY Zenon, <2>18, <3>1, <3>2
    <3> QED BY Zenon, <2>3, <3>3
  <2>23. \A v \in asked' : \E j \in Devs : dev'[j] = v
    <3>1. \A v \in asked : \E j \in Devs \ {i} : dev[j] = v BY Zenon, <2>3, <2>6, <2>14
    <3> QED BY Zenon, <2>14, <2>16, <2>18, <3>1
  <2>24. \A v \in asked' : v \in AnyUid /\ v.id # Reset /\ v.type # "UNDEF"
    BY Zenon, <2>3, <2>7, <2>8, <2>16
  <2>25. Lean' BY Zenon, <2>21, <2>22, <2>23, <2>24 DEF Lean
  <2>26. ~cut' => Held'
    <3> SUFFICES ASSUME ~cut' PROVE Held' BY Zenon
    <3>1. Held BY Zenon, <1>1, <2>2 DEF TablesInv
    <3>2. ~Patched(i) /\ ~Patched(i)' BY Zenon, <2>17, <2>19 DEF Patched
    <3>3. \A j \in Devs : Patched(j)' <=> Patched(j) BY Zenon, <2>19, <3>2 DEF Patched
    <3>4. ASSUME NEW j \in Devs, Patched(j)
          PROVE  /\ dev'[j] = dev[j] /\ fwd'[j] = fwd[j] /\ fwd[j].out \in Devs
                 /\ dev[fwd[j].out] \in asked /\ dev'[fwd[j].out] = dev[fwd[j].out]
      <4>1. j \in Devs \ {i} BY Zenon, <3>2, <3>4
      <4>2. dev[fwd[j].out] \in asked BY Zenon, <3>1, <3>4 DEF Held
      <4>3. fwd[j].out \in Devs BY <2>17, <3>4 DEF FwdEntry, Patched
      <4>4. fwd[j].out # i BY Zenon, <2>6, <2>14, <4>2
      <4> QED BY Zenon, <2>18, <2>19, <4>1, <4>2, <4>3, <4>4
    <3>5. ASSUME NEW j \in Devs, Patched(j)'
          PROVE  /\ dev'[j] \in DOMAIN patches' /\ dev'[fwd'[j].out] \in asked'
                 /\ patches'[dev'[j]] = dev'[fwd'[j].out]
      <4>1. Patched(j) BY Zenon, <3>3, <3>5
      <4>2. /\ dev[j] \in DOMAIN patches /\ patches[dev[j]] = dev[fwd[j].out]
            /\ dev[fwd[j].out] \in asked
        BY Zenon, <3>1, <4>1 DEF Held
      <4>3. dev'[j] = dev[j] /\ dev'[fwd'[j].out] = dev[fwd[j].out] BY Zenon, <3>4, <4>1
      <4> QED BY <1>1, <2>16, <4>2, <4>3
    <3>6. ASSUME NEW s \in DOMAIN patches' PROVE \E j \in Devs : dev'[j] = s /\ Patched(j)'
      <4>1. PICK j \in Devs : dev[j] = s /\ Patched(j) BY <1>1, <3>1 DEF Held
      <4> QED BY Zenon, <3>3, <3>4, <4>1
    <3> QED BY Zenon, <3>5, <3>6 DEF Held
  <2> QED BY Zenon, <1>0, <2>25, <2>26 DEF TablesInv
<1> QED BY Zenon, <1>2, <1>3, <1>4, AddDoes

(* The place that a search finds is one that holds what is looked for.      *)
LEMMA FoundAt ==
  ASSUME NEW u
  PROVE  /\ find_ethdev_id(u) # Reset => /\ find_ethdev_id(u) \in Devs
                                         /\ port_id_list[find_ethdev_id(u)] = u
         /\ find_port_id(u) # Reset =>
              /\ find_port_id(u) \in Devs
              /\ port_map[find_port_id(u)] =
                   Uid(IF u.type = "pipe" THEN "UNDEF" ELSE u.type, u.id)
<1> DEFINE v == Uid(IF u.type = "pipe" THEN "UNDEF" ELSE u.type, u.id)
           E == {i \in Devs : port_id_list[i] = u}
           P == {i \in Devs : port_map[i] = v}
<1>1. E # {} => Min(E) \in E BY LeastIn
<1>2. P # {} => Min(P) \in P BY LeastIn
<1>3. find_ethdev_id(u) = IF E = {} THEN Reset ELSE Min(E) BY Zenon DEF find_ethdev_id
<1>4. find_port_id(u) = IF P = {} THEN Reset ELSE Min(P) BY Zenon DEF find_port_id
<1>5. find_ethdev_id(u) # Reset => find_ethdev_id(u) \in E
  <2> HIDE DEF E
  <2> QED BY Zenon, <1>1, <1>3
<1>6. find_port_id(u) # Reset => find_port_id(u) \in P
  <2> HIDE DEF P
  <2> QED BY Zenon, <1>2, <1>4
<1> QED BY Zenon, <1>5, <1>6

(* A del of a port that an add gave finds it at the id of its device.       *)
LEMMA DelPorts ==
  ASSUME TablesInv, NEW u \in Uids, del_port(u)
  PROVE  TablesInv'
<1>0. Shape /\ Shape' BY Zenon, DelShape DEF TablesInv
<1>1. CASE odd' BY Zenon, <1>0, <1>1 DEF TablesInv
<1>2. CASE UNCHANGED <<tables, flows, promises>>
  BY Zenon, <1>2, SamePorts DEF tables, promises
<1>3. CASE u.type \in {"phy", "tap"} /\ Leaves(u, 0)
  BY Zenon, <1>1, <1>3 DEF Leaves
<1>4. CASE /\ ~odd' /\ find_ethdev_id(u) # Reset /\ Leaves(u, find_ethdev_id(u))
           /\ DetachOrClose(u, find_ethdev_id(u)) /\ u.type \notin {"phy", "tap"}
  <2>1. PICK i : i = find_ethdev_id(u) BY Zenon
  <2>2. i \in Devs /\ port_id_list[i] = u BY Zenon, <1>4, <2>1, FoundAt
  <2>3. Leaves(u, i) /\ DetachOrClose(u, i) /\ ~odd BY Zenon, <1>4, <2>1 DEF Leaves
  <2>4. /\ \A j \in Devs : Vacant(j) \/ Holds(j)
        /\ \A j, k \in Devs : dev[j] = dev[k] => j = k \/ dev[j] = None
        /\ \A v \in asked : \E j \in Devs : dev[j] = v
        /\ \A v \in asked : v \in AnyUid /\ v.id # Reset /\ v.type # "UNDEF"
    BY Zenon, <2>3 DEF TablesInv, Lean
  <2>5. u \in AnyUid /\ u # None /\ u.id # Reset BY Zenon, UidIs
  <2>6. Holds(i) /\ dev[i] = u BY Zenon, <2>2, <2>4, <2>5 DEF Holds, Vacant
  <2>7. \A j \in Devs \ {i} : dev[j] # u BY Zenon, <2>2, <2>4, <2>5, <2>6
  <2>8. /\ dev \in [Devs -> AnyUid] /\ port_map \in [Devs -> AnyUid]
        /\ port_id_list \in [Devs -> AnyUid] /\ fwd \in [Devs -> FwdEntry]
    BY Zenon, <1>0 DEF Shape, TypeOK
  <2>9. /\ port_id_list' = [port_id_list EXCEPT ![i] = None]
        /\ port_map' = [port_map EXCEPT ![i] = None]
        /\ fwd' = forward_array_remove(i) /\ asked' = asked \ {u}
    BY Zenon, <2>3 DEF Leaves, Forgotten
  <2>10. /\ port_id_list'[i] = None /\ port_map'[i] = None
         /\ \A j \in Devs \ {i} : /\ port_id_list'[j] = port_id_list[j]
                                  /\ port_map'[j] = port_map[j]
    BY Zenon, <2>2, <2>8, <2>9
  <2>11. /\ ~fwd'[i].in /\ fwd'[i].out = Reset
         /\ \A j \in Devs \ {i} : fwd'[j].in = fwd[j].in /\ fwd'[j].out \in {fwd[j].out, Reset}
    BY Zenon, <2>2, <2>8, <2>9, RemoveIs
  <2>12. /\ dev'[i] = None \/ (dev'[i] = u /\ u.type = "ring")
         /\ \A j \in Devs \ {i} : dev'[j] = dev[j]
         /\ \A j \in Devs \ {i} : j \in stopped' => j \in stopped
    <3>1. i \in Attached BY Zenon, <2>2, <2>5, <2>6 DEF Attached
    <3>2. CASE u.type = "ring"
      <4>1. dev' = dev /\ stopped' = stopped \cup (Attached \cap {i})
        BY Zenon, <2>3, <3>2 DEF DetachOrClose
      <4> QED BY Zenon, <2>6, <3>2, <4>1
    <3>3. CASE u.type # "ring"
      <4>1. dev' = [dev EXCEPT ![i] = None] /\ stopped' = stopped \ {i}
        BY Zenon, <1>4, <2>3, <3>1, <3>3 DEF DetachOrClose
      <4> QED BY Zenon, <2>2, <2>8, <4>1
    <3> QED BY <3>2, <3>3
  <2>13. None \notin asked
    <3>1. None.id = Reset BY DEF None, Uid
    <3> QED BY Zenon, <2>4, <3>1
  <2>14. Vacant(i)'
    <3>1. dev'[i] \notin asked' BY Zenon, <2>9, <2>12, <2>13
    <3> QED BY Zenon, <2>10, <2>11, <2>12, <3>1 DEF Vacant
  <2>15. \A j \in Devs : (Vacant(j) \/ Holds(j))'
    <3> SUFFICES ASSUME NEW j \in Devs, j # i PROVE (Vacant(j) \/ Holds(j))' BY Zenon, <2>14
    <3>1. /\ dev'[j] = dev[j] /\ port_map'[j] = port_map[j] /\ fwd'[j].in = fwd[j].in
          /\ port_id_list'[j] = port_id_list[j]
          /\ dev[j] \in asked' <=> dev[j] \in asked
          /\ j \in stopped' => j \in stopped
      BY Zenon, <2>7, <2>9, <2>10, <2>11, <2>12
    <3>2. Vacant(j) => Vacant(j)' BY Zenon, <3>1 DEF Vacant
    <3>3. Holds(j) => Holds(j)' BY Zenon, <3>1 DEF Holds
    <3> QED BY Zenon, <2>4, <3>2, <3>3
  <2>16. \A j, k \in Devs : dev'[j] = dev'[k] => j = k \/ dev'[j] = None
    <3>1. \A j \in Devs : dev'[j] \in {dev[j], None} BY Zenon, <2>6, <2>12
    <3> QED BY Zenon, <2>4, <3>1
  <2>17. \A v \in asked' : \E j \in Devs : dev'[j] = v
    <3> SUFFICES ASSUME NEW v \in asked, v # u PROVE \E j \in Devs : dev'[j] = v
      BY Zenon, <2>9
    <3>1. PICK j \in Devs : dev[j] = v BY Zenon, <2>4
    <3>2. j # i BY Zenon, <2>6, <3>1
    <3> QED BY Zenon, <2>12, <3>1, <3>2
  <2>18. \A v \in asked' : v \in AnyUid /\ v.id # Reset /\ v.type # "UNDEF"
    BY Zenon, <2>4, <2>9
  <2>19. Lean' BY Zenon, <2>15, <2>16, <2>17, <2>18 DEF Lean
  <2>20. ~cut' => Held'
    <3> SUFFICES ASSUME ~cut' PROVE Held' BY Zenon
    <3>1. /\ ~cut /\ \A j \in Devs : ~Patched(j)
          /\ patches' = Restrict(patches, {s \in DOMAIN patches : u \notin {s, patches[s]}})
      BY Zenon, <2>3 DEF Leaves
    <3>2. DOMAIN patches = {} BY Zenon, <2>3, <3>1 DEF TablesInv, Held
    <3>3. DOMAIN patches' = {} BY <3>1, <3>2 DEF Restrict
    <3>4. \A j \in Devs : ~Patched(j)' BY Zenon, <2>11, <3>1 DEF Patched
    <3> QED BY Zenon, <3>3, <3>4 DEF Held
  <2> QED BY Zenon, <1>0, <2>19, <2>20 DEF TablesInv
<1> QED BY Zenon, <1>1, <1>2, <1>3, <1>4, DelDoes

(* A patch that is accepted is between the ports it names.                  *)
LEMMA PatchPorts ==
  ASSUME TablesInv, NEW s \in Uids, NEW d \in Uids, Patch(s, d)
  PROVE  TablesInv'
<1>0. Shape /\ Shape' BY Zenon, PatchShape DEF TablesInv
<1>1. UNCHANGED <<dev, port_map, port_id_list, stopped, asked, odd, cut>> BY Zenon DEF Patch
<1>2. PICK i, o : i = find_port_id(s) /\ o = find_port_id(d) BY Zenon
<1>3. CASE odd BY Zenon, <1>0, <1>1, <1>3 DEF TablesInv
<1>4. CASE Reset \in {i, o}
  <2>1. fwd' = fwd /\ patches' = patches BY Zenon, <1>2, <1>4 DEF Patch
  <2> QED BY Zenon, <1>1, <2>1, SamePorts
<1>5. CASE ~odd /\ Reset \notin {i, o}
  <2>1. /\ fwd' = add_patch(i, o)
        /\ patches' = [u \in DOMAIN patches \cup {s} |-> IF u = s THEN d ELSE patches[u]]
    BY Zenon, <1>2, <1>5 DEF Patch
  <2>2. /\ \A j \in Devs : Vacant(j) \/ Holds(j)
        /\ \A j, k \in Devs : dev[j] = dev[k] => j = k \/ dev[j] = None
        /\ \A v \in asked : v \in AnyUid /\ v.id # Reset /\ v.type # "UNDEF"
    BY Zenon, <1>5 DEF TablesInv, Lean
  <2>3. ASSUME NEW u \in Uids, NEW k, k = find_port_id(u), k # Reset
        PROVE  k \in Devs /\ dev[k] = u /\ Holds(k)
    <3>1. PICK v : v = Uid(IF u.type = "pipe" THEN "UNDEF" ELSE u.type, u.id) BY Zenon
    <3>2. k \in Devs /\ port_map[k] = v BY Zenon, <2>3, <3>1, FoundAt
    <3>3. u \in AnyUid /\ u.id # Reset BY Zenon, UidIs
    <3>4. v.id = u.id /\ v.type = IF u.type = "pipe" THEN "UNDEF" ELSE u.type BY <3>1 DEF Uid
    <3>5. v # None BY <3>3, <3>4 DEF None, Uid
    <3>6. Holds(k) /\ dev[k] = v BY Zenon, <2>2, <3>2, <3>5 DEF Holds, Vacant
    <3>7. v.type # "UNDEF" BY Zenon, <2>2, <3>6 DEF Holds
    <3>8. u.type # "pipe" /\ v = Uid(u.type, u.id) BY Zenon, <3>1, <3>4, <3>7
    <3>9. u = Uid(u.type, u.id) BY <3>3 DEF AnyUid, Uid
    <3> QED BY Zenon, <3>2, <3>6, <3>8, <3>9
  <2>4. i \in Devs /\ dev[i] = s /\ Holds(i) BY Zenon, <1>2, <1>5, <2>3
  <2>5. o \in Devs /\ dev[o] = d /\ Holds(o) BY Zenon, <1>2, <1>5, <2>3
  <2>6. fwd \in [Devs -> FwdEntry] BY Zenon, <1>0 DEF Shape, TypeOK
  <2>7. /\ fwd'[i].in /\ fwd'[i].out = o /\ fwd'[o].in
        /\ o # i => fwd'[o].out = fwd[o].out
        /\ \A j \in Devs \ {i, o} : fwd'[j] = fwd[j]
    <3>1. /\ add_patch(i, o)[i].in /\ add_patch(i, o)[i].out = o
          /\ add_patch(i, o)[o].in
          /\ o # i => add_patch(i, o)[o].out = fwd[o].out
          /\ \A j \in Devs \ {i, o} : add_patch(i, o)[j] = fwd[j]
      BY <2>4, <2>5, <2>6, PatchIs
    <3> QED BY Zenon, <2>1, <3>1
  <2>8. \A j \in Devs : fwd'[j].in <=> fwd[j].in
    <3>1. fwd[i].in /\ fwd[o].in BY Zenon, <2>4, <2>5 DEF Holds
    <3> QED BY Zenon, <2>7, <3>1
  <2>9. \A j \in Devs \ {i} : fwd'[j].out = fwd[j].out BY Zenon, <2>5, <2>7
  <2>10. \A j \in Devs : (Vacant(j)' <=> Vacant(j)) /\ (Holds(j)' <=> Holds(j))
    BY <1>1, <2>8 DEF Vacant, Holds
  <2>11. Lean' <=> Lean BY <1>1, <2>10 DEF Lean
  <2>12. ~cut' => Held'
    <3> SUFFICES ASSUME ~cut' PROVE Held' BY Zenon
    <3>1. Held BY Zenon, <1>1, <1>5 DEF TablesInv
    <3>2. \A j \in Devs \ {i} : Patched(j)' <=> Patched(j) BY Zenon, <2>8, <2>9 DEF Patched
    <3>3. o # Reset /\ Patched(i)' BY Zenon, <1>5, <2>7 DEF Patched
    <3>4. /\ DOMAIN patches' = DOMAIN patches \cup {s} /\ patches'[s] = d
          /\ \A u \in DOMAIN patches \ {s} : patches'[u] = patches[u]
      BY Zenon, <2>1
    <3>5. d \in asked /\ s # None
      <4>1. d \in asked /\ s \in asked BY Zenon, <2>4, <2>5 DEF Holds
      <4>2. None.id = Reset BY DEF None, Uid
      <4> QED BY Zenon, <2>2, <4>1, <4>2
    <3>6. ASSUME NEW j \in Devs, Patched(j)'
          PROVE  /\ dev'[j] \in DOMAIN patches' /\ dev'[fwd'[j].out] \in asked'
                 /\ patches'[dev'[j]] = dev'[fwd'[j].out]
      <4>1. CASE j = i
        <5>1. dev'[j] = s /\ dev'[fwd'[j].out] = d /\ d \in asked'
          BY Zenon, <1>1, <2>4, <2>5, <2>7, <3>5, <4>1
        <5> QED BY Zenon, <3>4, <5>1
      <4>2. CASE j # i
        <5>1. Patched(j) /\ fwd'[j].out = fwd[j].out BY Zenon, <2>9, <3>2, <3>6, <4>2
        <5>2. /\ dev[j] \in DOMAIN patches /\ patches[dev[j]] = dev[fwd[j].out]
              /\ dev[fwd[j].out] \in asked
          BY Zenon, <3>1, <5>1 DEF Held
        <5>3. dev[j] # s BY Zenon, <2>2, <2>4, <3>5, <4>2
        <5>4. patches'[dev[j]] = patches[dev[j]] /\ dev[j] \in DOMAIN patches'
          BY Zenon, <3>4, <5>2, <5>3
        <5>5. dev' = dev /\ asked' = asked BY Zenon, <1>1
        <5> QED BY <5>1, <5>2, <5>4, <5>5
      <4> QED BY <4>1, <4>2
    <3>7. ASSUME NEW v \in DOMAIN patches' PROVE \E j \in Devs : dev'[j] = v /\ Patched(j)'
      <4>1. CASE v = s BY Zenon, <1>1, <2>4, <3>3, <4>1
      <4>2. CASE v # s
        <5>1. v \in DOMAIN patches BY Zenon, <3>4, <3>7, <4>2
        <5>2. PICK j \in Devs : dev[j] = v /\ Patched(j) BY Zenon, <3>1, <5>1 DEF Held
        <5>3. j # i BY Zenon, <2>4, <4>2, <5>2
        <5> QED BY Zenon, <1>1, <3>2, <5>2, <5>3
      <4> QED BY <4>1, <4>2
    <3> QED BY Zenon, <3>6, <3>7 DEF Held
  <2> QED BY Zenon, <1>0, <1>5, <2>11, <2>12 DEF TablesInv
<1> QED BY <1>3, <1>4, <1>5

(* "patch reset" makes good for a patch that a del took by mistake.         *)
LEMMA ResetPorts ==
  ASSUME TablesInv, forward_array_reset
  PROVE  TablesInv'
<1>0. Shape /\ Shape' BY Zenon, ResetShape DEF TablesInv
<1>1. /\ UNCHANGED <<dev, port_map, port_id_list, stopped, asked, odd>>
      /\ patches' = [u \in {} |-> u]
  BY Zenon DEF forward_array_reset
<1>2. \A j \in Devs : fwd'[j].in = fwd[j].in /\ (fwd'[j].in => fwd'[j].out = Reset)
  BY Zenon, <1>0, ResetIs DEF Shape, TypeOK
<1>3. \A j \in Devs : (Vacant(j)' <=> Vacant(j)) /\ (Holds(j)' <=> Holds(j))
  BY <1>1, <1>2 DEF Vacant, Holds
<1>4. Lean' <=> Lean BY <1>1, <1>3 DEF Lean
<1>5. Held'
  <2>1. DOMAIN patches' = {} BY Zenon, <1>1
  <2>2. \A j \in Devs : ~Patched(j)' BY Zenon, <1>2 DEF Patched
  <2> QED BY Zenon, <2>1, <2>2 DEF Held
<1> QED BY Zenon, <1>0, <1>1, <1>4, <1>5 DEF TablesInv

LEMMA PortNext == ASSUME TablesInv, [Next]_vars PROVE TablesInv'
<1>1. CASE Kept BY Zenon, <1>1, SamePorts DEF Kept
<1>2. CASE \E r \in Request : r.op = "flow" /\ FlowCommand(r)
  <2>1. UNCHANGED <<tables, promises>> BY Zenon, <1>2 DEF FlowCommand
  <2> QED BY Zenon, <2>1, SamePorts DEF tables, promises
<1> QED BY Zenon, <1>1, <1>2, Commands, AddPorts, DelPorts, PatchPorts, ResetPorts

LEMMA TablesInvAlways == Spec => []TablesInv
<1>1. Init => TablesInv BY PortStart
<1>2. TablesInv /\ [Next]_vars => TablesInv' BY PortNext
<1> QED BY <1>1, <1>2, PTL DEF Spec

(* For any ports, rings, devices and commands, until an add slips status    *)
(* lists the ports whose add was answered "succeeded" and that were not     *)
(* deleted since, each at the id of its device (add_port, del_port).        *)
THEOREM PortsAsAskedAlways == Spec => []PortsAsAsked
<1>1. TablesInv => PortsAsAsked BY PortsShown
<1> QED BY <1>1, TablesInvAlways, PTL

(* And until a port is deleted while there are patches, status lists the    *)
(* patches that were accepted (add_patch, forward_array_reset).             *)
THEOREM PatchesAsAcceptedAlways == Spec => []PatchesAsAccepted
<1>1. TablesInv => PatchesAsAccepted BY PatchesShown
<1> QED BY <1>1, TablesInvAlways, PTL
=============================================================================
