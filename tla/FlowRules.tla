----------------------------- MODULE FlowRules ------------------------------
(***************************************************************************)
(* src/primary/flow/flow.c: the flow rules of spp_primary.  port_list keeps *)
(* for every ethdev a list of the rules it created, the newest first, each  *)
(* with the handle rte_flow_create returned; the device keeps the rules     *)
(* themselves.  A device that is detached takes its rules with it, and the  *)
(* list stays.                                                              *)
(***************************************************************************)
EXTENDS Integers, Sequences

CONSTANTS Ports,       \* ethdev ids
          Handles,     \* what rte_flow_create returns
          Rules,       \* what a rule says
          MaxRuleId,   \* UINT32_MAX
          MayFail      \* "create", "destroy", "flush": devices that refuse

VARIABLES attached,    \* the ethdevs there are
          port_list,   \* per ethdev, the rules listed
          hw,          \* per ethdev, the rule behind each handle
          spoiled      \* ethdevs where a flush or a clean-up failed, or
                       \* that went while they had rules

flowvars == <<attached, port_list, hw, spoiled>>

Entry == [rule_id : Nat, handle : Handles, rule : Rules]
Nothing == [h \in {} |-> h]

FlowInit == /\ attached \in SUBSET Ports
            /\ port_list = [p \in Ports |-> <<>>]
            /\ hw = [p \in Ports |-> Nothing]
            /\ spoiled = {}

(* rte_flow_create: external *)
Installs(p, h, r) ==
  /\ p \in attached
  /\ h \notin DOMAIN hw[p]
  /\ hw' = [hw EXCEPT ![p] = [k \in DOMAIN hw[p] \cup {h} |->
                               IF k = h THEN r ELSE hw[p][k]]]

(* rte_flow_destroy and rte_flow_flush: external *)
Keeping(p, H) == [hw EXCEPT ![p] = [k \in DOMAIN hw[p] \cap H |-> hw[p][k]]]

-----------------------------------------------------------------------------
(* The id is one more than that of the newest rule. *)
NextId(p) == IF port_list[p] = <<>> THEN 0 ELSE Head(port_list[p]).rule_id + 1

(* exec_flow_create *)
Created(p, h, r) ==
  /\ NextId(p) <= MaxRuleId
  /\ Installs(p, h, r)
  /\ port_list' = [port_list EXCEPT ![p] =
                     <<[rule_id |-> NextId(p), handle |-> h, rule |-> r]>> \o @]
  /\ UNCHANGED <<attached, spoiled>>

(* No id is left, or the copy of the rule cannot be made: the flow is       *)
(* destroyed again, and whether that works is not looked at.                *)
CreateUndone(p, h, r) ==
  /\ NextId(p) > MaxRuleId \/ "create" \in MayFail
  /\ \/ p \in attached /\ h \notin DOMAIN hw[p] /\ UNCHANGED <<hw, spoiled>>
     \/ /\ "destroy" \in MayFail
        /\ Installs(p, h, r)
        /\ spoiled' = spoiled \cup {p}
  /\ UNCHANGED <<attached, port_list>>

(* rte_flow_create itself fails: the device refuses or is full, or there    *)
(* is none.                                                                 *)
CreateRefused(p) == /\ \/ p \notin attached
                       \/ "create" \in MayFail
                       \/ Handles \subseteq DOMAIN hw[p]
                    /\ UNCHANGED flowvars

exec_flow_create(p, h, r) == \/ Created(p, h, r)
                             \/ CreateUndone(p, h, r)
                             \/ CreateRefused(p)

-----------------------------------------------------------------------------
Without(s, i) == [j \in 1 .. Len(s) - 1 |-> IF j < i THEN s[j] ELSE s[j + 1]]

(* The entry the walk from the newest stops at *)
IsFirst(s, i, id) == /\ s[i].rule_id = id
                     /\ \A j \in 1 .. i - 1 : s[j].rule_id # id

Destroyed(p, id) ==
  /\ p \in attached
  /\ \E i \in 1 .. Len(port_list[p]) :
       /\ IsFirst(port_list[p], i, id)
       /\ hw' = Keeping(p, Handles \ {port_list[p][i].handle})
       /\ port_list' = [port_list EXCEPT ![p] = Without(@, i)]
  /\ UNCHANGED <<attached, spoiled>>

(* No such port, no such rule, or the device refuses: nothing changes. *)
DestroyRefused(p, id) ==
  /\ \/ p \notin attached
     \/ \A i \in 1 .. Len(port_list[p]) : port_list[p][i].rule_id # id
     \/ "destroy" \in MayFail \/ p \in spoiled
  /\ UNCHANGED flowvars

exec_flow_destroy(p, id) == Destroyed(p, id) \/ DestroyRefused(p, id)

(* Bug: the list is emptied and the device not asked. *)
FlushedMutListOnly(p) ==
  /\ p \in attached
  /\ port_list' = [port_list EXCEPT ![p] = <<>>]
  /\ UNCHANGED <<attached, hw, spoiled>>

Flushed(p) ==
  /\ p \in attached
  /\ hw' = Keeping(p, {})
  /\ port_list' = [port_list EXCEPT ![p] = <<>>]
  /\ UNCHANGED <<attached, spoiled>>

(* The list is emptied also when the device fails, which may keep rules. *)
FlushFailed(p) ==
  /\ p \in attached
  /\ "flush" \in MayFail
  /\ \E Kept \in SUBSET Handles : hw' = Keeping(p, Kept)
  /\ port_list' = [port_list EXCEPT ![p] = <<>>]
  /\ spoiled' = spoiled \cup {p}
  /\ UNCHANGED attached

FlushRefused(p) == p \notin attached /\ UNCHANGED flowvars

exec_flow_flush(p) == Flushed(p) \/ FlushFailed(p) \/ FlushRefused(p)

-----------------------------------------------------------------------------
(* What add and del of ports do to the devices *)
Attach(p) == /\ p \notin attached
             /\ attached' = attached \cup {p}
             /\ UNCHANGED <<port_list, hw, spoiled>>

Detach(p) == /\ p \in attached
             /\ attached' = attached \ {p}
             /\ hw' = Keeping(p, {})
             /\ spoiled' = IF port_list[p] = <<>> THEN spoiled
                                                  ELSE spoiled \cup {p}
             /\ UNCHANGED port_list

FlowNext == \E p \in Ports :
              \/ \E h \in Handles, r \in Rules : exec_flow_create(p, h, r)
              \/ \E id \in 0 .. MaxRuleId : exec_flow_destroy(p, id)
              \/ exec_flow_flush(p)
              \/ Attach(p)
              \/ Detach(p)

FlowSpec == FlowInit /\ [][FlowNext]_flowvars

-----------------------------------------------------------------------------
FlowTypeOK == /\ attached \in SUBSET Ports
              /\ port_list \in [Ports -> Seq(Entry)]
              /\ hw \in [Ports -> UNION {[H -> Rules] : H \in SUBSET Handles}]
              /\ spoiled \in SUBSET Ports

(* The ids of a port's rules fall from the newest to the oldest, so that    *)
(* "flow destroy" names one rule, whatever was created, destroyed and       *)
(* flushed before and although ids are used again.                          *)
RuleIdsFall ==
  \A p \in Ports : \A i, j \in DOMAIN port_list[p] :
    i < j => port_list[p][i].rule_id > port_list[p][j].rule_id

(* Unless a device failed to flush or to undo a creation, or was detached   *)
(* with rules, the rules status lists for a port are exactly those in the   *)
(* device, each under a handle of its own: no create that is refused half   *)
(* way leaves a rule behind, and no destroy takes another rule's handle.    *)
FlowListed ==
  \A p \in Ports \ spoiled :
    /\ \A i \in DOMAIN port_list[p] :
         /\ port_list[p][i].handle \in DOMAIN hw[p]
         /\ hw[p][port_list[p][i].handle] = port_list[p][i].rule
    /\ \A i, j \in DOMAIN port_list[p] :
         i # j => port_list[p][i].handle # port_list[p][j].handle
    /\ \A h \in DOMAIN hw[p] :
         \E i \in DOMAIN port_list[p] : port_list[p][i].handle = h
=============================================================================
