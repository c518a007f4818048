----------------------------- MODULE FlowParser -----------------------------
(***************************************************************************)
(* src/primary/flow: from the words of "flow create" and "flow validate" to *)
(* the attributes, items and actions given to rte_flow.  The parsers walk   *)
(* over token_list with an index and call one another; here each is one     *)
(* turn of its loop, from a state (the loop that is running, what has been  *)
(* parsed, the words that are left) to the next.  A parse ends "ok",        *)
(* "refused" or, where the code reads past a list or follows a null token,  *)
(* "undefined".                                                             *)
(* A value is the set of its bits in network order, bit 0 the last one.     *)
(***************************************************************************)
EXTENDS Integers, Sequences

CONSTANTS Number,      \* the words strtoul takes whole, with their values (below
                       \* 2^31: the casts to 32 bits change nothing)
          Mac          \* the words str_to_rte_ether_addr takes, with their bits

Bits(n, w) == {i \in 0 .. w - 1 : (n \div 2 ^ i) % 2 = 1}
Swapped(b) == {(i + 8) % 16 : i \in b}

State(loop, v, rest) == [status |-> loop, val |-> v, rest |-> rest]
Refused == [status |-> "refused"]
Undefined == [status |-> "undefined"]
IsOk(r) == r.status = "ok"

(* The word at hand, and those after the first n; "" stands for NULL. *)
Word(words) == IF words = <<>> THEN "" ELSE Head(words)
Skip(words, n) == SubSeq(words, n + 1, Len(words))

(* free_flow_args walks a list up to its "end": when the parse of a later   *)
(* member fails, a list that has begun has none.                            *)
Fails(done) == IF done > 0 THEN Undefined ELSE Refused

-----------------------------------------------------------------------------
NoAttr == [group |-> 0, priority |-> 0,
           ingress |-> 0, egress |-> 0, transfer |-> 0]

parse_flow_attr(s) ==
  LET w == Word(s.rest)
      arg == Word(Skip(s.rest, 1))
  IN CASE w \in {"group", "priority"} /\ arg \in DOMAIN Number ->
            State("attr", [s.val EXCEPT !.attr[w] = Number[arg]], Skip(s.rest, 2))
       [] w \in {"ingress", "egress", "transfer"} ->
            State("attr", [s.val EXCEPT !.attr[w] = 1], Skip(s.rest, 1))
       [] w = "pattern" -> State("pattern", s.val, Skip(s.rest, 1))
       [] OTHER -> Refused

-----------------------------------------------------------------------------
(* eth_ops_list, vlan_ops_list: four fields share the tci. *)

ItemFields == [eth |-> {"src", "dst", "type"},
               vlan |-> {"tci", "pcp", "dei", "vid", "inner_type"}]
Slot(f) == IF f \in {"pcp", "dei", "vid"} THEN "tci" ELSE f
ItemSlots(item) == {Slot(f) : f \in ItemFields[item]}
Width(slot) == IF slot \in {"src", "dst"} THEN 48 ELSE 16

(* Byte 0 of the tci holds bits 8 to 15. *)
set_pcp_in_tci(tci, n) == tci \cup {i + 9 : i \in Bits(n, 3)}
set_dei_in_tci(tci, n) == tci \cup {i + 8 : i \in Bits(n, 1)}
set_vid_in_tci(tci, n) == tci \cup Bits(n, 12)

(* parse_detail: a number is cast to the field's type before it is checked. *)
TooLarge(f, n) == CASE f = "pcp" -> n % 2 ^ 8 > 7
                    [] f = "dei" -> n % 2 ^ 8 > 1
                    [] f = "vid" -> n % 2 ^ 16 > 4095
                    [] OTHER -> FALSE
Takes(f, w) == IF f \in {"src", "dst"} THEN w \in DOMAIN Mac
               ELSE w \in DOMAIN Number /\ ~TooLarge(f, Number[w])
parse_detail(f, w, old) ==
  CASE f \in {"src", "dst"} -> Mac[w]
    [] f = "tci" -> Swapped(Bits(Number[w], 16))
    [] f = "pcp" -> set_pcp_in_tci(old, Number[w])
    [] f = "dei" -> set_dei_in_tci(old, Number[w])
    [] f = "vid" -> set_vid_in_tci(old, Number[w])
    [] OTHER -> Bits(Number[w], 16)

Kinds == {"is", "spec", "last", "mask", "prefix"}
Accepts(f, kind, w) ==
  IF kind = "prefix" THEN w \in DOMAIN Number /\ Number[w] <= Width(Slot(f))
                     ELSE kind \in Kinds /\ Takes(f, w)

Empty(item) == [s \in ItemSlots(item) |-> {}]
Null == [s \in {} |-> {}]

(* malloc_object when the part is set for the first time *)
With(part, item, s, bits) ==
  [(IF part = Null THEN Empty(item) ELSE part) EXCEPT ![s] = bits]
Old(part, s) == IF part = Null THEN {} ELSE part[s]
Set(part, item, f, w) ==
  With(part, item, Slot(f), parse_detail(f, w, Old(part, Slot(f))))
Prefix(part, item, f, w) ==
  With(part, item, Slot(f),
       {i \in 0 .. Width(Slot(f)) - 1 : i >= Width(Slot(f)) - Number[w]})

(* Bug: the mask of an exact match is left out. *)
parse_rte_flow_item_fieldMutNoMask(it, f, kind, w) ==
  CASE kind = "is" -> [it EXCEPT !.spec = Set(@, it.type, f, w)]
    [] kind = "prefix" -> [it EXCEPT !.mask = Prefix(@, it.type, f, w)]
    [] OTHER -> [it EXCEPT ![kind] = Set(@, it.type, f, w)]

parse_rte_flow_item_field(it, f, kind, w) ==
  CASE kind = "is" ->
         [it EXCEPT !.spec = Set(@, it.type, f, w),
                    !.mask = With(@, it.type, Slot(f), 0 .. Width(Slot(f)) - 1)]
    [] kind = "prefix" -> [it EXCEPT !.mask = Prefix(@, it.type, f, w)]
    [] OTHER -> [it EXCEPT ![kind] = Set(@, it.type, f, w)]

(* The item at hand is the last of the pattern. *)
parse_item_common(s) ==
  LET f == Word(s.rest)
      kind == Word(Skip(s.rest, 1))
      w == Word(Skip(s.rest, 2))
      n == Len(s.val.pattern)
      it == s.val.pattern[n]
  IN IF f \in {"", "/"} THEN State("pattern", s.val, Skip(s.rest, 1))
     ELSE IF f \notin ItemFields[it.type] THEN Fails(n - 1)
     ELSE IF kind = "" \/ (kind \in Kinds /\ w = "") THEN Undefined
     ELSE IF ~Accepts(f, kind, w) THEN Fails(n - 1)
     ELSE State("item",
                [s.val EXCEPT !.pattern[n] = parse_rte_flow_item_field(it, f, kind, w)],
                Skip(s.rest, 3))

parse_flow_pattern(s) ==
  LET w == Word(s.rest)
      new == [type |-> w, spec |-> Null, last |-> Null, mask |-> Null]
  IN CASE w = "end" -> State("actions", s.val, Skip(s.rest, 1))
       [] w = "" -> Undefined
       [] w \in DOMAIN ItemFields ->
            State("item", [s.val EXCEPT !.pattern = Append(@, new)], Skip(s.rest, 1))
       [] OTHER -> Fails(Len(s.val.pattern))

-----------------------------------------------------------------------------
(* parse_action_common and parse_flow_actions; of_pop_vlan has no parser: the *)
(* word after it is skipped unread.                                           *)

ActionFields == [jump |-> {"group"}, queue |-> {"index"}, of_pop_vlan |-> {},
                 of_push_vlan |-> {"ethertype"},
                 of_set_vlan_vid |-> {"vlan_vid"},
                 of_set_vlan_pcp |-> {"vlan_pcp"}]

Cast(f, n) == CASE f = "group" -> n
                [] f = "vlan_pcp" -> n % 2 ^ 8
                [] OTHER -> n % 2 ^ 16
ActionTakes(f, w) == w \in DOMAIN Number
                     /\ (f = "vlan_pcp" => Cast(f, Number[w]) <= 7)

(* The action at hand is the last of the list. *)
parse_action_common(s) ==
  LET f == Word(s.rest)
      w == Word(Skip(s.rest, 1))
      n == Len(s.val.actions)
      a == s.val.actions[n]
  IN IF f \in {"", "/"} THEN State("action", s.val, Skip(s.rest, 1))
     ELSE IF f \notin ActionFields[a.type] THEN Fails(n - 1)
     ELSE IF w = "" THEN Undefined
     ELSE IF ~ActionTakes(f, w) THEN Fails(n - 1)
     ELSE State("conf", [s.val EXCEPT !.actions[n].conf[f] = Cast(f, Number[w])],
                Skip(s.rest, 2))

parse_flow_actions(s) ==
  LET w == Word(s.rest)
      new == [type |-> w, conf |-> [f \in ActionFields[w] |-> 0]]
      with == [s.val EXCEPT !.actions = Append(@, new)]
  IN CASE s.status = "actions" ->
            IF w = "actions" THEN State("action", s.val, Skip(s.rest, 1))
            ELSE IF w = "" THEN Undefined ELSE Refused
       [] s.status = "action" /\ w = "end" -> State("ok", s.val, <<>>)
       [] s.status = "action" /\ w = "" -> Undefined
       [] s.status = "action" /\ w = "of_pop_vlan" ->
            State("action", with, Skip(s.rest, 2))
       [] s.status = "action" /\ w \in DOMAIN ActionFields \ {"of_pop_vlan"} ->
            State("conf", with, Skip(s.rest, 1))
       [] OTHER -> Fails(Len(s.val.actions))

-----------------------------------------------------------------------------
(* parse_flow_rule: one word is skipped after each part.  Every turn uses up *)
(* a word, but the two that may follow the last one.                         *)
parse_flow_rule(words) ==
  LET new == [attr |-> NoAttr, pattern |-> <<>>, actions |-> <<>>]
      after[k \in 0 .. Len(words) + 2] ==
        IF k = 0 THEN State("attr", new, words)
        ELSE LET s == after[k - 1]
             IN CASE s.status = "attr" -> parse_flow_attr(s)
                  [] s.status = "pattern" -> parse_flow_pattern(s)
                  [] s.status = "item" -> parse_item_common(s)
                  [] s.status \in {"actions", "action"} -> parse_flow_actions(s)
                  [] s.status = "conf" -> parse_action_common(s)
                  [] OTHER -> s
  IN after[Len(words) + 2]
=============================================================================
