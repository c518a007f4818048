----------------------------- MODULE MCPrimary ------------------------------
EXTENDS Primary

MCUids == {Uid("vhost", 0), Uid("ring", 0), Uid("pipe", 0), Uid("phy", 0)}
MCPipes == {<<0, 1>>}
MCFlowPorts == {0, 1}

MCNumber == [w \in {"0", "1", "5", "100", "0x800", "0xfff"} |->
               CASE w = "0" -> 0 [] w = "1" -> 1 [] w = "5" -> 5
                 [] w = "100" -> 100 [] w = "0x800" -> 2048 [] w = "0xfff" -> 4095]
MCMac == [w \in {"m1", "m2"} |-> IF w = "m1" THEN {0, 41} ELSE {1, 8, 42}]

(* Attributes given twice, two items, every way to give a field, and three  *)
(* actions; pcp and vid in one tci; a refusal; a parse that goes past a     *)
(* list.                                                                    *)
Long == <<"group", "1", "priority", "5", "priority", "1", "ingress", "transfer",
          "pattern", "eth", "dst", "is", "m1", "type", "spec", "0x800",
          "type", "last", "0xfff", "type", "mask", "0xfff",
          "src", "spec", "m2", "src", "prefix", "5", "/",
          "vlan", "vid", "is", "100", "/", "end",
          "actions", "jump", "group", "5", "/", "queue", "index", "1", "/",
          "of_pop_vlan", "/", "end">>
WrongWord == <<"group", "1", "ingress", "actions">>
NoEnd == <<"ingress", "pattern", "eth", "/", "vlan", "vid", "is", "m1">>
Tagged == <<"ingress", "pattern", "vlan", "pcp", "is", "5", "vid", "is", "100",
            "/", "end", "actions", "queue", "index", "0", "/", "end">>

MCTexts == {Long, Tagged, WrongWord, NoEnd}
=============================================================================
