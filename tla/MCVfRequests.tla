---------------------------- MODULE MCVfRequests ----------------------------
(* VfRequests for model checking: a master lcore, one slave, two names, a   *)
(* phy with two queues (one device) and a vhost.                            *)
EXTENDS VfRequests

MCNames == {"n1", "n2"}
Phy(q) == [type |-> "phy", no |-> 0, nq |-> q]
Vhost == [type |-> "vhost", no |-> 0, nq |-> NoQueue]

MCPorts == {PortIdx(Phy(0)), PortIdx(Phy(1)), PortIdx(Vhost)}
MCHosted == {PortIdx(Phy(0)), PortIdx(Phy(1))}
MCDev == [p \in MCPorts |-> IF p.type = "phy" THEN 0 ELSE 1]
MCQueues == [no \in 0 .. MaxEthPorts |-> IF no = 0 THEN [rx |-> 2, tx |-> 2]
                                         ELSE [rx |-> 0, tx |-> 0]]

Route(handler, name, body) ==
  [handler |-> handler, sec |-> 1, name |-> name, body |-> body]
Start(n, core, type) ==
  Route("vf_comp_start", n, [name |-> n, core |-> core, type |-> type])
Attach(n, p, d) ==
  Route("vf_comp_port", n, [action |-> "attach", port |-> p, dir |-> d])
AttachVlan(n, p, d, vlan) ==
  Route("vf_comp_port", n, [action |-> "attach", port |-> p, dir |-> d, vlan |-> vlan])
Detach(n, p, d) ==
  Route("vf_comp_port", n, [action |-> "detach", port |-> p, dir |-> d])
Entry(a, m, p) ==
  Route("vf_classifier", "", [action |-> a, type |-> "mac", mac_address |-> m, port |-> p])

AddTag(id) == [operation |-> "add", id |-> id, pcp |-> 0]
DelTag == [operation |-> "del"]
Beyond == [type |-> "ring", no |-> MaxEthPorts, nq |-> NoQueue]

(* Requests that are executed ... *)
GoodRequests ==
  {Start("n1", 1, "classifier"), Start("n1", 1, "forward"), Start("n2", 1, "merge"),
   Start("n2", 0, "forward"),
   Route("vf_comp_stop", "n1", <<>>), Route("vf_comp_stop", "n2", <<>>),
   Attach("n1", Vhost, "tx"), Attach("n2", Vhost, "tx"),
   Detach("n1", Vhost, "tx"), Detach("n2", Vhost, "tx"),
   Attach("n2", Phy(0), "rx"),
   AttachVlan("n1", Vhost, "tx", AddTag(5)), AttachVlan("n2", Vhost, "tx", AddTag(6)),
   AttachVlan("n2", Phy(0), "rx", DelTag),
   AttachVlan("n2", Phy(1), "rx", AddTag(7)),
   AttachVlan("n1", Vhost, "rx", AddTag(8)),
   Entry("add", "m1", Vhost), Entry("del", "m1", Vhost), Entry("add", "dashed", Vhost)}

(* ... and requests that never are. *)
BadRequests ==
  {[Start("n1", 1, "forward") EXCEPT !.sec = 9],
   Start("n1", Text, "forward"), Start("n1", 2, "forward"),
   Route("vf_comp_port", "n1", [action |-> "attach", dir |-> "rx"]),
   Attach("n1", [Vhost EXCEPT !.type = "tap"], "rx"),
   AttachVlan("n1", Vhost, "tx", [operation |-> "add", id |-> 4096, pcp |-> 0]),
   Attach("n1", Beyond, "rx"), Entry("add", "m1", Beyond),
   Route("vf_get", "", <<>>), Route("vf_exit", "", <<>>)}

MCRequests == GoodRequests \union BadRequests
=============================================================================
