-------------------------------- MODULE WebApi --------------------------------
(***************************************************************************)
(* src/spp-ctl/spp_webapi.py, the handlers of /v1/vfs, with the commands   *)
(* that VfProc of src/spp-ctl/spp_proc.py makes of their arguments: what a *)
(* request becomes before it is sent to spp_vf.  The body of a request is  *)
(* a record, a key that is not in the body is not in its domain; handler   *)
(* is the route, sec the id in the URL, name the component in it.          *)
(***************************************************************************)
EXTENDS Integers, Sequences

CONSTANTS Procs,       \* ids of the registered spp_vf processes
          Text         \* stands for a value that is not a number

HasKeys(body, keys) == keys \subseteq DOMAIN body

(* bottle.HTTPError; KeyInvalid itself fails when it is constructed, since  *)
(* it names KeyRequired in super(), and the server answers 500.             *)
Http(code) == <<"http", code>>
KeyRequired == Http(400)
KeyInvalid == Http(500)
NotFound == Http(404)
IsHttp(answer) == answer[1] = "http"

PortTypes == {"phy", "vhost", "ring", "pcap", "nullpmd", "tap", "memif", "pipe"}

_validate_port(port) == port.type \in PortTypes

validate_comp_start(body) ==
  IF ~HasKeys(body, {"name", "core", "type"}) THEN KeyRequired
  ELSE IF \/ body.core = Text
          \/ body.type \notin {"forward", "merge", "classifier"} THEN KeyInvalid
  ELSE <<"component", "start", body.name, body.core, body.type>>

(* port_add and port_del *)
PortCommand(name, body) ==
  LET base == <<"port", IF body.action = "attach" THEN "add" ELSE "del",
                body.port, body.dir, name>>
      vlan == IF body.action = "attach" /\ "vlan" \in DOMAIN body
              THEN body.vlan.operation ELSE "none"
  IN CASE vlan = "add" -> base \o <<"add_vlantag", body.vlan.id, body.vlan.pcp>>
       [] vlan = "del" -> base \o <<"del_vlantag">>
       [] OTHER -> base

VlanValid(vlan) ==
  /\ vlan.operation \in {"none", "add", "del"}
  /\ vlan.operation = "add" => /\ HasKeys(vlan, {"id", "pcp"})
                               /\ vlan.id # Text /\ vlan.pcp # Text

vf_comp_port(name, body) ==
  IF ~HasKeys(body, {"action", "port", "dir"}) THEN KeyRequired
  ELSE IF /\ body.action \in {"attach", "detach"}
          /\ body.dir \in {"rx", "tx"}
          /\ _validate_port(body.port)
          /\ body.action = "attach" /\ "vlan" \in DOMAIN body
               => VlanValid(body.vlan)
  THEN PortCommand(name, body)
  ELSE KeyInvalid

(* set_classifier_table and its three siblings *)
TableCommand(body) ==
  <<"classifier_table", body.action, body.type>>
  \o (IF body.type = "vlan" THEN <<body.vlan>> ELSE <<>>)
  \o <<body.mac_address, body.port>>

vf_classifier(body) ==
  IF ~HasKeys(body, {"action", "type", "port", "mac_address"}) THEN KeyRequired
  ELSE IF /\ body.action \in {"add", "del"}
          /\ body.type \in {"mac", "vlan"}
          /\ _validate_port(body.port)
          /\ body.mac_address # "malformed"
          /\ body.type = "vlan" => "vlan" \in DOMAIN body /\ body.vlan # Text
  THEN TableCommand(body)
  ELSE KeyInvalid

(* The routes of V1VFHandler behind check_sec_id: an answer, or the words   *)
(* of the command.                                                          *)
Handle(req) ==
  IF req.sec \notin Procs THEN NotFound
  ELSE CASE req.handler = "vf_get" -> <<"status">>
         [] req.handler = "vf_exit" -> <<"exit">>
         [] req.handler = "vf_comp_start" -> validate_comp_start(req.body)
         [] req.handler = "vf_comp_stop" -> <<"component", "stop", req.name>>
         [] req.handler = "vf_comp_port" -> vf_comp_port(req.name, req.body)
         [] req.handler = "vf_classifier" -> vf_classifier(req.body)
=============================================================================
