----------------------------- MODULE ConfigCell -----------------------------
(***************************************************************************)
(* What a double-buffered configuration promises, whatever is stored in it *)
(* (the path of a forwarder, the path of a mirror, the table of a          *)
(* classifier): a manager requests a configuration and gets control back   *)
(* only once it is in force; a worker moves every burst of packets under   *)
(* one configuration, the one in force when the burst began, and a new one *)
(* comes into force only between two bursts.                               *)
(***************************************************************************)

CONSTANTS Configs,   \* the configurations that can be requested
          NoConfig   \* stands for "no request" and "no burst"

VARIABLES current,   \* the configuration in force
          request,   \* the configuration being installed, or NoConfig
          phase,     \* "idle", "requested", "applied": where the request is
          burst      \* the configuration of the burst in progress, or NoConfig

vars == <<current, request, phase, burst>>

Init == /\ current \in Configs
        /\ request = NoConfig
        /\ phase = "idle"
        /\ burst = NoConfig

Request == /\ phase = "idle"
           /\ request' \in Configs
           /\ phase' = "requested"
           /\ UNCHANGED <<current, burst>>

Apply == /\ phase = "requested"
         /\ burst = NoConfig
         /\ current' = request
         /\ phase' = "applied"
         /\ UNCHANGED <<request, burst>>

Return == /\ phase = "applied"
          /\ request' = NoConfig
          /\ phase' = "idle"
          /\ UNCHANGED <<current, burst>>

BeginBurst == /\ burst = NoConfig
              /\ burst' = current
              /\ UNCHANGED <<current, request, phase>>

EndBurst == /\ burst # NoConfig
            /\ burst' = NoConfig
            /\ UNCHANGED <<current, request, phase>>

Next == \/ Request
        \/ Apply
        \/ Return
        \/ BeginBurst
        \/ EndBurst

Spec == Init /\ [][Next]_vars
=============================================================================
