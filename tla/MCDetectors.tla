----------------------------- MODULE MCDetectors -----------------------------
(* Small instances of Detectors: one address that does everything, and one    *)
(* that is only there to compete for a window.                                *)
EXTENDS Detectors

Busy == CHOOSE ip \in Ips : TRUE
Port == CHOOSE p \in Ports : TRUE

SomeSends ==
    [ip \in Ips |->
        IF ip = Busy
        THEN [kind : {"connect"}, port : Ports \ {Port}]
                 \union [kind : {"login", "command", "alert"}, port : {Port}]
        ELSE {[kind |-> "connect", port |-> Port]}]
==============================================================================
