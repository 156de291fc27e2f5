--------------------------- MODULE MCTunnelEditor ---------------------------
(* The tunnels page for TLC: two tunnels, and room for a third. *)
EXTENDS TunnelEditor

CONSTANTS t1, t2, t3

MCTunnels ==
    [id \in {t1, t2, t3} |->
       CASE id = t1 -> [name |-> "a", protocol |-> "tcp", remote_port |-> 7000, domain |-> "", status |-> "running"]
         [] id = t2 -> [name |-> "b", protocol |-> "http", remote_port |-> 0, domain |-> "b", status |-> "stopped"]
         [] id = t3 -> None]

MCEdits == {<<"protocol", "tcp">>, <<"protocol", "http">>, <<"protocol", "visitor_webrtc">>,
            <<"remote_port", 0>>, <<"domain", "b">>, <<"name", "n">>}
=============================================================================
