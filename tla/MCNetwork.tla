------------------------------ MODULE MCNetwork ------------------------------
(* A station on an old network without reconnecting, or on none, is asked to
   join another and to reconnect; its settings are cleared. *)
EXTENDS Network

CONSTANTS old, other

None == [ssid |-> NoSsid, auto |-> TRUE]
Before == {None, [ssid |-> old, auto |-> FALSE]}
Requests == {<<"connect", [ssid |-> other, auto |-> TRUE]>>, <<"touch", None>>}
=============================================================================
