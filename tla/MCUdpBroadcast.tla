--------------------------- MODULE MCUdpBroadcast ---------------------------
(* UdpBroadcast for TLC: each radio has one frequency besides no data.       *)
EXTENDS UdpBroadcast

MCDials == [r \in Radios |-> {r}]
=============================================================================
