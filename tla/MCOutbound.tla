----------------------------- MODULE MCOutbound -----------------------------
(* Instances of the background parts for TLC.                              *)
EXTENDS Outbound

CONSTANTS ip1, ip2, m1, m2

MCIps == {ip1, ip2}
MCMacs == {m1, m2}
MCParts == {"notifier", "garden", "reminders"}
MCGardenOnly == {"garden"}
=============================================================================
