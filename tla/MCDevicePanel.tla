--------------------------- MODULE MCDevicePanel ---------------------------
(* Three devices, one of each type, for TLC. *)
EXTENDS DevicePanel

CONSTANTS d1, d2, d3

MCOrder == <<d1, d2, d3>>
MCType == [d \in {d1, d2, d3} |->
             CASE d = d1 -> "inout" [] d = d2 -> "output" [] d = d3 -> "input"]

============================================================================
