---------------------------- MODULE MCSpiDriver ----------------------------
(* Instances of SpiDriver for TLC. *)
EXTENDS SpiDriver

\* Lengths of names and texts: one of each remainder by four.
MCLengths == 5 .. 8

\* The commands that the program's use of WiFiNINA may need.
MCCalls == ServerCommands(MCLengths) \cup NetworkCommands(MCLengths)

\* Those that drive pins of the module, and one that it needs.
MCPinCalls == PinCommands \cup {getConnectionStatus}
=============================================================================
