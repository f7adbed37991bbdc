-------------------------------- MODULE MCPit --------------------------------
(* A small 8254: one-bit bytes, and two cycles per oscillation.             *)
EXTENDS Pit8254

CONSTANTS Modes, AccessModes, BadCommands

\* The commands for the channels, and with BadCommands the refused ones.
MCCommands ==
    [channel : Channels, access_mode : AccessModes, op_mode : Modes]
    \cup (IF BadCommands
          THEN {[channel |-> 3, access_mode |-> 0, op_mode |-> 0],
                [channel |-> 0, access_mode |-> LOBYTE_HIBYTE, op_mode |-> 4]}
          ELSE {})
=============================================================================
