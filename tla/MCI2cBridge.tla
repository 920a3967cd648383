----------------------------- MODULE MCI2cBridge -----------------------------
(* Small instances of I2cBridge for TLC. *)
EXTENDS I2cBridge

MCOctets == 0 .. 5

Template(command, flags, payload) ==
  [command |-> command, flags |-> flags, payload |-> payload]

\* One request for each answer of validate_i2c_request, a write and a read.
MCTemplates ==
  {Template(1, 1, <<0>>),     \* nonzero flags
   Template(3, 0, <<0>>),     \* a command of the target
   Template(1, 0, <<>>),      \* no address
   Template(1, 0, <<4>>),     \* bit 7 of the address
   Template(2, 0, <<0>>),     \* no count
   Template(2, 0, <<0, 3>>),  \* more than the buffer holds
   Template(1, 0, <<0, 1>>),  \* a write of one byte
   Template(2, 0, <<0, 1>>)}  \* a read of one byte

\* A write, a read and a request that is refused.
MCFewTemplates ==
  {Template(1, 0, <<0, 1>>), Template(2, 0, <<0, 1>>), Template(1, 0, <<>>)}

-----------------------------------------------------------------------------
(* What the documents say and the code does not do.                        *)

\* specs/i2c-bridge/requirements.md, REQ-BRIDGE-008: "If DTR drops [...] the
\* firmware MUST request an MCU software reset".  In the code a response is
\* written without watching DTR.
DtrDropResets == (Serving /\ ~Dtr) ~> pc = "reset"

\* REQ-BRIDGE-004: the bridge must "accept all bytes from one configured
\* 64-byte CDC packet, including up to three maximum-length frames".  In the
\* code the packet buffer is as long as one frame.
WholePacketsAccepted == [][pc = "read" /\ pc' = "reset" => ~configured]_bridgeVars
=============================================================================
