----------------------------- MODULE MCBpfMaps -----------------------------
(* Small instances of BpfMaps for TLC. *)
EXTENDS BpfMaps

\* A value of two bytes and one of one byte.
MCValueSizes == [unit \in Units |-> unit]

\* No image is loaded: the run starts from one that is committed.
MCNoCrc == {}

\* One instruction, a map of two bytes and a map of one byte.
MCImage ==
  [header |-> [bytecodeLen |-> 1, mapCount |-> 2, crc |-> <<1, 2, 1>>],
   marker |-> "committed", cell |-> <<1, 2, 1>>]

\* The firmware as a boot on that image leaves it: where Init is after the
\* image was loaded and the power went off and on again.
Booted ==
  /\ flash = MCImage
  /\ state = Committed(MCImage.header.crc)
  /\ bytecodeLen = MCImage.header.bytecodeLen
  /\ mapCount = MCImage.header.mapCount
  /\ layouts = Layouts(MCImage.cell, bytecodeLen, mapCount)
  /\ pending = NoOperation
  /\ imageLen = 0
  /\ nextOffset = 0
  /\ expectedCrc = <<>>
  /\ crc = <<>>
  /\ RuntimeInit

BootedInit == Booted /\ MapsInit

BootedSpec == BootedInit /\ [][MapsNext]_<<vars, mapVars>>
=============================================================================
