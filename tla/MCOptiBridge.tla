---------------------------- MODULE MCOptiBridge ----------------------------
(* Small instances of OptiBridge for TLC: images of one instruction and no
   maps, two of them at most. *)
EXTENDS OptiBridge

MCOneCrc  == {<<1>>}
MCTwoCrcs == {<<1>>, <<2>>}
=============================================================================
