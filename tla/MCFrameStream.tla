---------------------------- MODULE MCFrameStream ----------------------------
(* A small instance of FrameStream for TLC. *)
EXTENDS FrameStream

MCOctets == 0 .. 7

\* The magic byte is 6; sequences wrap through it.
MCHeaders == {<<0, 0, 0>>, <<1, 6, 0>>}

\* Behind a header: nothing; a payload, or noise; a frame, as target requests
\* are; the beginning of one; and more than a payload, with a frame in it, or
\* with a silence before a magic byte.
MCContents ==
  {<<>>, <<0>>, <<6, 0, 0, 0, 0>>, <<0, 6, 5>>, <<0, 6, 0, 0, 0, 0, 0>>,
   <<0, 0, 0, 0, 0, 0, 0, 0, 0, 6>>}
=============================================================================
