---------------------------- MODULE MCBpfLoader ----------------------------
(* Small instances of BpfLoader for TLC. *)
EXTENDS BpfLoader

\* The CRCs a host declares: of an image without maps, of one with a map, and
\* of one whose descriptor is refused.  Any other content then fails the check.
MCDeclaredCrcs == {<<1>>, <<1, 1>>, <<1, 0>>}
=============================================================================
