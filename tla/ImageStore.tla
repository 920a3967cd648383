----------------------------- MODULE ImageStore -----------------------------
(***************************************************************************)
(* What the loader promises a host: an image store that holds at most one  *)
(* image, whole.  The image is lost only to a replacement that was asked   *)
(* for, and appears only by the installation of the one the host offered.  *)
(* A reboot in the middle of either finds the content before it or after   *)
(* it and nothing else.  BpfLoader implements this module.                 *)
(***************************************************************************)
CONSTANTS Images, NoImage

VARIABLES
  image,     \* what survives a reboot
  session,   \* what the running firmware serves
  offer,     \* the image being transferred
  work       \* the accepted operation not yet carried out

vars == <<image, session, offer, work>>

Init ==
  /\ image = NoImage
  /\ session = "none"
  /\ offer = NoImage
  /\ work = "idle"

\* A running image is neither replaced nor started again before a reboot.
Request ==
  /\ work = "idle"
  /\ session # "running"
  /\ \/ work' = "replace"
     \/ session = "loading" /\ work' = "install"
  /\ UNCHANGED <<image, session, offer>>

Replace ==
  /\ work = "replace"
  /\ image' = NoImage
  /\ session' = "loading"
  /\ offer' \in Images
  /\ work' = "idle"

ReplaceFails ==
  /\ work = "replace"
  /\ image' \in {image, NoImage}
  /\ session' = "failed"
  /\ offer' = NoImage
  /\ work' = "idle"

Install ==
  /\ work = "install"
  /\ image' = offer
  /\ session' = "ready"
  /\ offer' = NoImage
  /\ work' = "idle"

InstallFails ==
  /\ work = "install"
  /\ image' \in {image, offer}
  /\ session' = "failed"
  /\ offer' = NoImage
  /\ work' = "idle"

TransferFails ==
  /\ work = "idle"
  /\ session = "loading"
  /\ session' = "failed"
  /\ offer' = NoImage
  /\ UNCHANGED <<image, work>>

Start ==
  /\ work = "idle"
  /\ session = "ready"
  /\ session' = "running"
  /\ UNCHANGED <<image, offer, work>>

Reboot ==
  /\ \/ image' = image
     \/ work = "replace" /\ image' = NoImage
     \/ work = "install" /\ image' = offer
  /\ \/ session' \in {"none", "failed"}
     \/ session' = "ready" /\ image' # NoImage
  /\ offer' = NoImage
  /\ work' = "idle"

Next ==
  \/ Request
  \/ Replace \/ ReplaceFails
  \/ Install \/ InstallFails
  \/ TransferFails
  \/ Start
  \/ Reboot

Spec == Init /\ [][Next]_vars
=============================================================================
