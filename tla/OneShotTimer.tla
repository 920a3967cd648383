---------------------------- MODULE OneShotTimer ----------------------------
(***************************************************************************)
(* What the firmware promises of its timer: there is one request, a later  *)
(* schedule or cancel of a program replaces it at any time before its own  *)
(* program begins, it is delivered once, with its own cookie and not       *)
(* before its deadline, and never into a program that still runs.  Nothing *)
(* else takes the request from a running image but a reboot.  OptiBridge   *)
(* implements this module.                                                 *)
(***************************************************************************)
CONSTANTS
  Cookies,
  Off            \* no request, no invocation

VARIABLES
  request,       \* the cookie of the request that stands
  expired,       \* its deadline has passed
  invocation,    \* the cookie of the event that is being handled
  calling,       \* a program the host started runs
  serving        \* an image is marked running

timerVars == <<request, expired, invocation, calling, serving>>

TimerInit ==
  /\ request = Off
  /\ expired = FALSE
  /\ invocation = Off
  /\ calling = FALSE
  /\ serving = FALSE

\* A program runs, for the host or for an event; programs schedule and cancel.
ProgramRuns == calling \/ invocation # Off

Schedule ==
  /\ ProgramRuns
  /\ request' \in Cookies
  /\ expired' = FALSE
  /\ UNCHANGED <<invocation, calling, serving>>

Cancel ==
  /\ ProgramRuns
  /\ request' = Off
  /\ expired' = FALSE
  /\ UNCHANGED <<invocation, calling, serving>>

Expire ==
  /\ request # Off
  /\ expired' = TRUE
  /\ UNCHANGED <<request, invocation, calling, serving>>

Deliver ==
  /\ request # Off
  /\ expired
  /\ ~ProgramRuns
  /\ invocation' = request
  /\ request' = Off
  /\ expired' = FALSE
  /\ UNCHANGED <<calling, serving>>

\* There is no image to deliver it to.
Drop ==
  /\ expired
  /\ ~ProgramRuns
  /\ ~serving
  /\ request' = Off
  /\ expired' = FALSE
  /\ UNCHANGED <<invocation, calling, serving>>

Return ==
  /\ invocation # Off
  /\ invocation' = Off
  /\ UNCHANGED <<request, expired, calling, serving>>

\* The host starts an image that is not running yet.
Call ==
  /\ ~ProgramRuns
  /\ ~serving
  /\ calling' = TRUE
  /\ UNCHANGED <<request, expired, invocation, serving>>

\* It is marked running if the program succeeds.
CallReturns ==
  /\ calling
  /\ calling' = FALSE
  /\ serving' \in {serving, TRUE}
  /\ UNCHANGED <<request, expired, invocation>>

Reboot ==
  /\ request' = Off
  /\ expired' = FALSE
  /\ invocation' = Off
  /\ calling' = FALSE
  /\ serving' = FALSE

TimerNext ==
  \/ Schedule \/ Cancel
  \/ Expire \/ Deliver \/ Drop
  \/ Return
  \/ Call \/ CallReturns
  \/ Reboot

TimerSpec == TimerInit /\ [][TimerNext]_timerVars
=============================================================================
