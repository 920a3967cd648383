----------------------------- MODULE I2cServer -----------------------------
(***************************************************************************)
(* What the bridge promises a host for one session (REQ-BRIDGE-004 to 007):*)
(* requests are carried out in the order they were sent, the next one is   *)
(* not begun before its predecessor is answered, and a response is the     *)
(* outcome of its own request.                                             *)
(***************************************************************************)
EXTENDS Naturals, Sequences

CONSTANTS
  Requests,        \* what a host can ask
  Outcomes(_),     \* what carrying out a request can come to
  ResponseTo(_, _) \* the response to a request that came to an outcome

VARIABLES
  asked,           \* the requests of the session, in order
  outcomes,        \* what those carried out so far came to
  answered         \* the responses so far

serverVars == <<asked, outcomes, answered>>

ServerInit == asked = <<>> /\ outcomes = <<>> /\ answered = <<>>

Ask ==
  /\ \E request \in Requests : asked' = Append(asked, request)
  /\ UNCHANGED <<outcomes, answered>>

\* One transfer at a time.
CarryOut ==
  /\ Len(outcomes) = Len(answered)
  /\ Len(outcomes) < Len(asked)
  /\ \E outcome \in Outcomes(asked[Len(outcomes) + 1]) :
       outcomes' = Append(outcomes, outcome)
  /\ UNCHANGED <<asked, answered>>

Respond ==
  /\ Len(answered) < Len(outcomes)
  /\ LET k == Len(answered) + 1
     IN  answered' = Append(answered, ResponseTo(asked[k], outcomes[k]))
  /\ UNCHANGED <<asked, outcomes>>

\* The host closes the port, or the bridge resets.
EndSession == asked' = <<>> /\ outcomes' = <<>> /\ answered' = <<>>

ServerNext == Ask \/ CarryOut \/ Respond \/ EndSession

Spec == ServerInit /\ [][ServerNext]_serverVars
=============================================================================
