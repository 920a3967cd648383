-------------------------- MODULE OptiBridgeProofs --------------------------
(* Proofs about the firmware of OptiBridge, for every host, every program and
   every interleaving of the packet callback with the main loop.  The
   invariants of the loader come from BpfLoaderProofs: the runtime is shown to
   take loader steps only. *)
EXTENDS OptiBridge, BpfLoaderProofs

\* The callback runs only what the loader grants, and nothing takes the grant
\* back before the program returns.
GrantHolds == isr = "start" => ExecutionVerdict = "OK"

\* The metadata of an invocation describes the image that is there.
MetadataIsCurrent ==
  Executing \/ pc = "enter" =>
    pending = NoOperation /\ HasImage /\ metadata = Metadata

Control ==
  /\ bpfActive \in BOOLEAN
  /\ isr \in {"idle", "start"}
  /\ pc \in Places
  /\ GrantHolds
  /\ ExclusiveExecution
  /\ MetadataIsCurrent

LoaderInvariant == LoaderTypeOK /\ Safety

-----------------------------------------------------------------------------
(* The runtime drives the loader.                                          *)

\* Whatever restarts the firmware boots the loader on what flash holds.
LEMMA RebootsAreBoots ==
  ASSUME LoaderTypeOK, HonourReset \/ PowerLoss
  PROVE  Reset \/ PowerCut
<1>1. CASE HonourReset \/ Reboot(flash)
  BY <1>1 DEF HonourReset, Reboot, Reset
<1>2. CASE \E f \in Torn : Reboot(f)
  <2>1. PICK f \in Torn : Boot(f)
    BY <1>2 DEF Reboot
  <2>2. CASE pending # NoOperation
    BY <2>1, <2>2 DEF PowerCut
  <2>3. CASE pending = NoOperation
    BY <2>1, <2>3 DEF Torn, NoOperation, Reset
  <2>4. QED
    BY <2>2, <2>3
<1>3. QED
  BY <1>1, <1>2 DEF PowerLoss

\* Every step of the firmware is a step of the loader or leaves it alone: the
\* program a Start runs was granted and still is when it returns.
LEMMA LoaderStep ==
  ASSUME LoaderTypeOK, GrantHolds, [Next]_vars
  PROVE  [LoaderNext]_loaderVars
<1>1. CASE UNCHANGED vars
  BY <1>1 DEF vars
<1>2. ASSUME NEW req \in Requests, Respond(req)
      PROVE  [LoaderNext]_loaderVars
  <2>1. CASE req.command = "LOAD" /\ Answer(req) = "OK"
    <3>1. AcceptLoad(req.load)
      BY <1>2, <2>1 DEF Respond
    <3>2. req.load \in LoadRequests
      BY <2>1 DEF Requests
    <3>3. QED
      BY <3>1, <3>2 DEF LoaderNext
  <2>2. CASE ~(req.command = "LOAD" /\ Answer(req) = "OK")
    BY <1>2, <2>2 DEF Respond
  <2>3. QED
    BY <2>1, <2>2
<1>3. ASSUME NEW zero \in BOOLEAN, StartReturns(zero)
      PROVE  [LoaderNext]_loaderVars
  BY <1>3 DEF StartReturns, GrantHolds, LoaderNext, StartImage
<1>4. CASE Execute
  BY <1>4 DEF Execute, LoaderNext
<1>5. CASE HonourReset \/ PowerLoss
  BY <1>5, RebootsAreBoots DEF LoaderNext
<1>6. CASE BadPacket \/ (\E req \in Requests : AcceptReset(req) \/ StartProgram(req))
  BY <1>6 DEF BadPacket, AcceptReset, StartProgram
<1>7. CASE ScheduleTimer \/ CancelTimer \/ DeadlinePasses
  BY <1>7 DEF ScheduleTimer, CancelTimer, DeadlinePasses
<1>8. CASE LoopTop \/ CheckPending \/ BusIdle \/ BusBusy \/ Poll \/ Take \/ Sleep
  BY <1>8 DEF LoopTop, CheckPending, BusIdle, BusBusy, Poll, Take, Sleep
<1>9. CASE \/ Claim \/ CheckGeneration \/ GetMetadata \/ EnterProgram
           \/ ProgramReturns \/ Release
  BY <1>9 DEF Claim, CheckGeneration, GetMetadata, EnterProgram, ProgramReturns, Release
<1>10. QED
  BY <1>1, <1>2, <1>3, <1>4, <1>5, <1>6, <1>7, <1>8, <1>9 DEF Next, Callback, MainLoop, LoopStep

-----------------------------------------------------------------------------
(* Who executes.                                                           *)

\* What a step of the callback or of the runtime may assume of a verdict.
LEMMA VerdictOK ==
  ASSUME LoaderTypeOK
  PROVE  /\ QueryVerdict = "OK" => pending = NoOperation /\ HasImage
         /\ ExecutionVerdict = "OK" => pending = NoOperation /\ HasImage
BY DEF LoaderTypeOK, ExecutionVerdict, QueryVerdict

\* A verdict of the loader is a status of the protocol.
LEMMA VerdictIsStatus ==
  ASSUME LoaderTypeOK
  PROVE  /\ \A load \in LoadRequests : LoadVerdict(load) \in Refusals \cup {"OK"}
         /\ QueryVerdict \in Refusals \cup {"OK"}
         /\ ExecutionVerdict \in Refusals \cup {"OK"}
<1>1. QueryVerdict \in Refusals \cup {"OK"}
  BY DEF LoaderTypeOK, LoaderStates, Failures, QueryVerdict, Refusals
<1>2. ExecutionVerdict \in Refusals \cup {"OK"}
  BY <1>1 DEF ExecutionVerdict, Refusals
<1>3. ASSUME NEW load \in LoadRequests
      PROVE  LoadVerdict(load) \in Refusals \cup {"OK"}
  BY DEF LoadVerdict, BeginVerdict, DataVerdict, FinalizeVerdict, Refusals
<1>4. QED
  BY <1>1, <1>2, <1>3

\* Only a granted Start that finds the claim free runs, and an answer that is
\* given at once is a status.
LEMMA AnswerKinds ==
  ASSUME LoaderTypeOK, NEW req \in Requests
  PROVE  /\ Answer(req) = "run" => ExecutionVerdict = "OK" /\ ~bpfActive
         /\ Answer(req) \in Refusals \cup {"OK", "ready", "run", "reset"}
<1>1. /\ req.command \in Commands
      /\ req.command = "LOAD" => req.load \in LoadRequests
  BY RuntimeAssumption DEF Requests
<1>2. /\ \A load \in LoadRequests : LoadVerdict(load) \in Refusals \cup {"OK"}
      /\ QueryVerdict \in Refusals \cup {"OK"}
      /\ ExecutionVerdict \in Refusals \cup {"OK"}
  BY VerdictIsStatus
<1>3. /\ DispatchAnswer(req) = "run" => ExecutionVerdict = "OK" /\ ~bpfActive
      /\ DispatchAnswer(req) \in Refusals \cup {"OK", "ready", "run", "reset"}
  <2>1. req.command \in MapCommands => MapAnswer(req) \in Refusals \cup {"OK"}
    BY DEF MapAnswer, MapVerdict, Refusals
  <2>2. QED
    BY <1>1, <1>2, <2>1 DEF DispatchAnswer, Commands, MapCommands, Refusals
<1>4. QED
  BY <1>3 DEF Answer, Refusals

\* The claim, the grant and the helpers go together at every step: the
\* callback only finds the claim taken when it answers BUSY, and the main loop
\* does not move while the callback runs a program.
LEMMA ControlStep ==
  ASSUME LoaderTypeOK, Safety, Control, [Next]_vars
  PROVE  Control'
<1> USE DEF Control
<1>1. CASE UNCHANGED vars
  BY <1>1
  DEF vars, loaderVars, timerVars, linkVars, bpfVars, mainVars, GrantHolds, ExclusiveExecution,
      MetadataIsCurrent, Executing, ExecutionVerdict, QueryVerdict, HasImage, Metadata
<1>2. ASSUME NEW req \in Requests, Respond(req)
      PROVE  Control'
  <2>1. /\ isr = "idle"
        /\ UNCHANGED <<resetPending, timerVars, bpfVars, isr, mainVars>>
    BY <1>2 DEF Respond
  <2>2. bpfActive => UNCHANGED loaderVars
    BY <1>2 DEF Respond, Answer
  <2>3. Executing \/ pc = "enter" => bpfActive
    BY <2>1 DEF ExclusiveExecution, Executing, Claimed
  <2>4. MetadataIsCurrent'
    BY <2>1, <2>2, <2>3
    DEF MetadataIsCurrent, Executing, HasImage, Metadata, loaderVars, bpfVars, mainVars
  <2>5. QED
    BY <2>1, <2>4
    DEF GrantHolds, ExclusiveExecution, Executing, bpfVars, mainVars
<1>3. CASE BadPacket \/ (\E req \in Requests : AcceptReset(req))
  BY <1>3
  DEF BadPacket, AcceptReset, loaderVars, timerVars, bpfVars, mainVars, GrantHolds,
      ExclusiveExecution, MetadataIsCurrent, Executing, ExecutionVerdict, QueryVerdict,
      HasImage, Metadata
<1>4. ASSUME NEW req \in Requests, StartProgram(req)
      PROVE  Control'
  <2>1. ExecutionVerdict = "OK" /\ ~bpfActive
    BY <1>4, AnswerKinds DEF StartProgram
  <2>2. /\ isr' = "start" /\ bpfActive' /\ metadata' = Metadata /\ activeHelpers' = Metadata
        /\ UNCHANGED <<loaderVars, mainVars>>
    BY <1>4 DEF StartProgram
  <2>3. pc \notin Claimed
    BY <2>1 DEF ExclusiveExecution
  <2>4. ExecutionVerdict' = ExecutionVerdict /\ Metadata' = Metadata /\ HasImage' = HasImage
        /\ pending' = pending /\ pc' = pc
    BY <2>2 DEF loaderVars, mainVars, ExecutionVerdict, QueryVerdict, HasImage, Metadata
  <2>5. QED
    BY <2>1, <2>2, <2>3, <2>4, VerdictOK
    DEF GrantHolds, ExclusiveExecution, MetadataIsCurrent, Executing
<1>5. ASSUME NEW zero \in BOOLEAN, StartReturns(zero)
      PROVE  Control'
  BY <1>5
  DEF StartReturns, mainVars, GrantHolds, ExclusiveExecution, MetadataIsCurrent, Executing,
      Claimed
<1>6. CASE ScheduleTimer \/ CancelTimer \/ DeadlinePasses
  BY <1>6
  DEF ScheduleTimer, CancelTimer, DeadlinePasses, loaderVars, bpfVars, mainVars, GrantHolds,
      ExclusiveExecution, MetadataIsCurrent, Executing, ExecutionVerdict, QueryVerdict,
      HasImage, Metadata
<1>7. CASE HonourReset \/ PowerLoss
  BY <1>7
  DEF HonourReset, PowerLoss, Reboot, Places, Claimed, GrantHolds, ExclusiveExecution,
      MetadataIsCurrent, Executing
<1>8. CASE LoopTop \/ CheckPending \/ BusIdle \/ BusBusy \/ Execute \/ Poll \/ Take \/ Sleep
  BY <1>8
  DEF LoopTop, CheckPending, BusIdle, BusBusy, Execute, Poll, Take, Sleep, Goto, MainRuns,
      bpfVars, Places, Claimed, GrantHolds, ExclusiveExecution, MetadataIsCurrent, Executing
<1>9. CASE Claim \/ CheckGeneration
  BY <1>9
  DEF Claim, CheckGeneration, EventIsCurrent, Goto, MainRuns, Places, Claimed, GrantHolds,
      ExclusiveExecution, MetadataIsCurrent, Executing
<1>10. CASE GetMetadata
  <2>1. ImageCanRun => pending = NoOperation /\ HasImage
    BY VerdictOK DEF ImageCanRun, EventVerdict
  <2>2. UNCHANGED loaderVars => Metadata' = Metadata /\ HasImage' = HasImage /\ pending' = pending
    BY DEF loaderVars, Metadata, HasImage
  <2>3. /\ isr = "idle" /\ isr' = "idle" /\ pc = "metadata" /\ UNCHANGED loaderVars
        /\ activeHelpers = NoHelpers /\ activeHelpers' = NoHelpers
    BY <1>10 DEF GetMetadata, Goto, MainRuns, ExclusiveExecution, Executing
  <2>4. CASE ImageCanRun
    <3>1. pc' = "enter" /\ bpfActive' = TRUE /\ metadata' = Metadata
      BY <1>10, <2>4 DEF GetMetadata, Goto, ImageCanRun
    <3>2. QED
      BY <2>1, <2>2, <2>3, <2>4, <3>1
      DEF Places, Claimed, GrantHolds, ExclusiveExecution, MetadataIsCurrent, Executing
  <2>5. CASE ~ImageCanRun
    <3>1. pc' = "wait" /\ bpfActive' = FALSE
      BY <1>10, <2>5 DEF GetMetadata, Goto, ImageCanRun
    <3>2. QED
      BY <2>3, <3>1
      DEF Places, Claimed, GrantHolds, ExclusiveExecution, MetadataIsCurrent, Executing
  <2>6. QED
    BY <2>4, <2>5
<1>11. CASE EnterProgram \/ ProgramReturns \/ Release
  BY <1>11
  DEF EnterProgram, ProgramReturns, Release, Goto, MainRuns, loaderVars, Places, Claimed,
      GrantHolds, ExclusiveExecution, MetadataIsCurrent, Executing, HasImage, Metadata
<1>12. QED
  BY <1>1, <1>2, <1>3, <1>4, <1>5, <1>6, <1>7, <1>8, <1>9, <1>10, <1>11
  DEF Next, Callback, MainLoop, LoopStep

\* The firmware starts in such a state.
LEMMA InitControl == Init => LoaderInvariant /\ Control
BY InitInvariant
DEF Init, RuntimeInit, LoaderInvariant, Control, Places, Claimed, GrantHolds, ExclusiveExecution,
    MetadataIsCurrent, Executing

\* The loader's invariants and the claim's are inductive together: the claim
\* keeps operations from being parked under a program, and an operation that is
\* pending keeps a Start from being granted.
THEOREM FirmwareInvariance == Spec => [](LoaderInvariant /\ Control)
<1>1. LoaderInvariant /\ Control /\ [Next]_vars => (LoaderInvariant /\ Control)'
  BY LoaderStep, TypeStep, SafetyStep, ControlStep DEF LoaderInvariant, Control
<1>2. QED
  BY <1>1, InitControl, PTL DEF Spec

\* The firmware implements the loader's specification, so every theorem of
\* BpfLoaderProofs holds in it (main, dispatch_with_bpf_and_executor).
THEOREM FirmwareDrivesLoader == Spec => DrivesLoader
<1>1. Init => LoaderInit
  BY DEF Init, RuntimeInit
<1>2. LoaderInvariant /\ Control /\ [Next]_vars => [LoaderNext]_loaderVars
  BY LoaderStep DEF LoaderInvariant, Control
<1>3. QED
  BY <1>1, <1>2, FirmwareInvariance, PTL DEF Spec, DrivesLoader, LoaderSpec

\* The firmware keeps what the image store promises: whatever the host asks,
\* whenever programs run, and wherever a reset, a flash error or a power loss
\* strikes, the durable image is the one that was there, the one the host
\* offered, or none (main, execute_pending, validate_committed).
THEOREM FirmwareImplementsStore == Spec => ImplementsImageStore
BY FirmwareDrivesLoader, LoaderImplementsStore, PTL DEF DrivesLoader

\* One BPF invocation at a time, and its helpers are its own
\* (try_claim_bpf_execution, ACTIVE_MAP_HELPERS).
THEOREM ExecutionIsExclusive == Spec => []ExclusiveExecution
<1>1. LoaderInvariant /\ Control => ExclusiveExecution
  BY DEF Control
<1>2. QED
  BY <1>1, FirmwareInvariance, PTL

\* The image under a program is committed, whole in flash and not about to be
\* rewritten (on_i2c_packet, execute_timer_event).
THEOREM ExecutingImageIsIntact == Spec => []ExecutingImageIntact
<1>1. LoaderInvariant /\ Control => ExecutingImageIntact
  BY DEF Control, MetadataIsCurrent, LoaderInvariant, Safety, CommittedIsDurable,
         ExecutingImageIntact
<1>2. QED
  BY <1>1, FirmwareInvariance, PTL

-----------------------------------------------------------------------------
(* The timer.                                                              *)

\* How far the generation has gone since the main loop took the event it
\* holds: `superseded` steps, round the end of the counter at most once, and
\* never all the way, so equal generations mean that nothing happened.
HeldGeneration ==
  /\ event \in TimerEvents
  /\ event.generation >= 1
  /\ generation >= 1
  /\ \/ generation = event.generation + superseded
     \/ generation = event.generation + superseded - MaxGeneration

TimerTypes ==
  /\ generation \in Generations
  /\ pendingTimer \in TimerRequests \cup {NoTimer}
  /\ readyTimer \in TimerEvents \cup {NoTimer}
  /\ event \in TimerEvents \cup {NoTimer}
  /\ superseded \in 0 .. MaxSuperseded

Timers ==
  /\ TimerTypes
  /\ OneTimer
  /\ pendingTimer # NoTimer \/ readyTimer # NoTimer => generation >= 1
  /\ HoldsEvent => HeldGeneration
  /\ NoStaleDispatch

\* Schedule and cancel move the generation on and take whatever is pending or
\* ready with them.
LEMMA HelperStep ==
  ASSUME LoaderTypeOK, Control, Timers, ScheduleTimer \/ CancelTimer
  PROVE  Timers'
<1>1. MaxGeneration \in Nat /\ MaxSuperseded \in Nat /\ MaxSuperseded < MaxGeneration
  BY RuntimeAssumption
<1>2. /\ generation' = NextGeneration
      /\ CountSuperseded
      /\ readyTimer' = NoTimer
      /\ UNCHANGED <<isr, pc, event>>
      /\ Executing
  BY DEF ScheduleTimer, CancelTimer
<1>3. generation \in 0 .. MaxGeneration /\ superseded \in 0 .. MaxSuperseded
  BY DEF Timers, TimerTypes, Generations
<1>4. NextGeneration \in 1 .. MaxGeneration
  BY <1>1, <1>3 DEF NextGeneration
<1>5. pc \notin {"metadata", "enter"}
  BY <1>2 DEF Control, ExclusiveExecution, Executing, Claimed
<1>6. \/ pendingTimer' = NoTimer
      \/ pendingTimer' \in TimerRequests /\ pendingTimer'.generation = NextGeneration
  <2>1. state.crc \in Seq(Units)
    BY DEF LoaderTypeOK, LoaderStates
  <2>2. NextGeneration \in Generations
    BY <1>1, <1>4 DEF Generations
  <2>3. [generation |-> NextGeneration, cookie |-> state.crc, due |-> FALSE] \in TimerRequests
    BY <2>1, <2>2 DEF TimerRequests
  <2>4. CASE ScheduleTimer
    BY <2>3, <2>4 DEF ScheduleTimer
  <2>5. CASE CancelTimer
    BY <2>5 DEF CancelTimer
  <2>6. QED
    BY <2>4, <2>5
<1>7. HoldsEvent' = HoldsEvent
  BY <1>2 DEF HoldsEvent
<1>8. /\ superseded' \in 0 .. MaxSuperseded
      /\ HoldsEvent => superseded' = superseded + 1
  BY <1>1, <1>2, <1>3 DEF CountSuperseded
<1>9. ASSUME HoldsEvent PROVE HeldGeneration'
  <2>1. HeldGeneration
    BY <1>9 DEF Timers
  <2>2. event.generation \in 0 .. MaxGeneration
    BY <2>1 DEF HeldGeneration, TimerEvents, Generations
  <2>3. generation' = (IF generation = MaxGeneration THEN 1 ELSE generation + 1)
        /\ superseded' = superseded + 1 /\ event' = event
    BY <1>2, <1>8, <1>9 DEF NextGeneration
  <2>4. superseded < MaxSuperseded
    BY <1>2, <1>9 DEF CountSuperseded
  <2>5. QED
    BY <1>1, <1>3, <2>1, <2>2, <2>3, <2>4 DEF HeldGeneration
<1>10. TimerTypes'
  BY <1>2, <1>4, <1>6, <1>8 DEF Timers, TimerTypes, Generations
<1>11. OneTimer'
  BY <1>2, <1>3, <1>6, <1>7, <1>8 DEF OneTimer
<1>12. QED
  BY <1>2, <1>4, <1>5, <1>7, <1>9, <1>10, <1>11 DEF Timers, NoStaleDispatch

\* The timer state stays coherent at every step: polling and taking hand the
\* one request on, and only an event nothing superseded gets past the check.
LEMMA TimerStep ==
  ASSUME LoaderTypeOK, Control, Timers, [Next]_vars
  PROVE  Timers'
<1>0. MaxGeneration \in Nat /\ MaxSuperseded \in Nat /\ MaxSuperseded < MaxGeneration
  BY RuntimeAssumption
<1>1. ASSUME UNCHANGED <<timerVars, pc, event, superseded>>
      PROVE  Timers'
  BY <1>1
  DEF Timers, TimerTypes, OneTimer, HoldsEvent, HeldGeneration, NoStaleDispatch, timerVars
<1>2. CASE UNCHANGED vars \/ Callback \/ (\E zero \in BOOLEAN : StartReturns(zero))
  BY <1>1, <1>2
  DEF vars, mainVars, Callback, BadPacket, Respond, AcceptReset, StartProgram, StartReturns
<1>3. CASE ScheduleTimer \/ CancelTimer
  BY <1>3, HelperStep
<1>4. CASE DeadlinePasses
  <2>1. /\ pendingTimer \in TimerRequests
        /\ pendingTimer' = [pendingTimer EXCEPT !.due = TRUE]
        /\ pendingTimer # NoTimer
        /\ UNCHANGED <<generation, readyTimer, pc, event, superseded>>
    BY <1>4 DEF DeadlinePasses, Timers, TimerTypes, mainVars
  <2>2. pendingTimer' \in TimerRequests /\ pendingTimer'.generation = pendingTimer.generation
    BY <2>1 DEF TimerRequests
  <2>3. HoldsEvent /\ superseded = 0 => FALSE
    BY <2>1 DEF Timers, OneTimer
  <2>4. QED
    BY <2>1, <2>2, <2>3
    DEF Timers, TimerTypes, OneTimer, HoldsEvent, HeldGeneration, NoStaleDispatch
<1>5. CASE HonourReset \/ PowerLoss
  BY <1>0, <1>5
  DEF HonourReset, PowerLoss, Reboot, Timers, TimerTypes, Generations, OneTimer, HoldsEvent,
      NoStaleDispatch
<1>6. CASE \/ LoopTop \/ CheckPending \/ BusIdle \/ BusBusy \/ Execute \/ ProgramReturns
           \/ Release
  <2>1. /\ pc' \notin {"claim", "current", "metadata", "enter"}
        /\ UNCHANGED <<timerVars, event, superseded>>
    BY <1>6
    DEF LoopTop, CheckPending, BusIdle, BusBusy, Execute, ProgramReturns, Release, Goto
  <2>2. QED
    BY <2>1 DEF Timers, TimerTypes, OneTimer, HoldsEvent, NoStaleDispatch, timerVars
<1>7. CASE Sleep
  BY <1>0, <1>7
  DEF Sleep, Goto, Timers, TimerTypes, OneTimer, HoldsEvent, NoStaleDispatch, timerVars
<1>8. CASE Poll
  <2>1. pc' = "take" /\ UNCHANGED <<generation, event, superseded>>
    BY <1>8 DEF Poll, Goto
  <2>2. CASE TimerDue
    <3>1. pendingTimer \in TimerRequests /\ pendingTimer.generation = generation
          /\ generation >= 1 /\ pendingTimer' = NoTimer
          /\ readyTimer' = [generation |-> pendingTimer.generation,
                            cookie |-> pendingTimer.cookie]
      BY <1>8, <2>2 DEF Poll, TimerDue, Timers, TimerTypes, OneTimer
    <3>2. readyTimer' \in TimerEvents /\ readyTimer'.generation = generation
      BY <3>1 DEF TimerRequests, TimerEvents
    <3>3. QED
      BY <2>1, <3>1, <3>2 DEF Timers, TimerTypes, OneTimer, HoldsEvent, NoStaleDispatch
  <2>3. CASE ~TimerDue
    BY <1>8, <2>1, <2>3
    DEF Poll, Timers, TimerTypes, OneTimer, HoldsEvent, NoStaleDispatch
  <2>4. QED
    BY <2>2, <2>3
<1>9. CASE Take
  <2>1. /\ pc' = (IF readyTimer = NoTimer THEN "wait" ELSE "claim")
        /\ event' = readyTimer /\ readyTimer' = NoTimer /\ superseded' = 0
        /\ UNCHANGED <<generation, pendingTimer>>
    BY <1>9 DEF Take, Goto
  <2>2. generation \in Nat
    BY <1>0 DEF Timers, TimerTypes, Generations
  <2>3. TimerTypes' /\ NoStaleDispatch'
    BY <1>0, <2>1 DEF Timers, TimerTypes, NoStaleDispatch
  <2>4. ASSUME readyTimer # NoTimer
        PROVE  /\ readyTimer \in TimerEvents /\ readyTimer.generation = generation
               /\ generation >= 1 /\ pendingTimer = NoTimer
    BY <2>4 DEF Timers, TimerTypes, OneTimer
  <2>5. QED
    BY <2>1, <2>2, <2>3, <2>4 DEF Timers, OneTimer, HoldsEvent, HeldGeneration
<1>10. CASE Claim
  <2>1. ~bpfActive
    BY <1>10 DEF Claim, Goto, MainRuns, Control, ExclusiveExecution, Claimed
  <2>2. pc = "claim" /\ pc' = "current" /\ UNCHANGED <<timerVars, event, superseded>>
    BY <1>10, <2>1 DEF Claim, Goto, timerVars
  <2>3. QED
    BY <2>2
    DEF Timers, TimerTypes, OneTimer, HoldsEvent, HeldGeneration, NoStaleDispatch, timerVars
<1>11. CASE CheckGeneration
  <2>1. /\ pc = "current" /\ UNCHANGED <<timerVars, event, superseded>>
        /\ pc' = IF generation = event.generation THEN "metadata" ELSE "wait"
    BY <1>11 DEF CheckGeneration, EventIsCurrent, Goto
  <2>2. generation = event.generation => superseded = 0
    <3>1. HeldGeneration /\ superseded \in 0 .. MaxSuperseded
      BY <2>1 DEF Timers, TimerTypes, HoldsEvent
    <3>2. event.generation \in Nat
      BY <1>0, <3>1 DEF HeldGeneration, TimerEvents, Generations
    <3>3. QED
      BY <1>0, <3>1, <3>2 DEF HeldGeneration
  <2>3. QED
    BY <2>1, <2>2
    DEF Timers, TimerTypes, OneTimer, HoldsEvent, HeldGeneration, NoStaleDispatch, timerVars
<1>12. CASE GetMetadata \/ EnterProgram
  <2>1. /\ pc \in {"metadata", "enter"} /\ UNCHANGED <<timerVars, event, superseded>>
    BY <1>12 DEF GetMetadata, EnterProgram
  <2>2. QED
    BY <2>1
    DEF Timers, TimerTypes, OneTimer, HoldsEvent, HeldGeneration, NoStaleDispatch, timerVars
<1>13. QED
  BY <1>2, <1>3, <1>4, <1>5, <1>6, <1>7, <1>8, <1>9, <1>10, <1>11, <1>12 DEF Next, MainLoop, LoopStep

\* The timer's state is coherent from the start on.
THEOREM TimerInvariance == Spec => []Timers
<1>1. Init => Timers
  BY RuntimeAssumption
  DEF Init, RuntimeInit, Timers, TimerTypes, Generations, OneTimer, HoldsEvent, NoStaleDispatch
<1>2. LoaderInvariant /\ Control /\ Timers /\ [Next]_vars => Timers'
  BY TimerStep DEF LoaderInvariant
<1>3. QED
  BY <1>1, <1>2, FirmwareInvariance, PTL DEF Spec

\* An event superseded between its being taken and its dispatch is dropped
\* (execute_timer_event, REQ-OPT-TMR-009).
THEOREM StaleEventsAreDropped == Spec => []NoStaleDispatch
<1>1. Timers => NoStaleDispatch
  BY DEF Timers
<1>2. QED
  BY <1>1, TimerInvariance, PTL

\* Pending, ready or held: one request at a time, the current one
\* (bpf_schedule_timer, poll_timer, take_ready_timer).
THEOREM TimerIsOne == Spec => []OneTimer
<1>1. Timers => OneTimer
  BY DEF Timers
<1>2. QED
  BY <1>1, TimerInvariance, PTL

\* A running image loses an event only to a later schedule or cancel
\* (event_execution_metadata, accepts_load).
THEOREM RunningImageGetsItsEvents == Spec => RunningImageKeepsEvents
<1>1. ASSUME LoaderInvariant, Control, Timers, [Next]_vars,
             state.tag = "Running", HoldsEvent, pc' = "wait"
      PROVE  superseded > 0
  <2>1. CASE Claim
    BY <1>1, <2>1 DEF Claim, Goto, MainRuns, Control, ExclusiveExecution, Claimed
  <2>2. CASE CheckGeneration
    <3>1. generation # event.generation
      BY <1>1, <2>2 DEF CheckGeneration, EventIsCurrent, Goto
    <3>2. QED
      BY <1>1, <3>1, RuntimeAssumption DEF Timers, TimerTypes, OneTimer
  <2>3. CASE GetMetadata
    <3>1. ImageCanRun
      BY <1>1
      DEF LoaderInvariant, Safety, RunningIsIdle, ImageCanRun, EventVerdict, QueryVerdict,
          HasImage
    <3>2. QED
      BY <1>1, <2>3, <3>1 DEF GetMetadata, Goto
  <2>4. CASE EnterProgram \/ Sleep \/ HonourReset \/ PowerLoss
    BY <1>1, <2>4 DEF EnterProgram, Sleep, HonourReset, PowerLoss, Reboot, Goto
  <2>5. CASE \/ LoopTop \/ CheckPending \/ BusIdle \/ BusBusy \/ Execute \/ Poll \/ Take
             \/ ProgramReturns \/ Release
    BY <1>1, <2>5
    DEF LoopTop, CheckPending, BusIdle, BusBusy, Execute, Poll, Take, ProgramReturns,
        Release, HoldsEvent
  <2>6. CASE \/ UNCHANGED vars \/ Callback \/ (\E zero \in BOOLEAN : StartReturns(zero))
             \/ ScheduleTimer \/ CancelTimer \/ DeadlinePasses
    <3>1. pc' = pc
      BY <2>6
      DEF vars, mainVars, Callback, BadPacket, Respond, AcceptReset, StartProgram,
          StartReturns, ScheduleTimer, CancelTimer, DeadlinePasses
    <3>2. QED
      BY <1>1, <3>1 DEF HoldsEvent
  <2>7. QED
    BY <1>1, <2>1, <2>2, <2>3, <2>4, <2>5, <2>6 DEF Next, MainLoop, LoopStep
<1>2. LoaderInvariant /\ Control /\ Timers /\ [Next]_vars =>
        [state.tag = "Running" /\ HoldsEvent /\ pc' = "wait" => superseded > 0]_vars
  BY <1>1
<1>3. QED
  BY <1>2, FirmwareInvariance, TimerInvariance, PTL DEF Spec, RunningImageKeepsEvents

-----------------------------------------------------------------------------
(* The timer is a one-shot timer.                                          *)

ProgramOfEvent == IF pc = "run" THEN event.cookie ELSE NoTimer
Calling == isr = "start"
Serving == state.tag = "Running"
OneShotStep == [OneShot!TimerNext]_(OneShot!timerVars)

\* A step that leaves the request and the program where they are.
LEMMA TimerUnseen ==
  ASSUME TimerRequested' = TimerRequested, TimerExpired' = TimerExpired,
         ProgramOfEvent' = ProgramOfEvent, Calling' = Calling, Serving' = Serving
  PROVE  OneShotStep
BY DEF OneShotStep, OneShot!timerVars, ProgramOfEvent, Calling, Serving

\* A step that does not touch the timer, the main loop, the callback's program
\* or the loader's state.
LEMMA TimerUntouched ==
  ASSUME UNCHANGED <<pendingTimer, readyTimer, isr, pc, event, superseded, state>>
  PROVE  OneShotStep
<1>1. TimerRequested' = TimerRequested /\ TimerExpired' = TimerExpired
  BY DEF TimerRequested, TimerExpired, HoldsEvent
<1>2. ProgramOfEvent' = ProgramOfEvent /\ Calling' = Calling /\ Serving' = Serving
  BY DEF ProgramOfEvent, Calling, Serving
<1>3. QED
  BY <1>1, <1>2, TimerUnseen

\* A step of the main loop between two places where it neither holds an event
\* nor runs a program.
LEMMA TimerElsewhere ==
  ASSUME UNCHANGED <<pendingTimer, readyTimer, isr>>, Serving' = Serving,
         ~HoldsEvent, ~HoldsEvent', pc # "run", pc' # "run"
  PROVE  OneShotStep
<1>1. TimerRequested' = TimerRequested /\ TimerExpired' = TimerExpired
  BY DEF TimerRequested, TimerExpired
<1>2. ProgramOfEvent' = ProgramOfEvent /\ Calling' = Calling
  BY DEF ProgramOfEvent, Calling
<1>3. QED
  BY <1>1, <1>2, TimerUnseen

\* A program of an event is an event's.
LEMMA ProgramRunsAnEvent == Spec => [](pc = "run" => event \in TimerEvents)
<1> DEFINE AtHand == pc = "run" => event \in TimerEvents
<1>1. Init => AtHand
  BY DEF Init, RuntimeInit
<1>2. ASSUME Timers, AtHand, [Next]_vars PROVE AtHand'
  <2>1. CASE EnterProgram
    BY <1>2, <2>1 DEF EnterProgram, Timers, HoldsEvent, HeldGeneration
  <2>2. CASE \/ LoopTop \/ CheckPending \/ BusIdle \/ BusBusy \/ Execute \/ Poll \/ Take
             \/ Claim \/ CheckGeneration \/ GetMetadata \/ ProgramReturns \/ Release
             \/ Sleep \/ HonourReset \/ PowerLoss
    <3>1. pc' # "run"
      BY <2>2
      DEF LoopTop, CheckPending, BusIdle, BusBusy, Execute, Poll, Take, Claim,
          CheckGeneration, GetMetadata, ProgramReturns, Release, Sleep, HonourReset,
          PowerLoss, Reboot, Goto
    <3>2. QED
      BY <3>1
  <2>3. CASE \/ UNCHANGED vars \/ Callback \/ (\E zero \in BOOLEAN : StartReturns(zero))
             \/ ScheduleTimer \/ CancelTimer \/ DeadlinePasses
    <3>1. UNCHANGED <<pc, event>>
      BY <2>3
      DEF vars, mainVars, Callback, BadPacket, Respond, AcceptReset, StartProgram,
          StartReturns, ScheduleTimer, CancelTimer, DeadlinePasses
    <3>2. QED
      BY <1>2, <3>1
  <2>4. QED
    BY <1>2, <2>1, <2>2, <2>3 DEF Next, MainLoop, LoopStep
<1> HIDE DEF AtHand
<1>3. Timers /\ AtHand /\ [Next]_vars => AtHand'
  BY <1>2
<1>4. Spec => []AtHand
  BY <1>1, <1>3, TimerInvariance, PTL DEF Spec
<1>5. QED
  BY <1>4 DEF AtHand

\* No program runs while the callback is idle and the main loop is elsewhere.
LEMMA NoProgramRuns ==
  ASSUME ~Calling, pc # "run"
  PROVE  ~OneShot!ProgramRuns
BY DEF Calling, OneShot!ProgramRuns

\* A Start that is granted calls an image that is not running, into no program.
LEMMA StartCalls ==
  ASSUME LoaderInvariant, Control, NEW req \in Requests, StartProgram(req)
  PROVE  OneShotStep
<1>1. UNCHANGED <<pendingTimer, readyTimer, pc, event, superseded, state>>
  BY DEF StartProgram, timerVars, mainVars, loaderVars
<1>2. /\ TimerRequested' = TimerRequested /\ TimerExpired' = TimerExpired
      /\ ProgramOfEvent' = ProgramOfEvent /\ Serving' = Serving
  BY <1>1 DEF TimerRequested, TimerExpired, HoldsEvent, ProgramOfEvent, Serving
<1>3. ~Calling /\ Calling' = TRUE
  BY DEF StartProgram, Calling
<1>4. Answer(req) = "run"
  BY DEF StartProgram
<1>5. ~bpfActive /\ ExecutionVerdict = "OK"
  BY <1>4, AnswerKinds DEF LoaderInvariant
<1>6. pc # "run"
  BY <1>5 DEF Control, ExclusiveExecution, Claimed
<1>7. ~Serving
  BY <1>5 DEF LoaderInvariant, Safety, RunningIsIdle, ExecutionVerdict, Serving
<1>8. ~OneShot!ProgramRuns
  BY <1>3, <1>6, NoProgramRuns
<1>9. QED
  BY <1>2, <1>3, <1>7, <1>8
  DEF OneShotStep, OneShot!TimerNext, OneShot!Call, ProgramOfEvent, Calling, Serving

\* The program of a Start is marked running, or the state stays.
LEMMA ReturnServes ==
  ASSUME NEW zero \in BOOLEAN, StartReturns(zero)
  PROVE  OneShotStep
<1>1. UNCHANGED <<pendingTimer, readyTimer, pc, event, superseded>>
  BY DEF StartReturns, timerVars, mainVars
<1>2. /\ TimerRequested' = TimerRequested /\ TimerExpired' = TimerExpired
      /\ ProgramOfEvent' = ProgramOfEvent
  BY <1>1 DEF TimerRequested, TimerExpired, HoldsEvent, ProgramOfEvent
<1>3. Calling /\ Calling' = FALSE
  BY DEF StartReturns, Calling
<1>4. state' = state \/ state' = Running(state.crc)
  BY DEF StartReturns, MarkRunning, loaderVars
<1>5. Serving' = Serving \/ Serving' = TRUE
  <2>1. CASE state' = state
    BY <2>1 DEF Serving
  <2>2. CASE state' = Running(state.crc)
    BY <2>2 DEF Serving, Running
  <2>3. QED
    BY <1>4, <2>1, <2>2
<1>6. QED
  BY <1>2, <1>3, <1>5
  DEF OneShotStep, OneShot!TimerNext, OneShot!CallReturns, ProgramOfEvent, Calling, Serving

\* A schedule puts its request in the place of the one that stands, wherever
\* that is; a cancel leaves none.
LEMMA HelperReplaces ==
  ASSUME LoaderTypeOK, Timers, pc = "run" => event \in TimerEvents,
         ScheduleTimer \/ CancelTimer
  PROVE  OneShotStep
<1>1. /\ UNCHANGED <<isr, pc, event, state>> /\ readyTimer' = NoTimer /\ Executing
      /\ HoldsEvent => superseded' = superseded + 1
      /\ superseded \in Nat
  BY RuntimeAssumption
  DEF ScheduleTimer, CancelTimer, loaderVars, CountSuperseded, Timers, TimerTypes
<1>2. ProgramOfEvent' = ProgramOfEvent /\ Calling' = Calling /\ Serving' = Serving
  BY <1>1 DEF ProgramOfEvent, Calling, Serving
<1>0. OneShot!ProgramRuns
  <2>1. CASE isr = "start"
    BY <2>1 DEF OneShot!ProgramRuns
  <2>2. CASE pc = "run"
    <3>1. event.cookie # NoTimer
      BY <2>2, TimerAssumption DEF TimerEvents
    <3>2. QED
      BY <2>2, <3>1 DEF OneShot!ProgramRuns
  <2>3. QED
    BY <1>1, <2>1, <2>2 DEF Executing
<1>3. CASE ScheduleTimer
  <2>1. state.crc \in Seq(Units) /\ NextGeneration \in Generations
    BY RuntimeAssumption
    DEF LoaderTypeOK, LoaderStates, NextGeneration, Generations, Timers, TimerTypes
  <2>2. pendingTimer' = [generation |-> NextGeneration, cookie |-> state.crc, due |-> FALSE]
    BY <1>3 DEF ScheduleTimer
  <2>3. pendingTimer' \in TimerRequests
    BY <2>1, <2>2 DEF TimerRequests
  <2>4. pendingTimer' # NoTimer /\ pendingTimer'.cookie = state.crc /\ pendingTimer'.due = FALSE
    BY <2>2, <2>3, TimerAssumption
  <2>5. TimerRequested' \in Seq(Units) /\ TimerExpired' = FALSE
    BY <2>1, <2>4 DEF TimerRequested, TimerExpired
  <2>6. QED
    BY <1>0, <1>2, <2>5
    DEF OneShotStep, OneShot!TimerNext, OneShot!Schedule, ProgramOfEvent, Calling, Serving
<1>4. CASE CancelTimer
  <2>1. pendingTimer' = NoTimer
    BY <1>4 DEF CancelTimer
  <2>2. ~(HoldsEvent' /\ superseded' = 0)
    BY <1>1 DEF HoldsEvent
  <2>3. TimerRequested' = NoTimer
    BY <1>1, <2>1, <2>2 DEF TimerRequested
  <2>4. TimerExpired' = FALSE
    BY <2>1, <2>3 DEF TimerExpired
  <2>5. QED
    BY <1>0, <1>2, <2>3, <2>4
    DEF OneShotStep, OneShot!TimerNext, OneShot!Cancel, ProgramOfEvent, Calling, Serving
<1>5. QED
  BY <1>3, <1>4

\* The deadline of the pending request passes.
LEMMA DeadlineExpires ==
  ASSUME Timers, DeadlinePasses
  PROVE  OneShotStep
<1>1. /\ pendingTimer \in TimerRequests /\ pendingTimer # NoTimer
      /\ pendingTimer' = [pendingTimer EXCEPT !.due = TRUE]
      /\ UNCHANGED <<isr, pc, event, state>>
  BY DEF DeadlinePasses, Timers, TimerTypes, mainVars, loaderVars
<1>2. /\ pendingTimer' \in TimerRequests /\ pendingTimer'.due = TRUE
      /\ pendingTimer'.cookie = pendingTimer.cookie /\ pendingTimer.cookie \in Seq(Units)
  BY <1>1 DEF TimerRequests
<1>3. pendingTimer' # NoTimer /\ pendingTimer.cookie # NoTimer
  BY <1>2, TimerAssumption
<1>4. TimerRequested # NoTimer /\ TimerRequested' = TimerRequested /\ TimerExpired' = TRUE
  BY <1>1, <1>2, <1>3 DEF TimerRequested, TimerExpired
<1>5. ProgramOfEvent' = ProgramOfEvent /\ Calling' = Calling /\ Serving' = Serving
  BY <1>1 DEF ProgramOfEvent, Calling, Serving
<1>6. QED
  BY <1>4, <1>5
  DEF OneShotStep, OneShot!TimerNext, OneShot!Expire, ProgramOfEvent, Calling, Serving

\* A reboot forgets the request and the program.
LEMMA RebootForgets ==
  ASSUME HonourReset \/ PowerLoss
  PROVE  OneShotStep
<1>1. PICK f : Reboot(f)
  BY DEF HonourReset, PowerLoss
<1>2. pendingTimer' = NoTimer /\ readyTimer' = NoTimer /\ isr' = "idle" /\ pc' = "top" /\ Boot(f)
  BY <1>1 DEF Reboot
<1>3. TimerRequested' = NoTimer
  BY <1>2 DEF TimerRequested, HoldsEvent
<1>4. TimerExpired' = FALSE
  BY <1>2, <1>3 DEF TimerExpired
<1>5. ProgramOfEvent' = NoTimer /\ Calling' = FALSE
  BY <1>2 DEF ProgramOfEvent, Calling
<1>6. Serving' = FALSE
  <2>1. state'.tag # "Running"
    BY <1>2 DEF Boot, BootCommitted, BootEmpty, BootUnreadable, NoImageAtBoot, Committed, Empty, Failed
  <2>2. QED
    BY <2>1 DEF Serving
<1>7. QED
  BY <1>3, <1>4, <1>5, <1>6
  DEF OneShotStep, OneShot!TimerNext, OneShot!Reboot, ProgramOfEvent, Calling, Serving

\* The loader's operations neither serve an image nor stop one that is served.
LEMMA ExecuteServesNothing ==
  ASSUME LoaderInvariant, Execute
  PROVE  OneShotStep
<1>1. /\ UNCHANGED <<pendingTimer, readyTimer, isr>> /\ pc = "execute" /\ pc' = "poll"
  BY DEF Execute, Goto, timerVars
<1>2. ~HoldsEvent /\ ~HoldsEvent' /\ pc # "run" /\ pc' # "run"
  BY <1>1 DEF HoldsEvent
<1>3. Serving' = Serving
  <2>1. CASE pending = NoOperation
    BY <2>1 DEF Execute, loaderVars, Serving
  <2>2. CASE pending # NoOperation
    <3>1. ~Serving
      BY <2>2 DEF LoaderInvariant, Safety, RunningIsIdle, Serving
    <3>2. ExecutePending
      BY <2>2 DEF Execute
    <3>3. state' = state \/ state'.tag # "Running"
      BY <3>2
      DEF ExecutePending, Begin, BeginFails, Data, DataFails, Commit, FinalizeBadCrc,
          FinalizeBadMaps, FinalizeFlashError, FinalizeFails, Receiving, Committed, Failed
    <3>4. QED
      BY <3>1, <3>3 DEF Serving
  <2>3. QED
    BY <2>1, <2>2
<1>4. QED
  BY <1>1, <1>2, <1>3, TimerElsewhere

\* A request that is due becomes the ready event: it is the same request.
LEMMA PollHandsOn ==
  ASSUME Timers, Poll
  PROVE  OneShotStep
<1>1. pc = "poll" /\ pc' = "take" /\ UNCHANGED <<isr, event, state>>
  BY DEF Poll, Goto, loaderVars
<1>2. ProgramOfEvent' = ProgramOfEvent /\ Calling' = Calling /\ Serving' = Serving
  BY <1>1 DEF ProgramOfEvent, Calling, Serving
<1>3. ~HoldsEvent /\ ~HoldsEvent'
  BY <1>1 DEF HoldsEvent
<1>4. CASE TimerDue
  <2>1. /\ pendingTimer \in TimerRequests /\ pendingTimer # NoTimer /\ pendingTimer.due
        /\ pendingTimer' = NoTimer
        /\ readyTimer' = [generation |-> pendingTimer.generation, cookie |-> pendingTimer.cookie]
    BY <1>4 DEF Poll, TimerDue, Timers, TimerTypes
  <2>2. pendingTimer.cookie \in Seq(Units) /\ readyTimer' \in TimerEvents
    BY <2>1 DEF TimerRequests, TimerEvents
  <2>3. pendingTimer.cookie # NoTimer /\ readyTimer' # NoTimer
    BY <2>2, TimerAssumption
  <2>4. readyTimer'.cookie = pendingTimer.cookie
    BY <2>1
  <2>5. TimerRequested = pendingTimer.cookie /\ TimerRequested' = pendingTimer.cookie
    BY <2>1, <2>3, <2>4 DEF TimerRequested
  <2>6. TimerExpired /\ TimerExpired' = TRUE
    BY <2>1, <2>3, <2>5 DEF TimerExpired
  <2>7. pendingTimer.due = TRUE
    BY <2>1 DEF TimerRequests
  <2>8. TimerExpired = TRUE
    BY <2>1, <2>7 DEF TimerExpired
  <2>9. QED
    BY <1>2, <2>5, <2>6, <2>8, TimerUnseen
<1>5. CASE ~TimerDue
  <2>1. UNCHANGED <<pendingTimer, readyTimer>>
    BY <1>5 DEF Poll
  <2>2. QED
    BY <1>1, <1>2, <1>3, <2>1, TimerElsewhere
<1>6. QED
  BY <1>4, <1>5

\* The main loop takes the ready event: it is the same request.
LEMMA TakeHandsOn ==
  ASSUME Timers, Take
  PROVE  OneShotStep
<1>1. /\ pc = "take" /\ pc' = (IF readyTimer = NoTimer THEN "wait" ELSE "claim")
      /\ event' = readyTimer /\ readyTimer' = NoTimer /\ superseded' = 0
      /\ UNCHANGED <<pendingTimer, isr, state>>
  BY DEF Take, Goto, loaderVars
<1>2. ProgramOfEvent' = ProgramOfEvent /\ Calling' = Calling /\ Serving' = Serving
  BY <1>1 DEF ProgramOfEvent, Calling, Serving
<1>3. ~HoldsEvent
  BY <1>1 DEF HoldsEvent
<1>4. CASE readyTimer = NoTimer
  <2>1. /\ UNCHANGED <<pendingTimer, readyTimer, isr>>
        /\ ~HoldsEvent' /\ pc # "run" /\ pc' # "run"
    BY <1>1, <1>4 DEF HoldsEvent
  <2>2. QED
    BY <1>2, <1>3, <2>1, TimerElsewhere
<1>5. CASE readyTimer # NoTimer
  <2>1. pendingTimer = NoTimer
    BY <1>5 DEF Timers, OneTimer
  <2>2. HoldsEvent' /\ superseded' = 0
    BY <1>1, <1>5 DEF HoldsEvent
  <2>3. TimerRequested = readyTimer.cookie /\ TimerRequested' = readyTimer.cookie
    BY <1>1, <1>5, <2>1, <2>2 DEF TimerRequested
  <2>4. TimerExpired' = TimerExpired
    BY <1>1, <2>1, <2>3 DEF TimerExpired
  <2>5. QED
    BY <1>2, <2>3, <2>4, TimerUnseen
<1>6. QED
  BY <1>4, <1>5

\* An event that is held stays the request that stands until its program
\* begins, and one that is given up had been replaced, or finds no image.
LEMMA HeldIsDelivered ==
  ASSUME LoaderInvariant, Control, Timers,
         Claim \/ CheckGeneration \/ GetMetadata \/ EnterProgram
  PROVE  OneShotStep
<1>1. /\ UNCHANGED <<event, superseded, pendingTimer, isr, state>>
      /\ pc \in {"claim", "current", "metadata", "enter"}
      /\ isr = "idle"
  BY DEF Claim, CheckGeneration, GetMetadata, EnterProgram, Goto, MainRuns, loaderVars, timerVars
<1>2. /\ HoldsEvent /\ event \in TimerEvents
      /\ superseded = 0 =>
           pendingTimer = NoTimer /\ readyTimer = NoTimer /\ event.generation = generation
  BY <1>1 DEF HoldsEvent, Timers, HeldGeneration, OneTimer
<1>3. event.cookie \in Seq(Units) /\ event.cookie # NoTimer
  BY <1>2, TimerAssumption DEF TimerEvents
<1>4. Calling' = Calling /\ Serving' = Serving /\ ~OneShot!ProgramRuns
  BY <1>1, NoProgramRuns DEF Calling, Serving
<1>5. readyTimer' = readyTimer
  <2>1. CASE Claim
    <3>1. ~bpfActive
      BY <2>1 DEF Claim, Goto, MainRuns, Control, ExclusiveExecution, Claimed
    <3>2. QED
      BY <2>1, <3>1 DEF Claim
  <2>2. CASE CheckGeneration \/ GetMetadata \/ EnterProgram
    BY <2>2 DEF CheckGeneration, GetMetadata, EnterProgram, timerVars
  <2>3. QED
    BY <2>1, <2>2
<1>6. ASSUME HoldsEvent', pc' # "run" PROVE OneShotStep
  <2>1. TimerRequested' = TimerRequested
    BY <1>1, <1>2, <1>5, <1>6 DEF TimerRequested
  <2>2. TimerExpired' = TimerExpired
    BY <1>1, <2>1 DEF TimerExpired
  <2>3. ProgramOfEvent' = ProgramOfEvent
    BY <1>1, <1>6 DEF ProgramOfEvent
  <2>4. QED
    BY <1>4, <2>1, <2>2, <2>3, TimerUnseen
<1>7. ASSUME superseded = 0, ~HoldsEvent'
      PROVE  /\ TimerRequested = event.cookie /\ TimerExpired = TRUE
             /\ TimerRequested' = NoTimer /\ TimerExpired' = FALSE
  <2>1. TimerRequested = event.cookie /\ TimerRequested' = NoTimer
    BY <1>1, <1>2, <1>5, <1>7 DEF TimerRequested
  <2>2. QED
    BY <1>1, <1>2, <1>3, <1>7, <2>1 DEF TimerExpired
<1>8. CASE Claim
  <2>1. pc' = "current"
    BY <1>8 DEF Claim, Goto, MainRuns, Control, ExclusiveExecution, Claimed
  <2>2. QED
    BY <1>6, <2>1 DEF HoldsEvent
<1>9. CASE CheckGeneration
  <2>1. pc = "current" /\ pc' = IF generation = event.generation THEN "metadata" ELSE "wait"
    BY <1>9 DEF CheckGeneration, EventIsCurrent, Goto
  <2>2. CASE generation = event.generation
    BY <1>6, <2>1, <2>2 DEF HoldsEvent
  <2>3. CASE generation # event.generation
    <3>1. superseded # 0 /\ pc' = "wait"
      BY <1>2, <2>1, <2>3
    <3>2. TimerRequested' = TimerRequested
      BY <1>1, <1>5, <3>1 DEF TimerRequested
    <3>3. TimerExpired' = TimerExpired
      BY <1>1, <3>2 DEF TimerExpired
    <3>4. ProgramOfEvent' = ProgramOfEvent
      BY <2>1, <3>1 DEF ProgramOfEvent
    <3>5. QED
      BY <1>4, <3>2, <3>3, <3>4, TimerUnseen
  <2>4. QED
    BY <2>2, <2>3
<1>10. CASE GetMetadata
  <2>1. pc = "metadata" /\ pc' = IF ImageCanRun THEN "enter" ELSE "wait"
    BY <1>10 DEF GetMetadata, Goto
  <2>2. CASE ImageCanRun
    BY <1>6, <2>1, <2>2 DEF HoldsEvent
  <2>3. CASE ~ImageCanRun
    <3>1. superseded = 0
      BY <2>1 DEF Timers, NoStaleDispatch
    <3>2. Serving = FALSE
      BY <2>3
      DEF LoaderInvariant, Safety, RunningIsIdle, ImageCanRun, EventVerdict, QueryVerdict,
          HasImage, Serving
    <3>3. ~HoldsEvent' /\ ProgramOfEvent' = ProgramOfEvent
      BY <2>1, <2>3 DEF HoldsEvent, ProgramOfEvent
    <3>4. QED
      BY <1>4, <1>7, <3>1, <3>2, <3>3
      DEF OneShotStep, OneShot!TimerNext, OneShot!Drop, ProgramOfEvent, Calling, Serving
  <2>4. QED
    BY <2>2, <2>3
<1>11. CASE EnterProgram
  <2>1. pc = "enter" /\ pc' = "run"
    BY <1>11 DEF EnterProgram, Goto
  <2>2. superseded = 0 /\ ~HoldsEvent'
    BY <2>1 DEF Timers, NoStaleDispatch, HoldsEvent
  <2>3. ProgramOfEvent = NoTimer /\ ProgramOfEvent' = event.cookie
    BY <1>1, <2>1 DEF ProgramOfEvent
  <2>4. QED
    BY <1>3, <1>4, <1>7, <2>2, <2>3
    DEF OneShotStep, OneShot!TimerNext, OneShot!Deliver, ProgramOfEvent, Calling, Serving
<1>12. QED
  BY <1>8, <1>9, <1>10, <1>11

\* The program of an event returns.
LEMMA ReturnEnds ==
  ASSUME pc = "run" => event \in TimerEvents, ProgramReturns
  PROVE  OneShotStep
<1>1. pc = "run" /\ pc' = "release" /\ UNCHANGED <<pendingTimer, readyTimer, isr, state>>
  BY DEF ProgramReturns, Goto, timerVars, loaderVars
<1>2. TimerRequested' = TimerRequested /\ TimerExpired' = TimerExpired
  BY <1>1 DEF TimerRequested, TimerExpired, HoldsEvent
<1>3. ProgramOfEvent' = NoTimer /\ Calling' = Calling /\ Serving' = Serving
  BY <1>1 DEF ProgramOfEvent, Calling, Serving
<1>4. ProgramOfEvent # NoTimer
  BY <1>1, TimerAssumption DEF ProgramOfEvent, TimerEvents
<1>5. QED
  BY <1>2, <1>3, <1>4
  DEF OneShotStep, OneShot!TimerNext, OneShot!Return, ProgramOfEvent, Calling, Serving

\* The firmware's timer is a one-shot timer, for every program and every
\* interleaving with the callback: one request, replaced or cancelled at any
\* time before its program begins, delivered at most once, when it is due, and
\* with its own cookie (REQ-OPT-TMR-001, -005, -006, -007 and -009).
THEOREM FirmwareImplementsOneShotTimer == Spec => ImplementsOneShotTimer
<1>1. Init => OneShot!TimerInit
  <2> SUFFICES ASSUME Init PROVE OneShot!TimerInit
    OBVIOUS
  <2>1. /\ pendingTimer = NoTimer /\ readyTimer = NoTimer
        /\ isr = "idle" /\ pc = "top" /\ state = Empty
    BY DEF Init, RuntimeInit, LoaderInit
  <2>2. TimerRequested = NoTimer
    BY <2>1 DEF TimerRequested, HoldsEvent
  <2>3. TimerExpired = FALSE
    BY <2>1, <2>2 DEF TimerExpired
  <2>4. QED
    BY <2>1, <2>2, <2>3 DEF OneShot!TimerInit, Empty
<1>2. ASSUME LoaderInvariant, Control, Timers, pc = "run" => event \in TimerEvents,
             [Next]_vars
      PROVE  OneShotStep
  <2>1. CASE \/ UNCHANGED vars \/ BadPacket
             \/ \E req \in Requests : Respond(req) \/ AcceptReset(req)
    <3>1. UNCHANGED <<pendingTimer, readyTimer, isr, pc, event, superseded, state>>
      BY <2>1
      DEF vars, BadPacket, Respond, AcceptReset, AcceptLoad, loaderVars, timerVars, mainVars
    <3>2. QED
      BY <3>1, TimerUntouched
  <2>0. CASE \E req \in Requests : StartProgram(req)
    BY <1>2, <2>0, StartCalls
  <2>2. CASE \E zero \in BOOLEAN : StartReturns(zero)
    BY <2>2, ReturnServes
  <2>3. CASE ScheduleTimer \/ CancelTimer
    BY <1>2, <2>3, HelperReplaces DEF LoaderInvariant
  <2>4. CASE DeadlinePasses
    BY <1>2, <2>4, DeadlineExpires
  <2>5. CASE HonourReset \/ PowerLoss
    BY <2>5, RebootForgets
  <2>6. CASE LoopTop \/ CheckPending \/ BusIdle \/ BusBusy \/ Release \/ Sleep
    <3>1. /\ UNCHANGED <<pendingTimer, readyTimer, isr, state>>
          /\ pc \in {"top", "check", "idle", "release", "wait"}
          /\ pc' \in {"top", "check", "idle", "execute", "wait"}
      BY <2>6
      DEF LoopTop, CheckPending, BusIdle, BusBusy, Release, Sleep, Goto, timerVars, loaderVars
    <3>2. ~HoldsEvent /\ ~HoldsEvent' /\ pc # "run" /\ pc' # "run" /\ Serving' = Serving
      BY <3>1 DEF HoldsEvent, Serving
    <3>3. QED
      BY <3>1, <3>2, TimerElsewhere
  <2>7. CASE Execute
    BY <1>2, <2>7, ExecuteServesNothing
  <2>8. CASE Poll
    BY <1>2, <2>8, PollHandsOn
  <2>9. CASE Take
    BY <1>2, <2>9, TakeHandsOn
  <2>10. CASE Claim \/ CheckGeneration \/ GetMetadata \/ EnterProgram
    BY <1>2, <2>10, HeldIsDelivered
  <2>11. CASE ProgramReturns
    BY <1>2, <2>11, ReturnEnds
  <2>12. QED
    BY <1>2, <2>0, <2>1, <2>2, <2>3, <2>4, <2>5, <2>6, <2>7, <2>8, <2>9, <2>10, <2>11
    DEF Next, Callback, MainLoop, LoopStep
<1>3. LoaderInvariant /\ Control /\ Timers /\ (pc = "run" => event \in TimerEvents)
        /\ [Next]_vars => [OneShot!TimerNext]_(OneShot!timerVars)
  BY <1>2 DEF OneShotStep
<1>4. QED
  BY <1>1, <1>3, FirmwareInvariance, TimerInvariance, ProgramRunsAnEvent, PTL
  DEF Spec, ImplementsOneShotTimer, OneShot!TimerSpec

-----------------------------------------------------------------------------
(* The link.                                                               *)

LinkTypes ==
  /\ statusReady \in BOOLEAN
  /\ response \in {"none", "OK", "ready"} \cup Refusals
  /\ resetPending \in BOOLEAN

\* Whatever the callback leaves in the response slot is a status.
LEMMA LinkStep ==
  ASSUME LoaderTypeOK, LinkTypes, [Next]_vars
  PROVE  LinkTypes'
<1> USE DEF LinkTypes
<1>1. ASSUME NEW req \in Requests, Respond(req)
      PROVE  LinkTypes'
  <2>1. response' \in {"OK", "ready"} \cup Refusals
    BY <1>1, AnswerKinds DEF Respond
  <2>2. statusReady' \in BOOLEAN /\ resetPending' = resetPending
    BY <1>1 DEF Respond
  <2>3. QED
    BY <2>1, <2>2
<1>2. ASSUME NEW req \in Requests, AcceptReset(req) \/ StartProgram(req)
      PROVE  LinkTypes'
  BY <1>2 DEF AcceptReset, StartProgram, linkVars
<1>3. CASE BadPacket
  BY <1>3 DEF BadPacket
<1>4. ASSUME NEW zero \in BOOLEAN, StartReturns(zero)
      PROVE  LinkTypes'
  BY <1>4 DEF StartReturns, Refusals
<1>5. CASE HonourReset \/ PowerLoss
  BY <1>5 DEF HonourReset, PowerLoss, Reboot
<1>6. CASE UNCHANGED vars
  BY <1>6 DEF vars, linkVars
<1>7. ASSUME UNCHANGED linkVars PROVE LinkTypes'
  BY <1>7 DEF linkVars
<1>8. CASE ScheduleTimer \/ CancelTimer \/ DeadlinePasses
  BY <1>7, <1>8 DEF ScheduleTimer, CancelTimer, DeadlinePasses
<1>9. CASE LoopTop \/ CheckPending \/ BusIdle \/ BusBusy \/ Execute \/ Poll \/ Take
  BY <1>7, <1>9 DEF LoopTop, CheckPending, BusIdle, BusBusy, Execute, Poll, Take
<1>10. CASE \/ Claim \/ CheckGeneration \/ GetMetadata \/ EnterProgram \/ ProgramReturns
            \/ Release \/ Sleep
  BY <1>7, <1>10
  DEF Claim, CheckGeneration, GetMetadata, EnterProgram, ProgramReturns, Release, Sleep,
      linkVars, bpfVars
<1>11. QED
  BY <1>1, <1>2, <1>3, <1>4, <1>5, <1>6, <1>8, <1>9, <1>10 DEF Next, Callback, MainLoop, LoopStep

\* The startup status goes with the answer that carries it or with a reboot,
\* which posts it again (StatusQueue::pop, on_i2c_packet).
THEOREM StatusIsNotLost == Spec => StatusNotLost
<1>1. ASSUME [Next]_vars, statusReady, ~statusReady'
      PROVE  response' = "ready"
  <2>1. ASSUME NEW req \in Requests, Respond(req)
        PROVE  response' = "ready"
    BY <1>1, <2>1 DEF Respond
  <2>2. CASE HonourReset \/ PowerLoss
    BY <1>1, <2>2 DEF HonourReset, PowerLoss, Reboot
  <2>3. CASE \/ BadPacket
             \/ \E req \in Requests : AcceptReset(req) \/ StartProgram(req)
             \/ \E zero \in BOOLEAN : StartReturns(zero)
    BY <1>1, <2>3 DEF BadPacket, AcceptReset, StartProgram, StartReturns, linkVars
  <2>4. ASSUME UNCHANGED linkVars PROVE response' = "ready"
    BY <1>1, <2>4 DEF linkVars
  <2>5. CASE \/ UNCHANGED vars \/ ScheduleTimer \/ CancelTimer \/ DeadlinePasses
             \/ BusIdle \/ BusBusy \/ ProgramReturns \/ LoopStep
    BY <2>4, <2>5
    DEF vars, ScheduleTimer, CancelTimer, DeadlinePasses, BusIdle, BusBusy, ProgramReturns,
        LoopStep, LoopTop, CheckPending, Execute, Poll, Take, Claim, CheckGeneration,
        GetMetadata, EnterProgram, Release, Sleep
  <2>6. QED
    BY <1>1, <2>1, <2>2, <2>3, <2>5 DEF Next, Callback, MainLoop
<1>2. [Next]_vars => [statusReady /\ ~statusReady' => response' = "ready"]_vars
  BY <1>1
<1>3. QED
  BY <1>2, PTL DEF Spec, StatusNotLost

\* Every part of the firmware's state has its type.
THEOREM FirmwareTypeCorrect == Spec => []TypeOK
<1>1. Init => LinkTypes
  BY DEF Init, RuntimeInit, LinkTypes
<1>2. LoaderInvariant /\ LinkTypes /\ [Next]_vars => LinkTypes'
  BY LinkStep DEF LoaderInvariant
<1>3. LoaderInvariant /\ Control /\ Timers /\ LinkTypes => TypeOK
  BY DEF LoaderInvariant, Control, Timers, TimerTypes, LinkTypes, TypeOK
<1>4. QED
  BY <1>1, <1>2, <1>3, FirmwareInvariance, TimerInvariance, PTL DEF Spec
=============================================================================
