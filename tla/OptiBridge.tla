----------------------------- MODULE OptiBridge -----------------------------
(***************************************************************************)
(* The OptiBridge target firmware: the main loop, the I2C packet callback  *)
(* and the BPF programs they run, around the loader of BpfLoader.          *)
(*                                                                         *)
(* One hart.  The main loop runs in thread mode; the callback is an        *)
(* interrupt that can come between any two critical sections of the main   *)
(* loop and runs to its end before the main loop goes on.  A step is one   *)
(* critical section, one atomic access, or one helper call of a program.   *)
(* Start BPF runs the interpreter inside the callback, a timer event runs  *)
(* it on the main loop with interrupts enabled; neither has a budget.      *)
(*                                                                         *)
(* Time is a deadline that has passed or not.  A program is the image it   *)
(* is made of, so its cookie names the image that scheduled the timer.     *)
(***************************************************************************)
EXTENDS BpfLoader, MapAccess

CONSTANTS
  HostCommands,    \* the commands the host of an instance sends
  MaxGeneration,   \* u32::MAX
  MaxSuperseded,   \* bound: helper calls while the main loop holds an event
  NoTimer,         \* no timer request, no event
  NoHelpers        \* ACTIVE_MAP_HELPERS is None

VARIABLES
  statusReady,                    \* StatusQueue holds the startup message
  response,                       \* the I2C response slot
  generation,                     \* TimerState
  pendingTimer,
  readyTimer,
  bpfActive,                      \* BPF_EXECUTION_ACTIVE
  activeHelpers,                  \* ACTIVE_MAP_HELPERS
  resetPending,                   \* RESET_PENDING
  isr,                            \* what the callback is doing
  pc,                             \* where the main loop is
  event,                          \* the event it took
  metadata,                       \* the metadata the current invocation got
  superseded                      \* helper calls since it took the event

timerVars == <<generation, pendingTimer, readyTimer>>
linkVars  == <<statusReady, response, resetPending>>
bpfVars   == <<bpfActive, activeHelpers, metadata>>
mainVars  == <<pc, event, superseded>>
vars == <<loaderVars, timerVars, linkVars, bpfVars, isr, mainVars>>

\* The command codes; "UNKNOWN" is every code the protocol does not define.
Commands ==
  {"RESET", "LOAD", "START", "READ_STATUS", "QUERY", "READ_MAP", "WRITE_MAP", "UNKNOWN"}

ASSUME RuntimeAssumption ==
  /\ MaxGeneration \in Nat
  /\ MaxSuperseded \in Nat
  /\ MaxSuperseded < MaxGeneration
  /\ HostCommands \subseteq Commands

-----------------------------------------------------------------------------
(* Types.                                                                  *)

Refusals == {"BAD_COMMAND", "BAD_LENGTH", "BAD_FLAGS", "BUSY", "BAD_STATE", "BAD_CRC",
             "FLASH_ERROR", "NO_PROGRAM"}

\* A parsed request: `flags` is nonzero flags, `badPayload` a payload whose
\* length, or reserved bits, the command does not take, `load` the Load BPF
\* operation, and a map access names a map, an offset and a number of bytes.
\* A read can ask for any number; a write has as many as its payload carries.
MapIds     == 0 .. MaxMaps
MapOffsets == 0 .. MaxMapBytes

Requests ==
  [command : HostCommands \cap {"RESET", "START", "READ_STATUS", "QUERY", "UNKNOWN"},
   flags : BOOLEAN, badPayload : BOOLEAN]
  \cup [command : HostCommands \cap {"LOAD"}, flags : BOOLEAN, load : LoadRequests]
  \cup [command : HostCommands \cap {"READ_MAP"}, flags : BOOLEAN, badPayload : BOOLEAN,
        id : MapIds, offset : MapOffsets, count : 0 .. MaxReadBytes + 1]
  \cup [command : HostCommands \cap {"WRITE_MAP"}, flags : BOOLEAN, badPayload : BOOLEAN,
        id : MapIds, offset : MapOffsets, count : 1 .. MaxWriteBytes]

Generations == 0 .. MaxGeneration
TimerRequests == [generation : Generations, cookie : Seq(Units), due : BOOLEAN]
TimerEvents   == [generation : Generations, cookie : Seq(Units)]

\* None is not Some.
ASSUME TimerAssumption == NoTimer \notin TimerRequests \cup TimerEvents \cup Seq(Units)

\* Places of the main loop.  From "current" to "release" it has the claim.
Claimed == {"current", "metadata", "enter", "run", "release"}
Places  == {"top", "check", "idle", "execute", "poll", "take", "claim", "wait"} \cup Claimed

TypeOK ==
  /\ LoaderTypeOK
  /\ statusReady \in BOOLEAN
  /\ response \in {"none", "OK", "ready"} \cup Refusals
  /\ generation \in Generations
  /\ pendingTimer \in TimerRequests \cup {NoTimer}
  /\ readyTimer \in TimerEvents \cup {NoTimer}
  /\ bpfActive \in BOOLEAN
  /\ resetPending \in BOOLEAN
  /\ isr \in {"idle", "start"}
  /\ pc \in Places
  /\ event \in TimerEvents \cup {NoTimer}
  /\ superseded \in 0 .. MaxSuperseded

-----------------------------------------------------------------------------
(* BPF programs.                                                           *)

\* An interpreter is running, in the callback or on the main loop.
Executing == isr = "start" \/ pc = "run"
MainRuns == isr = "idle"

\* The main loop holds an event whose program has not begun.
HoldsEvent == pc \in {"claim", "current", "metadata", "enter"}

\* Mutated form: the counter does not wrap.
NextGenerationUnbounded == generation + 1

\* next_timer_generation: wrapping, and never zero.
NextGeneration == IF generation = MaxGeneration THEN 1 ELSE generation + 1

\* Execution of helper calls is bounded while an event is held, so that the
\* small MaxGeneration of an instance does not come round.
CountSuperseded ==
  /\ HoldsEvent => superseded < MaxSuperseded
  /\ superseded' = IF HoldsEvent THEN superseded + 1 ELSE superseded

\* Mutated form: an event that is ready survives the new schedule.
ScheduleTimerKeepsReady ==
  /\ Executing
  /\ generation' = NextGeneration
  /\ pendingTimer' = [generation |-> NextGeneration, cookie |-> state.crc, due |-> FALSE]
  /\ CountSuperseded
  /\ UNCHANGED <<loaderVars, readyTimer, linkVars, bpfVars, isr, pc, event>>

\* bpf_schedule_timer with a delay in range; one out of range changes nothing.
ScheduleTimer ==
  /\ Executing
  /\ generation' = NextGeneration
  /\ readyTimer' = NoTimer
  /\ pendingTimer' = [generation |-> NextGeneration, cookie |-> state.crc, due |-> FALSE]
  /\ CountSuperseded
  /\ UNCHANGED <<loaderVars, linkVars, bpfVars, isr, pc, event>>

\* Mutated form: the generation stays.
CancelTimerSameGeneration ==
  /\ Executing
  /\ pendingTimer' = NoTimer
  /\ readyTimer' = NoTimer
  /\ CountSuperseded
  /\ UNCHANGED <<loaderVars, generation, linkVars, bpfVars, isr, pc, event>>

\* bpf_cancel_timer
CancelTimer ==
  /\ Executing
  /\ generation' = NextGeneration
  /\ pendingTimer' = NoTimer
  /\ readyTimer' = NoTimer
  /\ CountSuperseded
  /\ UNCHANGED <<loaderVars, linkVars, bpfVars, isr, pc, event>>

DeadlinePasses ==
  /\ pendingTimer # NoTimer
  /\ ~pendingTimer.due
  /\ pendingTimer' = [pendingTimer EXCEPT !.due = TRUE]
  /\ UNCHANGED <<loaderVars, generation, readyTimer, linkVars, bpfVars, isr, mainVars>>

-----------------------------------------------------------------------------
(* The I2C packet callback.                                                *)

\* read_map and write_map do not look at `pending`.
MapCommands == {"READ_MAP", "WRITE_MAP"}
MapLimit(req) == IF req.command = "READ_MAP" THEN MaxReadBytes ELSE MaxWriteBytes
MapAnswer(req) ==
  MapVerdict(HasImage, layouts, req.id, req.offset, req.count, MapLimit(req))

\* Mutated form: Start does not see that an operation is pending.
DispatchAnswerEagerStart(req) ==
  IF req.flags THEN "BAD_FLAGS"
  ELSE IF req.command = "LOAD" THEN LoadVerdict(req.load)
  ELSE IF req.command = "UNKNOWN" THEN "BAD_COMMAND"
  ELSE IF req.badPayload THEN "BAD_LENGTH"
  ELSE CASE req.command = "RESET" -> "reset"
         [] req.command = "QUERY" -> QueryVerdict
         [] req.command = "READ_STATUS" -> IF statusReady THEN "ready" ELSE "OK"
         [] req.command \in MapCommands -> MapAnswer(req)
         [] req.command = "START" ->
              IF state.tag # "Committed" THEN "NO_PROGRAM"
              ELSE IF bpfActive THEN "BUSY" ELSE "run"

\* What a request is answered with before any program runs.  "run" stands for
\* a Start that gets to execute, "reset" for an accepted Reset.
DispatchAnswer(req) ==
  IF req.flags THEN "BAD_FLAGS"
  ELSE IF req.command = "LOAD" THEN LoadVerdict(req.load)
  ELSE IF req.command = "UNKNOWN" THEN "BAD_COMMAND"
  ELSE IF req.badPayload THEN "BAD_LENGTH"
  ELSE CASE req.command = "RESET" -> "reset"
         [] req.command = "QUERY" -> QueryVerdict
         [] req.command = "READ_STATUS" -> IF statusReady THEN "ready" ELSE "OK"
         [] req.command \in MapCommands -> MapAnswer(req)
         [] req.command = "START" ->
              IF ExecutionVerdict # "OK" THEN ExecutionVerdict
              ELSE IF bpfActive THEN "BUSY" ELSE "run"

\* Mutated form: a running program does not hold requests back.
AnswerNeverBusy(req) == DispatchAnswer(req)

\* on_i2c_packet: while a program runs on the main loop everything but Reset
\* is refused before it is dispatched.
Answer(req) ==
  IF bpfActive /\ req.command # "RESET" THEN "BUSY" ELSE DispatchAnswer(req)

\* A capture that is truncated or does not parse empties the response slot.
BadPacket ==
  /\ isr = "idle"
  /\ response' = "none"
  /\ UNCHANGED <<loaderVars, statusReady, resetPending, timerVars, bpfVars, isr, mainVars>>

\* Mutated form: any Read Status empties the queue, a refused one too.
RespondPopsFirst(req) ==
  /\ isr = "idle"
  /\ Answer(req) \notin {"run", "reset"}
  /\ response' = Answer(req)
  /\ statusReady' = (statusReady /\ req.command # "READ_STATUS")
  /\ IF req.command = "LOAD" /\ Answer(req) = "OK"
     THEN AcceptLoad(req.load) ELSE UNCHANGED loaderVars
  /\ UNCHANGED <<resetPending, timerVars, bpfVars, isr, mainVars>>

\* Every request that is answered at once; Load BPF parks its operation and
\* Read Status empties the queue when they are accepted.
Respond(req) ==
  /\ isr = "idle"
  /\ Answer(req) \notin {"run", "reset"}
  /\ response' = Answer(req)
  /\ statusReady' = (statusReady /\ Answer(req) # "ready")
  /\ IF req.command = "LOAD" /\ Answer(req) = "OK"
     THEN AcceptLoad(req.load) ELSE UNCHANGED loaderVars
  /\ UNCHANGED <<resetPending, timerVars, bpfVars, isr, mainVars>>

AcceptReset(req) ==
  /\ isr = "idle"
  /\ Answer(req) = "reset"
  /\ resetPending' = TRUE
  /\ UNCHANGED <<loaderVars, statusReady, response, timerVars, bpfVars, isr, mainVars>>

\* Start claims execution and runs the program inside the callback.
StartProgram(req) ==
  /\ isr = "idle"
  /\ Answer(req) = "run"
  /\ bpfActive' = TRUE
  /\ metadata' = Metadata
  /\ activeHelpers' = Metadata
  /\ isr' = "start"
  /\ UNCHANGED <<loaderVars, linkVars, timerVars, mainVars>>

\* The program of a Start returns zero, and the image is marked running if it
\* still can be, or it fails or returns anything else.
StartReturns(zero) ==
  /\ isr = "start"
  /\ activeHelpers' = NoHelpers
  /\ bpfActive' = FALSE
  /\ metadata' = NoHelpers
  /\ isr' = "idle"
  /\ IF zero /\ state.tag = "Committed"
     THEN MarkRunning /\ response' = "OK"
     ELSE /\ UNCHANGED loaderVars
          /\ response' = IF zero THEN "BAD_STATE" ELSE "BAD_COMMAND"
  /\ UNCHANGED <<statusReady, resetPending, timerVars, mainVars>>

-----------------------------------------------------------------------------
(* The main loop.                                                          *)

Goto(place) == MainRuns /\ pc' = place

\* All of RAM goes, then main runs up to the loop on flash content f.
Reboot(f) ==
  /\ Boot(f)
  /\ statusReady' = TRUE
  /\ response' = "none"
  /\ resetPending' = FALSE
  /\ generation' = 0
  /\ pendingTimer' = NoTimer
  /\ readyTimer' = NoTimer
  /\ bpfActive' = FALSE
  /\ activeHelpers' = NoHelpers
  /\ metadata' = NoHelpers
  /\ isr' = "idle"
  /\ pc' = "top"
  /\ event' = NoTimer
  /\ superseded' = 0

\* The only place RESET_PENDING is looked at.
HonourReset == pc = "top" /\ MainRuns /\ resetPending /\ Reboot(flash)

LoopTop ==
  /\ pc = "top"
  /\ ~resetPending
  /\ Goto("check")
  /\ UNCHANGED <<loaderVars, timerVars, linkVars, bpfVars, isr, event, superseded>>

CheckPending ==
  /\ pc = "check"
  /\ Goto(IF pending # NoOperation THEN "idle" ELSE "execute")
  /\ UNCHANGED <<loaderVars, timerVars, linkVars, bpfVars, isr, event, superseded>>

\* Mutated form: an idle bus sends the loop past the operation.
BusIdleSkips ==
  /\ pc = "idle"
  /\ Goto("poll")
  /\ UNCHANGED <<loaderVars, timerVars, linkVars, bpfVars, isr, event, superseded>>

\* wait_for_i2c_bus_idle, and the detour through a sleep when it gives up.
BusIdle ==
  /\ pc = "idle"
  /\ Goto("execute")
  /\ UNCHANGED <<loaderVars, timerVars, linkVars, bpfVars, isr, event, superseded>>

BusBusy ==
  /\ pc = "idle"
  /\ Goto("top")
  /\ UNCHANGED <<loaderVars, timerVars, linkVars, bpfVars, isr, event, superseded>>

\* execute_pending, whatever is pending by now.
Execute ==
  /\ pc = "execute"
  /\ Goto("poll")
  /\ IF pending = NoOperation THEN UNCHANGED loaderVars ELSE ExecutePending
  /\ UNCHANGED <<timerVars, linkVars, bpfVars, isr, event, superseded>>

\* poll_timer
TimerDue == pendingTimer # NoTimer /\ pendingTimer.due

\* It makes a due request an event and hands it to take_ready_timer.
Poll ==
  /\ pc = "poll"
  /\ Goto("take")
  /\ IF TimerDue
     THEN /\ pendingTimer' = NoTimer
          /\ readyTimer' = [generation |-> pendingTimer.generation,
                            cookie |-> pendingTimer.cookie]
     ELSE UNCHANGED <<pendingTimer, readyTimer>>
  /\ UNCHANGED <<loaderVars, generation, linkVars, bpfVars, isr, event, superseded>>

\* take_ready_timer
Take ==
  /\ pc = "take"
  /\ Goto(IF readyTimer = NoTimer THEN "wait" ELSE "claim")
  /\ event' = readyTimer
  /\ readyTimer' = NoTimer
  /\ superseded' = 0
  /\ UNCHANGED <<loaderVars, generation, pendingTimer, linkVars, bpfVars, isr>>

\* restore_ready_timer: only for an event that is still the current one.
Restored ==
  IF generation = event.generation /\ readyTimer = NoTimer THEN event ELSE readyTimer

\* execute_timer_event starts with the claim; without it the event goes back.
Claim ==
  /\ pc = "claim"
  /\ Goto(IF bpfActive THEN "wait" ELSE "current")
  /\ readyTimer' = IF bpfActive THEN Restored ELSE readyTimer
  /\ bpfActive' = TRUE
  /\ UNCHANGED <<loaderVars, generation, pendingTimer, linkVars, activeHelpers, metadata,
                 isr, event, superseded>>

\* Mutated form: the event is compared with the generation before its own.
EventIsCurrentOffByOne == generation + 1 = event.generation

\* The event is dropped when a schedule or cancel came after it was taken.
EventIsCurrent == generation = event.generation

\* Mutated form: the claim is given up once the generation is checked.
CheckGenerationReleases ==
  /\ pc = "current"
  /\ Goto(IF EventIsCurrent THEN "metadata" ELSE "wait")
  /\ bpfActive' = FALSE
  /\ UNCHANGED <<loaderVars, timerVars, linkVars, activeHelpers, metadata, isr, event,
                 superseded>>

CheckGeneration ==
  /\ pc = "current"
  /\ Goto(IF EventIsCurrent THEN "metadata" ELSE "wait")
  /\ bpfActive' = EventIsCurrent
  /\ UNCHANGED <<loaderVars, timerVars, linkVars, activeHelpers, metadata, isr, event,
                 superseded>>

\* Mutated form: the rule of Start is used for events.
ImageCanRunAsStart == ExecutionVerdict = "OK"

\* It is dropped as well when no image can run.
ImageCanRun == EventVerdict = "OK"

GetMetadata ==
  /\ pc = "metadata"
  /\ Goto(IF ImageCanRun THEN "enter" ELSE "wait")
  /\ bpfActive' = ImageCanRun
  /\ metadata' = IF ImageCanRun THEN Metadata ELSE NoHelpers
  /\ UNCHANGED <<loaderVars, timerVars, linkVars, activeHelpers, isr, event, superseded>>

EnterProgram ==
  /\ pc = "enter"
  /\ Goto("run")
  /\ activeHelpers' = metadata
  /\ UNCHANGED <<loaderVars, timerVars, linkVars, bpfActive, metadata, isr, event, superseded>>

\* The program of an event returns; its result is not looked at.
ProgramReturns ==
  /\ pc = "run"
  /\ Goto("release")
  /\ activeHelpers' = NoHelpers
  /\ metadata' = NoHelpers
  /\ UNCHANGED <<loaderVars, timerVars, linkVars, bpfActive, isr, event, superseded>>

Release ==
  /\ pc = "release"
  /\ Goto("wait")
  /\ bpfActive' = FALSE
  /\ UNCHANGED <<loaderVars, timerVars, linkVars, activeHelpers, metadata, isr, event,
                 superseded>>

\* Mutated form: the loop goes round below the reset check.
SleepSkipsReset ==
  /\ pc = "wait"
  /\ Goto("check")
  /\ event' = NoTimer
  /\ superseded' = 0
  /\ UNCHANGED <<loaderVars, timerVars, linkVars, bpfVars, isr>>

Sleep ==
  /\ pc = "wait"
  /\ Goto("top")
  /\ event' = NoTimer
  /\ superseded' = 0
  /\ UNCHANGED <<loaderVars, timerVars, linkVars, bpfVars, isr>>

\* Power fails: in the middle of a flash operation, or anywhere.
PowerLoss ==
  \/ Reboot(flash)
  \/ pc = "execute" /\ MainRuns /\ \E f \in Torn : Reboot(f)

-----------------------------------------------------------------------------
RuntimeInit ==
  /\ statusReady = TRUE
  /\ response = "none"
  /\ resetPending = FALSE
  /\ generation = 0
  /\ pendingTimer = NoTimer
  /\ readyTimer = NoTimer
  /\ bpfActive = FALSE
  /\ activeHelpers = NoHelpers
  /\ metadata = NoHelpers
  /\ isr = "idle"
  /\ pc = "top"
  /\ event = NoTimer
  /\ superseded = 0

Init == LoaderInit /\ RuntimeInit

Callback ==
  \/ BadPacket
  \/ \E req \in Requests : Respond(req) \/ AcceptReset(req) \/ StartProgram(req)

\* The steps of the main loop outside programs and the wait for the bus.
LoopStep ==
  \/ LoopTop \/ CheckPending \/ Execute \/ Poll
  \/ Take \/ Claim \/ CheckGeneration \/ GetMetadata \/ EnterProgram \/ Release \/ Sleep

MainLoop == HonourReset \/ LoopStep

Next ==
  \/ Callback
  \/ \E zero \in BOOLEAN : StartReturns(zero)
  \/ ScheduleTimer \/ CancelTimer
  \/ DeadlinePasses
  \/ MainLoop
  \/ BusIdle \/ BusBusy
  \/ ProgramReturns
  \/ PowerLoss

Spec == Init /\ [][Next]_vars

-----------------------------------------------------------------------------
(* Properties.                                                             *)

\* At most one BPF invocation exists: the callback never starts a program
\* while the main loop has the claim, so a claim is never found taken, and the
\* helpers a program calls are those of its own invocation
\* (try_claim_bpf_execution, execute_loaded_bpf, ACTIVE_MAP_HELPERS).
ExclusiveExecution ==
  /\ ~(isr = "start" /\ pc \in Claimed)
  /\ bpfActive <=> (isr = "start" \/ pc \in Claimed)
  /\ activeHelpers = IF Executing THEN metadata ELSE NoHelpers

\* The image under a running program is the committed one its metadata
\* describes, whole in flash, with no operation parked that would rewrite it
\* (on_i2c_packet's BUSY answer, execute_timer_event's claim before metadata).
ExecutingImageIntact ==
  Executing \/ pc = "enter" =>
    /\ pending = NoOperation
    /\ HasImage
    /\ Durable(flash)
    /\ metadata = Metadata

\* An event whose timer was replaced or cancelled after the main loop took it
\* is never dispatched, though the callback can run a whole program in between
\* (execute_timer_event's generation check, REQ-OPT-TMR-009).
NoStaleDispatch == pc \in {"metadata", "enter"} => superseded = 0

\* There is one timer: what is pending, ready or held and not superseded is a
\* single request, the one the current generation names, so a request yields
\* at most one event (bpf_schedule_timer, poll_timer, take_ready_timer).
OneTimer ==
  /\ pendingTimer # NoTimer => readyTimer = NoTimer /\ pendingTimer.generation = generation
  /\ readyTimer # NoTimer => readyTimer.generation = generation
  /\ HoldsEvent /\ superseded = 0 =>
       pendingTimer = NoTimer /\ readyTimer = NoTimer /\ event.generation = generation

\* The startup status is lost to its delivery or to a reboot and to nothing
\* else, in particular not to a request refused while a program runs
\* (StatusQueue::pop, on_i2c_packet).
StatusNotLost == [][statusReady /\ ~statusReady' => response' = "ready"]_vars

\* A running image is never denied an event of its own: one the main loop took
\* is dropped only when it was superseded (event_execution_metadata).
RunningImageKeepsEvents ==
  [][state.tag = "Running" /\ HoldsEvent /\ pc' = "wait" => superseded > 0]_vars

\* The runtime drives the loader as BpfLoader says: it neither starts a program
\* nor runs an operation outside the loader's own rules, so what holds of the
\* loader holds in the firmware.
DrivesLoader == LoaderSpec

\* The timer is the one OneShotTimer promises: pending, ready and held by the
\* main loop until its program begins are stages of one request, whatever the
\* callback's program schedules or cancels in between (bpf_schedule_timer,
\* bpf_cancel_timer, poll_timer, take_ready_timer, execute_timer_event).
TimerRequested ==
  IF pendingTimer # NoTimer THEN pendingTimer.cookie
  ELSE IF readyTimer # NoTimer THEN readyTimer.cookie
  ELSE IF HoldsEvent /\ superseded = 0 THEN event.cookie ELSE NoTimer
TimerExpired ==
  IF pendingTimer # NoTimer THEN pendingTimer.due ELSE TimerRequested # NoTimer

OneShot == INSTANCE OneShotTimer WITH
  Cookies <- Seq(Units), Off <- NoTimer,
  request <- TimerRequested, expired <- TimerExpired,
  invocation <- IF pc = "run" THEN event.cookie ELSE NoTimer,
  calling <- isr = "start",
  serving <- state.tag = "Running"

ImplementsOneShotTimer == OneShot!TimerSpec

-----------------------------------------------------------------------------
(* Fairness.  The main loop goes on between packets; programs return; the  *)
(* host leaves the bus idle again and again; time passes.  Nothing is      *)
(* assumed of requests, programs' helper calls, errors or power.           *)

MainIsScheduled == SF_vars(MainLoop)
ProgramsReturn  == WF_vars(StartReturns(FALSE) \/ StartReturns(TRUE)) /\ WF_vars(ProgramReturns)
BusGoesIdle     == SF_vars(BusIdle)

FairSpec == Spec /\ MainIsScheduled /\ ProgramsReturn /\ BusGoesIdle

\* The same for a firmware whose programs may run for ever: the interpreter
\* has no budget.
UnboundedProgramsSpec == Spec /\ MainIsScheduled /\ BusGoesIdle

\* An accepted reset happens (RESET_PENDING, the top of the loop).
ResetHappens == resetPending ~> ~resetPending

\* A Load operation that was acknowledged is carried out (main, REQ-OPT-BPF-005).
LoadIsExecuted == pending # NoOperation ~> pending = NoOperation

\* The due timer of a running image is dispatched, unless a later schedule,
\* cancel or reboot takes its generation away (poll_timer, execute_timer_event).
DueTimerRuns ==
  \A g \in Generations :
    (TimerDue /\ generation = g /\ state.tag = "Running")
      ~> (pc = "run" /\ event.generation = g) \/ generation # g

-----------------------------------------------------------------------------
(* What the documents say and the code does not.                           *)

\* REQ-OPT-BPF-006: Begin may replace an image "before BPF execution begins",
\* and the README says Load BPF "does not execute the program".  A Start that
\* returned nonzero leaves its timer behind; after a new image is loaded that
\* timer runs it, unstarted and with the old image's cookie (begin,
\* event_execution_metadata).
EventsRunTheirOwnImage == pc = "run" => event.cookie = state.crc

\* design.md calls Reset an "immediate generated-HAL system reset".  Accepted
\* while the program of an event runs, it waits for that program to return,
\* and nothing bounds how long a program runs (main, execute_loaded_bpf).
ResetEndsRunaway == (resetPending /\ pc = "run") ~> ~resetPending
=============================================================================
