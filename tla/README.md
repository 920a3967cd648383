# OptiBridge in TLA+

A verification development of the OptiBridge firmware: a CH32 microcontroller
(the *target*) that receives BPF programs over I2C, keeps one of them in flash,
runs it on request and on timer events, and a second board that bridges USB to
that I2C bus. The modules here model the target's image loader, its runtime and
its maps, the wire format both boards share, and the bridge with the host above
it. TLC checks them on small instances, and TLAPS proves the safety properties
for every value of the constants. All paths below are relative to the
repository.

## The system

| Component | Source | State it keeps | Operations |
| --- | --- | --- | --- |
| BPF loader | `crates/optibridge-protocol/src/lib.rs` 39-589 | `BpfLoader`: loader state, one pending operation, sizes, offset, rolling CRC, map layouts; the 8 KiB flash partition | `accepts_load`, `execute_pending` (`begin`, Data, `finalize`), `query`, `execution_metadata`, `event_execution_metadata`, `mark_running`, `validate_committed` |
| Command dispatch | same, 754-894; `firmware/optibridge/src/main.rs` 480-540 | none | `dispatch_with_bpf_and_executor`, `on_i2c_packet` |
| Status queue, response slot | same, 614-634; main.rs 54-58 | the startup message; the last response, one slot, overwritten | `StatusQueue::pop`, `queue_..._tx_packet` |
| One-shot timer | main.rs 91-118, 159-259 | `TimerState`: generation, pending request, ready event | `bpf_schedule_timer`, `bpf_cancel_timer`, `poll_timer`, `take_ready_timer`, `restore_ready_timer` |
| Target runtime | main.rs 277-389, 480-592 | `BPF_EXECUTION_ACTIVE`, `ACTIVE_MAP_HELPERS`, `RESET_PENDING`, the place of the main loop | `main`, `execute_timer_event`, `execute_loaded_bpf` |
| Map access | lib.rs 276-342, main.rs 391-471, `map_helpers.rs` | `MAP_BACKING_STORE` | `read_map`, `write_map`, lookup and update helpers |
| Frame parser | lib.rs 643-723, 922-941 | a partial frame | `Parser::push`, `parse_packet`, `encode_response` |
| I2C bridge | `firmware/i2c-bridge/src/main.rs` | parser, DTR, buffers | `main`, `handle_request`, `reset_on_dtr_drop` |
| Host tools | `tools/*.py` | none | smoke tests at the bench |
| Size check, build | `xtask`, `build.rs` | none | sums section sizes |
| External | sonde-bpf, generated HAL | | interpreter, flash, I2C and time drivers |

How they interact. One hart. The **main loop** runs in thread mode. The **packet
callback** `on_i2c_packet` runs in the I2C interrupt: between any two critical
sections of the main loop, and to its end before the main loop goes on. They
share the statics of main.rs, each behind a critical section (except
`ACTIVE_MAP_HELPERS`, a plain `static mut`). The callback only *parks* a Load
operation; the main loop carries it out on flash with interrupts masked. Start
runs the program *inside* the callback; a timer event runs it on the main loop
with interrupts enabled, so requests arrive meanwhile. Programs call back into
the timer through helpers. Reset is a flag the main loop looks at once a round.
A power loss or a reset loses RAM and keeps flash.

What is hard about it, and what makes each part correct:

- *Loader*: an operation is validated in one place and executed in another,
  later; flash fails or loses power half way. It must never report or run an
  image that is not whole in flash, never program a cell twice, keep a failure
  until a new Begin or a reboot, and never touch flash under a running image.
- *Runtime*: two ways into the interpreter, one of them preemptible. At most one
  invocation; its metadata and helpers are its own; its image stays in place.
- *Timer*: a request can be replaced or cancelled in every gap between expiry
  and dispatch. One request yields at most one event, a superseded one none.
- *Dispatch*: the order of the checks decides what a refused request may change.
- *Liveness*: resets, loads and due timers wait for the main loop, which waits
  for the bus and for programs without a budget.
- *Map access*: products and sums of sizes a host or a program chooses must not
  wrap into another map; a copy can be interrupted between two bytes.
- *Parser*: it must deliver what was sent, frames in the payload of frames
  included, and find the frame boundary again after a frame that was broken off.
- *Bridge*: one task, cancelled and raced futures, two endpoints that can fill
  up. Each request is answered once and with its own outcome; a host that goes
  away resets the bridge, and nothing else does.

`PROJECT.json` lists the hazards line by line with the properties that cover
them.

## The modules

| Module | What it is |
| --- | --- |
| `BpfImage` | The flash partition and the pure rules about images: bounds, erased pages, content, map layouts, `Durable` (what boot validation accepts) |
| `BpfLoader` | The loader: one action per request and per outcome of `execute_pending`, boot, power loss |
| `ImageStore` | Abstract specification: a store of at most one whole image; `BpfLoader` refines it |
| `MapAccess` | Who may touch which bytes of the map store: paged host access, `value_range`, map pointers |
| `OptiBridge` | The firmware: `BpfLoader` composed with the timer, the callback, the main loop and programs |
| `OneShotTimer` | Abstract specification: one timer request, replaced or cancelled at any time before its program begins, delivered once and when due; `OptiBridge` refines it |
| `MapLayouts` | The loop of `map_layouts`, one step per descriptor, with its integer widths |
| `BpfMaps` | `OptiBridge` with the contents of the map store: host pages, helpers, byte-wise copies, stores of programs |
| `MapStore` | Abstract specification: an invocation is one transaction, a copy is whole; `BpfMaps` refines it |
| `Framing` | Frames and `Parser::push` |
| `PacketCapture` | `parse_packet` of the target on every capture |
| `FrameStream` | The bridge's parser on a stream of frames, broken frames and noise |
| `I2cBridge` | The bridge's task, its USB endpoints and the host |
| `I2cServer` | Abstract specification: one session of requests, carried out and answered in order; `I2cBridge` refines it |
| `MC...` | Constants for TLC, and sentences of the documents as properties |
| `BpfLoaderProofs`, `OptiBridgeProofs`, `BpfMapsProofs`, `MapLayoutsProofs`, `FramingProofs`, `FrameStreamProofs`, `I2cBridgeProofs`, `PacketCaptureProofs` | Theorems and proofs |

`BpfMaps` extends `OptiBridge`, which extends `BpfLoader`: an action of the
outer module takes a step of the inner one and says what becomes of its own
variables. `MapLayouts` is checked and proved to compute what `BpfImage.LayoutsOf` states
in one step, which is what the loader uses.

### Flash and images (`BpfImage`)

Flash is counted in *units*: an instruction or a map descriptor is one unit, the
header takes the place of unit 0. A unit read as a descriptor declares as many
bytes as its value; 0 is every descriptor `map_layouts` refuses on its own
fields. `header` is the 12 bytes written by `begin`, `marker` the commit marker
`finalize` programs. Each is `Erased`, good, or `Garbage` (anything else).
CRC-32 is taken to be collision free: a CRC is the content it was computed from.

### The loader (`BpfLoader`)

| Code | Model |
| --- | --- |
| `LoaderState` | `state`, a record with the tag, the CRC of a committed or running image, the status of a failure |
| `pending`, `bytecode_len`, `map_count`, `image_len`, `next_offset`, `expected_crc`, `crc` | variables of the same names |
| `map_layouts`, `committed_map_count` | `layouts` |
| `accepts_load` | `LoadVerdict` (the status) and `AcceptLoad` (the effect) |
| `execute_pending` | `ExecutePending`: `Begin`, `Data`, `Commit` and one action per way to fail |
| `validate_committed` on fresh RAM | `Boot(f)` |
| `mark_running` after a program returned zero | `MarkRunning` |
| `query`, `execution_metadata`, `event_execution_metadata` | `QueryVerdict`, `ExecutionVerdict`, `EventVerdict` |

An operation is one step, because the main loop runs it inside a critical
section. Two things can split it: the driver reports an error, or power fails.
The `Torn*` operators give every flash content that can be found afterwards:
erases leave each affected cell old, erased or garbage; programs leave it old,
new or garbage. A driver that reports success is trusted.

### The firmware (`OptiBridge`)

`pc` is the place of the main loop, from one critical section to the next:
`top` (RESET_PENDING), `check` (has_pending), `idle` (bus idle?), `execute`,
`poll`, `take`, then with an event `claim`, `current` (generation check),
`metadata`, `enter`, `run`, `release`, and `wait`. `isr = "start"` while the
callback runs a program; the main loop does not move then. Every other callback
is one step, since it runs to its end in critical sections that the main loop
cannot enter. A program is any sequence of `ScheduleTimer` and `CancelTimer`
steps that ends in `StartReturns` or `ProgramReturns`. Time is a deadline that
has passed or not; the delay is not modelled, so a timer may become due at any
moment. The u64 cookie is the CRC of the image that scheduled the timer.
`superseded` is a history variable: how many schedules and cancels came since
the main loop took the event it holds. No action's outcome depends on it but for
the bound below.

`OneShotTimer` says what the generations are for: there is one request, which the
schedules and cancels of programs replace at any time before its own program
begins, and which is delivered once, when due, with its own cookie, into no
program that still runs. A request is lost to a program's call, to a reboot, or
for want of a running image. Under the refinement mapping the
request is the one in `pending`, in `ready`, or in the main loop's hands while
nothing superseded it (`TimerRequested`), and the invocation is the event of
the program that runs on the main loop. `calling` is a program in the callback.

Map commands are answered here (`MapVerdict`, after the BUSY check); their effect
on the contents is in `BpfMaps`.

### Maps (`MapAccess`, `MapLayouts`, `BpfMaps`)

`map_layouts` reads one descriptor per step. The products and sums are computed
exactly and compared with `U32Max` where the code uses `checked_mul` and
`checked_add`, and cut with `% (U16Max + 1)` where it uses `as u16`.

A pointer into `MAP_BACKING_STORE` is counted from its start. A program gets map
references and passes one to a helper; `bpf_map_layout` looks for a map that
starts there (`MapAt`). A helper call of an event's program runs with interrupts
enabled: `Update` checks and starts a copy, `CopyByte` moves one byte, in any
order, and the callback may come in between. The callback's own programs run
the same actions with the main loop standing still. `LookUp` hands out a pointer,
after which the program may store anywhere in that map (`StoreByte`); the
interpreter checks such stores against the map's region. `written` is a history
variable: the addresses an entitled access wrote since the boot that zeroed the
store.

`MapStore` says what this is for: to the host a program's invocation is one
transaction, and a helper's copy happens at once, when it is called. The
refinement mapping shows the store with the copy in progress completed.

### Frames (`Framing`, `PacketCapture`, `FrameStream`)

`Push` is `Parser::push` on one byte: what the parser then holds, and what it
returns. `PacketCapture` runs `parse_packet` over every capture of bounded
length and compares it with the definition "a sequence of whole frames".
`FrameStream` runs the bridge's loop over transmissions: frames, frames broken
off anywhere, headers with a length too large, and noise. The magic byte may be
anywhere behind the first: every request for the target is a frame in the payload
of a bridge frame (`target_write`, tools/test_bpf_loader.py:44-45), and sequence
numbers come round to it. Nothing escapes it, so a parser that lost its place
starts again at such a byte and can make a request nobody sent, time after time.
The module says exactly when that can happen. A transmission is `Misleading` when
it is broken off, or has a magic byte behind a bad length, where the parser starts
afresh at once. Whatever the host sends next, the parser stays lost until it
happens to end a frame where the host does, or until `Silence = MaxFrame - 1`
bytes without a magic byte came by, or the session ends. `inStep`, `quiet` and
`astray` are history variables: the parser was empty when the transmission began;
the bytes since the last magic byte; a misleading transmission came and no silence
since.

### The bridge (`I2cBridge`)

`pc` is the await `main` is in: `connect`, `ready` (the write of READY), `dtr`,
`head` (the condition of the serving loop), `read`, `push` (between two bytes of
a packet), `transfer`, `respond`, and `reset` once `reset_mcu` was called.
`select` becomes a choice between the actions of the two futures: `ReadPacket`,
`ReadFails` or `Timeout`; `TransferEnds` or `DtrWatch`.

USB is modelled by how the code uses it. Each endpoint holds one packet. A write
completes when the IN endpoint is free, fails when the device is not configured,
and otherwise waits. A read of a packet longer than the buffer fails. Unplugging
disables the endpoints and lowers DTR. The host takes packets while it has the
port open, splits its bytes into packets of the lengths in `PacketLens`, or what
is left, and may close the port at any moment. It opens the port once per
enumeration, because the bridge re-enumerates after each session. The reset
takes effect at once. `Timeout` needs no packet to be waiting: `select` polls the
read first.

`outcomes` is a history variable: what each request that was carried out came
to. With it `I2cServer` can say that a response is that of its own request and
that a failed read shows none of the bytes left in `i2c_read`.

## What is checked

| Run | Question | Distinct states |
| --- | --- | --- |
| `loader` | Is RAM honest about flash, through every error, reset and power loss? Does the loader implement `ImageStore`? | 70 k |
| `runtime` | Do the claim, the generation check and the BUSY answer do their job under every interleaving? Does the firmware drive the loader by its own rules (`DrivesLoader`)? Is its timer that of `OneShotTimer`? Is the startup status lost to its delivery or a reboot only? | 268 k |
| `runtime_liveness` | Do accepted resets and loads, and due timers of a running image, get their turn? | 124 k |
| `layouts` | Does the layout loop keep maps apart for every descriptor table, wrap-around included? Do host pages and array entries stay in their map, and do the entries of an array tile it? | 16 k |
| `maps` | Does the host see invocations as transactions and copies whole? Is a byte zero until written? | 150 k |
| `capture` | Does `parse_packet` yield a request exactly for a whole sequence of frames? | 36 k |
| `stream` | Does the bridge's parser deliver every frame whatever is in it, and which transmissions can make it lose its place, and for how long? | 221 k |
| `bridge` | Does the bridge implement `I2cServer`, reset for a cause only, answer every request, and notice that a session is over? | 74 k |

Four runs each show a sentence of the documents that the code does not follow;
TLC's counterexample is the evidence:

| Run | What the documents say | What the code does |
| --- | --- | --- |
| `stale_timer` | README.md:103, Load BPF "does not execute the program" | the timer of a Start that returned nonzero survives `begin` and runs the image loaded after it, with the old cookie |
| `runaway_reset` | README.md:98, Reset "immediately reboots the MCU" | the flag is read once a round of the main loop, after event programs that have no budget |
| `dtr_drop` | specs/i2c-bridge/requirements.md:109, a bridge whose DTR drops "MUST request an MCU software reset" | with an earlier response still in the IN endpoint, `main` waits in `write_packet`, which nothing races, for ever |
| `big_packet` | specs/i2c-bridge/requirements.md:54, it must accept "all bytes from one configured 64-byte CDC packet" (design.md:56 has a 64-byte buffer) | the buffer is one frame, 21 bytes; a longer packet fails the read and resets the bridge |

Smaller disagreements, met while modelling and visible in the definitions, have
no run: a Begin that fails before anything is erased leaves the old image to the
next boot, where specs/optibridge/design.md:133 has "receiving or failed ->
Reset -> no-image" (`BeginFails`, `Boot`); a Finalize whose marker write reports an
error although it took effect is answered as failed and commits at the next boot,
where the same line has no-image and REQ-OPT-BPF-006 (requirements.md:299) says that
a failed attempt "MUST NOT be marked committed" (`FinalizeFlashError`, `Boot`); the
abstract `ImageStore` allows both; after refused map descriptors the CRC
query answers `STATUS_BAD_STATE`, where specs/optibridge/requirements.md:310 has a
flash error or a bad CRC (`QueryVerdict`); after a failure Start answers that
failure, where requirements.md:180 has `STATUS_NO_PROGRAM` (`ExecutionVerdict`);
and nonzero flags are answered `STATUS_BUSY` while an event program runs, where
requirements.md:166 has `STATUS_BAD_FLAGS` (`Answer`).

### Bounds

- *loader*: two unit values (a good descriptor and a refused one), bytecode of
  at most 1 unit and at most 1 map, a partition of 3 cells in pages of 2, so
  that an image takes one page or two and a page boundary falls inside it;
  fragments of up to 2 units, so that an image arrives whole or in pieces; three
  declared CRCs, of a right image without a map, one with a good map and one with
  a refused map, each wrong for the other contents. Offsets up to the partition
  size and shapes one above each limit give every refusal.
- *runtime*, *runtime_liveness*: images of one unit and no maps, because the
  runtime looks at images through the loader's verdicts only; `MaxGeneration =
  2`, so that the counter wraps, and `MaxSuperseded = 1` helper call while the
  main loop holds an event. `MaxSuperseded < MaxGeneration` stands for a program
  not making 2^32 helper calls in the few instructions between take and dispatch;
  without it the wrap would make a stale event look current. `stale_timer` needs
  two images, hence two unit values and CRCs.
- *layouts*: u16 has 3 bits and u32 has 4, above a store of 6 bytes; eight field
  values give products that fit, that leave the store, u16 and u32, and that wrap
  back to something small. Up to 3 maps; all ids, offsets and entries.
- *maps*: a committed image with a map of 2 bytes and one of 1, so that a copy
  has a middle and a neighbour; two byte values; pages of up to 2 bytes.
  `BootedSpec` begins where a boot on that image leaves the firmware. The run
  covers hosts that start the program and read and write maps, timer events and
  power losses, not the loading of another image: with loads the instance is out of
  TLC's reach.
  The theorems of `BpfMapsProofs` are about `MapsSpec`, which has them.
- *capture*: an alphabet of three bytes in which lengths, magic and bad lengths
  coincide with payload bytes; captures of up to 11 bytes hold two frames,
  one of them with a payload.
- *stream*: eight bytes, with the magic byte above `MaxPayload`, so that it and 7 are
  bad lengths; a header with the magic byte as its sequence; six contents, among them
  a frame, the beginning of one, a frame behind a byte, which fits only after a bad
  length, and a silence with a magic byte after it; all cuts. The number of
  transmissions is not bounded. A parser that takes every magic byte for a start
  (`PushRestarts`) violates `FramesArriveWhole`, and without the second disjunct of
  `Misleading` TLC finds a request nobody sent behind a bad length.
- *bridge*: two requests per session out of eight, one per answer of
  `validate_i2c_request` and a write and a read of one byte; packets of 3 bytes
  split every frame, packets of 7 hold a frame and the start of the next. Two
  requests fill both endpoints with READY or a response unread. `big_packet` sends
  14 bytes, two frames. Sessions, unplugging and resets are not bounded.
- `CHECK_DEADLOCK FALSE`: a loader waits for its host for ever, a layout loop
  ends, and a capture has an end.

### Fairness

`FairSpec` assumes strong fairness of the main loop's steps (the callback
preempts it again and again, but interrupts are as short as their requests and
the loop continues between them), that programs return, and strong fairness of
`BusIdle` (a host that waits for a load to complete leaves the bus idle again
and again; `wait_for_i2c_bus_idle` is retried after a sleep). Nothing is assumed
of hosts, of timers becoming due, of flash errors or of power. That programs
return is not enforced by the code (`UNLIMITED_BUDGET`): `runaway_reset` shows
what happens without it.

`FairBridgeSpec` assumes weak fairness of `Task` (the executor polls the task
when one of its futures is ready), of `Restart`, and of `SendPacket` and
`TakePacket`, which are enabled only while the host has the port open: an open
port is a host that moves packets. Nothing makes a transfer end, a host ask, or
a port open or close. So `RequestsAreAnswered` has the premise that transfers do
not stay pending for ever, since the firmware has no I2C timeout, while
`EndIsNoticed` has none: `DtrWatch` ends a hung transfer. `EndIsNoticed` exempts the
one place `dtr_drop` is about, a response that waits for a full endpoint.

## What is proved

For all values of the constants that meet the assumptions `ImageAssumption`,
`HeaderAssumption`, `LoaderAssumption`, `RuntimeAssumption`, `TimerAssumption`,
`MapAccessAssumption`, `MapLayoutsAssumption`, `MapsAssumption`,
`FramingAssumption`, `CaptureAssumption`, `StreamAssumption`, `BridgeAssumption`
and `PacketAssumption`, which TLC evaluates on the runs. They say that sizes are
naturals, that marks such as `Erased`, `NoTimer`, `NoPacket` and `READY` are not
image units, headers, timer requests, packets or responses, that hosts send commands and bytes, that
the store fits u16, and the bound on superseding calls above.

**Loader** (`BpfLoaderProofs`). `Safety` is the conjunction of
`CommittedIsDurable`, `LayoutsOnlyForImage`, `PendingFits`,
`ReceivedPrefixInFlash` and `RunningIsIdle`. None of them is inductive alone:
committing an image that is really there needs the received prefix to be in
flash; that needs Data to land where the prefix stops, which is `PendingFits`,
which in turn needs no operation to be parked across a state change.
`LoaderTypeOK /\ Safety` is inductive (`TypeStep`, `SafetyStep`), and
`ErasedCoversImage` is the arithmetic of the page count. From it follow each
invariant, the action properties `RunningImageStays`, `FailureRetained` and
`NoRewrite`, and `LoaderImplementsStore`: every loader step is an `ImageStore`
step or a stutter under `image <- StoreImage` etc. The interesting case is a
torn erase (`TornBeginKeepsOrLoses`): what is left is either the old image,
untouched, or nothing that validates.

That last case rests on the abstraction: a torn header or marker is `Garbage`
and never a valid one, and a content with a torn cell never has the old CRC.

**Firmware** (`OptiBridgeProofs`). `Control` says who holds the claim, that a
granted Start stays granted until its program returns, and that metadata is
current. It is inductive together with the loader's invariant. `LoaderStep`
shows every firmware step to be a loader step or a stutter, hence
`FirmwareDrivesLoader`: all theorems about the loader hold in the firmware.
`ExecutionIsExclusive` and `ExecutingImageIsIntact` follow. `Timers`
strengthens `OneTimer` and `NoStaleDispatch` by `HeldGeneration`: the counter is
exactly `superseded` steps past the held event's generation, round its end at
most once; equal generations therefore mean that nothing superseded the event.

`StatusIsNotLost` is an action property of the same invariant.

`FirmwareImplementsOneShotTimer` goes through the steps of the timer, with one
lemma each. `OneTimer` says that pending, ready and held never hold two
requests that count, so `TimerRequested` reads one; `Poll`, `Take` and the steps
up to the generation check hand it on and the specification stutters.
`HeldGeneration` makes the check let only a request pass that nothing superseded,
and from there to the program's begin the main loop has the claim (`Control`), so
that the callback starts no program that could replace it: a Start calls into no
program (`StartCalls`), and only programs call the helpers (`HelperReplaces`).
`RunningIsIdle` says that the event of a running image is not dropped for want of
metadata; `RunningImageGetsItsEvents` says so by itself, and no run lists it, since
the refinement's `Drop` does. `RebootForgets` is the reset. It covers REQ-OPT-TMR-001, -005, -006, -007 and -009 in
`specs/optibridge/requirements.md`, for every program.

`FirmwareImplementsStore` puts `LoaderImplementsStore` under it: the whole firmware is a store of one image.

**Maps** (`BpfMapsProofs`). Every step of `MapsSpec` is a step of `Spec` or a
stutter, so the firmware's invariant holds here too. On it rest
`CopiesStayInTheirMap` (while a program executes, the metadata its helpers read
is that of the committed image, `ExecutingImageIsIntact`) and
`UnwrittenBytesAreZero`. `FirmwareImplementsMapStore` goes through the steps: a
host access is granted only while no program executes, which is the BUSY answer;
`CopyByte` changes nothing of a store that shows the copy completed; a replaced
image changes the regions, not the bytes. It holds for every image, every number
of replacements and every host. `MapsKeepImages` carries the store of images and the
intact executing image over: helpers and map commands never disturb an image.

**Layouts** (`MapLayoutsProofs`). `SideBySide`: each map laid out is nonempty, ends
at or below the running total, and begins where an earlier one has ended. The
total is within the store and so within u16, hence the cuts change nothing
(`NothingIsCut`). `MapsStayApart` and `PagesAreInMaps` follow for all widths, stores
and tables. `InOrder` is stronger: the maps laid out are side by side, without a
gap, and each is what its descriptor says. `EntriesTileTheirMap` is then arithmetic:
the entries of an array fill its map, and no byte belongs to two of them.
`LoopAgreesWithLayoutsOf` compares the loop with `LayoutsOf`, the definition the
loader uses. That definition is recursive, and the library's induction theorems are
out of the provers' reach; but `WFMin` speaks of a set, not of an operator, so
`Least` takes the least number of the set where the two would differ, and there is
none. `LayoutsAreForAnImage` (`BpfLoaderProofs`) says that layouts exist for a
reported image only; no run lists it.

**Frames** (`FramingProofs`, `FrameStreamProofs`). `PushKeepsPartial`: from the
beginning of a frame a byte leads to the beginning of a frame, to a frame, or to
nothing; a partial frame always has room for one more byte, so FrameTooLong is
never returned. `StreamInv` adds three things. A parser that was empty at the start
of a transmission holds exactly what was sent of it for as long as it is `OnTrack`:
every magic byte so far was the first or came while a frame was under way, where it
is a byte like any other. `StaysOnTrack` shows that frames, broken-off frames and
noise are on track to their end, whatever they contain, and a bad length at least
for its header. Second, what the parser holds began with a magic byte, so the silence
is shorter than it (`quiet < Len(held)`), and a silence as long as the rest of the
longest frame empties it (`SilenceEmpties`). Third, a host that is not astray has the
parser in step; a transmission that is not misleading leaves it empty
(`EmptyAtTheEnd`). All of it holds for every payload size, for all headers and
contents, with the magic byte anywhere in them, and for every sequence of
transmissions. `StreamAssumption` says only that headers and contents are bytes.

**Captures** (`PacketCaptureProofs`). `Ends`, the places of a capture at which a
frame ends, is a recursive definition. `EndsOfCapture` unfolds it: such a set exists
(`EndsExist`) and is the only one (`EndsAreUnique`), and the next end is the first
place a frame from the last one leads to (`EndsFollowOneAnother`), each by the least
place where it would fail. `CaptureInv` relates the parser to it: before the first
error the parser is in the middle of the frame after the last end, after an error the
capture ends within no frame, and at an end the request is the frame that ends there
(`LastFrameIsOne`). `WholeCapturesAreParsed` follows, for every capture of every
length. `SentRequestIsParsed` is what the runtime's model rests on when it takes
requests as they were sent: a request that fills one write and is captured whole is
returned field by field (`EncodedIsFrame`, from `FramingProofs`).

**Bridge** (`I2cBridgeProofs`). `BridgeInv` joins `BridgeTypeOK` with what is under
way between host and bridge being bytes. `HostEndsItsSession` assumes that packets
are no longer than `MAX_FRAME` and shows that a reset follows a drop of DTR and
nothing else; `big_packet` shows that the assumption is needed.

**Bridge and I2cServer** (`I2cBridgeProofs`). `BridgeImplementsServer` is the whole
refinement. Its invariant `ServeInv` follows the bytes: while the port is open,
what the parser holds, what is left of the packet, the packet in the endpoint and
what the host has yet to send are, put together (`Stream`), exactly the frames of
the requests not handled yet (`Carries`, with a cut where each ends). Moving bytes
from one of the four to the next leaves the stream alone, so the way it was cut
into packets cannot matter; `PushInFrame` shows that a byte completes the first
frame or is one more of it, and `CarriesRest` that the rest begins with the next
request. The other conjuncts count: outcomes run ahead of responses by the one
being written, and the transfer under way is that of the next request. The
`"fresh"` conjunct says that a session opens on empty buffers, which `Restart`
provides.

`InOrder` and `CaptureInv` were checked by TLC on the instances above before they
were proved.

**Model-checked only**: liveness (`ResetHappens`, `LoadIsExecuted`, `DueTimerRuns`,
`EndIsNoticed`, `RequestsAreAnswered`), which needs fairness and ENABLED, outside
the provers' reach; and the disagreements with the documents, which are
counterexamples. Every other property of a run is a theorem.

## What is not modelled

- The bridge and the target as one system. The bridge passes the payload on as
  it is and looks at the I2C result only; what the target makes of it is a
  capture (`PacketCapture`) and a request of `OptiBridge`. A host that polls the
  target's response slot does so with two bridge requests.
- Sequence numbers at the target: it copies them, no decision depends on one.
- A port opened and closed again between two polls of DTR (50 ms), or closed and
  opened during one await: the bridge never sees it. REQ-BRIDGE-008 makes DTR
  polled; the model's hosts open the port once per enumeration.
- The bus: whether it is idle is a free choice at each look. A request accepted
  between the look at `has_pending` and `execute_pending` is executed without
  it; the model has the step, not the missed I2C transfer.
- Wall-clock time: 50 ms polls and delays are events that may happen.
- `dispatch`, `dispatch_with_bpf` and the `dispatch_packet` functions: the
  firmware calls none of them, only the unit tests do.
- The interpreter: sonde-bpf is external. A program calls helpers and stores
  through pointers it was given, ends, or does not. That the interpreter checks
  such a store against its region is assumed.
- Flash drivers that report success without effect; bit errors at rest.
- Host tools (`tools/*.py`): scripts at the bench; the host's side of the bridge is
  modelled after how they use it.
- `xtask`, build scripts, linker maps, HAL and USB descriptor initialisation: no
  state.
