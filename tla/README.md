# TLA+ models of the distingEX control core

These modules model the control core of `src/src/`. It consists of:
- three interrupt-fed byte streams (MIDI, select bus, I2C) and their ring buffers;
- the decoders that consume those streams in task context;
- the select-bus echo suppression;
- the MIDI output queue;
- the audio-block scheduler that runs all of this between DSP blocks;
- the display loop that runs between the audio services;
- the calibration tables;
- the persisted control settings and their flash writes.

Every definition is translated from the C source. `PROJECT.json` maps each
modelled definition to the lines it stands for. It also lists:
- the runs;
- the mutants that show each checked property can fail;
- the findings;
- the hazards the code is exposed to.

## 1. The system

| Part | Code | State | Operations | Interacts with |
|---|---|---|---|---|
| Receive ring buffers | `app.c` 57–73, 510–575, 747–787; `i2c.c` 505–579 | `*RxQueue[]`, `*RxQueueRead` (boots at -1), `*RxQueueWrite` (0) | ISR push (dropped when `read == write`); FlushMIDIRx pop (advance the index, then load the slot) | The three ISRs (priorities: UART2 select 4, I2C4 3, UART4 MIDI 1) and the task |
| MIDI decoder | `midi.c` 43–185, 323–384 | `state, sStatus, sChannel, sMessage[2], sysex[], sysexCount`; the MIDI clock counters | `ProcessMIDI`/`ProcessStatus` (mutually recursive), frame recognition at F7, `DefaultMIDIMessageHandler` | midiRxQueue; `midiMessageHandler` |
| Select-bus / Recall decoder | `recall.c` 43–197 | The same machine with `sysex[20]`, plus `saveMode` | CC16 latch, PC save/load of `slot & 63`, the F4 save shortcut | selectRxQueue; `midiMessageHandler` |
| I2C command decoder | `i2c.c` 36–54, 505–912 | `i2cState, i2cMsg[4]`, `i2cResponse[4], i2cResponseIndex, i2cResponseSize` | `ProcessI2CIn` (9 states), the 1/2/3/4-byte handlers, `ProcessI2CMIDICommand`; the ISR read path | i2cRxQueue; MIDI out; select-bus transmit |
| Select echo suppression | `app.c` 510–535, `i2c.c` 581–633 | `recallIgnoreBytes`, the UART2 transmit FIFO | The passthrough writes its bytes, then `recallIgnoreBytes += n`; the UART2 ISR discards that many | I2C passthrough, UART2 ISR, selectRxQueue |
| MIDI output queue | `midi.c` 386–502 | `midiQueue[736]`, the read position (boots at -1) and the write position, `midiOutPending` | `QueueMIDI1/2/3`, `BlockingQueueMIDI1/2/3` (spin on the transmitter), `HandleMIDIOut` | I2C passthrough, the audio service, UART4 |
| Audio block scheduler | `app.c` 612–745, `app.h` 188–221, `algorithm.cc` 82–222, `display.c` 100–157 | DMA position and the BIT_4/BIT_5 flags; the service loop | `CHECK_SERVICE_AUDIO`, `serviceAudioInternalSingle` (two algorithm steps, FlushMIDIRx, the half-full busy wait, then the tail's slow-rate encoder scan into `encoderCounter`), the 50% load floor | All decoders run inside it; display and flash loops call its checkpoint |
| Display loop | `display.c` 98–157, 254–329; `midi.c` 379–384; `i2c.c` 763–765 | `displayBytesToSend` (-1 or bytes left), `refreshCount` and `displayLastTime` against `time`, `displayBlankCountdown`, `displayIsOn` | One SPI byte per loop pass, CS high at the frame's end, the 30 Hz refresh timer, `updateDisplay`'s blanking test and drawing | Runs between audio checkpoints; MIDI and I2C bytes reset the blanking countdown |
| Calibration | `calibrate.c` 30–221 | `settings`, `inputCalibrations[6]`, `halfState[].Erf/Dd`, `badCalibration` | `ReadCalibrationFromSettings`: range check and defaults, then the fixed-point coefficients | The audio path (`algorithm_step`) |
| Persisted settings | `algorithm.cc` 50–80, 226–384; `nvm.c` 138–185 | `algorithmData.settings` (edit mode, 2 functions), `writeToFlash`, the settings row, `pageBuffer`; `encoderValue`, `potValue`, `processorParams` | `algorithm_UI` (button branches, then the two encoders and two pots on the parameters), `algorithm_idle` (erase, fill, program), `algorithm_init` | The audio service runs during both flash waits |

What makes the core hard:
- interrupts preempt the task between any two statements;
- an I2C read is answered by the ISR from state the task writes;
- the task's read-modify-write of `recallIgnoreBytes` races the UART2 ISR;
- queues fill up, and frames are truncated;
- the audio deadline depends on how long the background work takes;
- flash writes wait with the audio service (and so the UI) running.

## 2. Modules

| Module | Models | State ↔ code |
|---|---|---|
| `LossyQueue` | The abstract ring-buffer contract of spec §3/§4.1: a FIFO of capacity `Cap` that drops the incoming element when full. | `q` (stored), `n` (arrived), `out` (popped) |
| `RxQueue` | One receive queue (app.c) with its real indices. It refines `LossyQueue` through `Pending` and `Delivered` (`Contract == INSTANCE LossyQueue WITH ...`): FlushMIDIRx's index store is the abstract pop, so the abstract queue is the slots strictly after the read index up to the write index, and the claimed slot's byte is already output. | `rxQueue`, `rxQueueRead`, `rxQueueWrite`. `flushPc` splits FlushMIDIRx's index store from its slot load. Bytes are arrival numbers. |
| `SelectEcho` | Extends `RxQueue` with the UART2 ISR's discard branch, the passthrough's transmit loop, and the two-step `recallIgnoreBytes += numBytes` (load, then store, in BYTE width). | `recallIgnoreBytes`, `txFifo`, `ptPc` (`idle`/`tx`/`store`), `loaded`. `accepted` and `ignored` record which bytes, echo or foreign, went where. |
| `MidiBytes` | The byte vocabulary shared by both MIDI-framed decoders. | `Hi` = `b & 0xf0`, `Lo` = `b & 0x0f`, the status classes |
| `MidiDecoder` | `ProcessMIDI`/`ProcessStatus` as RECURSIVE pure operators, and the default handler's clock. | `dec` = the decoder statics; `handled` = history of handler calls |
| `MCMidi` | MidiDecoder driven by a MIDI sender. | The sender sends whole messages, with or without running status, the native and a foreign sysex frame, and real-time bytes anywhere. |
| `RecallDecoder` | `Recall_ProcessMIDI` and the functions it calls. | `rec` = the decoder statics and `saveMode`; `recalls` = history of Save/Load/handler/sysex calls |
| `MCRecall` | RecallDecoder behind selectRxQueue, driven by another module on the select bus. | The recall vocabulary: CC16 latch, PC, F4, other CCs, the native frame |
| `I2CDecoder` | `ProcessI2CIn`, the four handlers, `ProcessI2CMIDICommand`, and the response read path, all as pure operators. | Decoder `[state, msg]`; response `[buf, index, size]` |
| `MCI2C` | The I2C slave end to end: a controller, the ISR, i2cRxQueue (by its contract) and the task. | Write and read transactions, the `-(address)` and `-0x100` tags; `FlushI2C` = one FlushMIDIRx iteration |
| `MidiOutQueue` | The MIDI output queue: QueueMIDI1, `QueueMIDIn` (QueueMIDI2/3), the BlockingQueueMIDI loops, HandleMIDIOut, the audio service's `if (midiOutPending) HandleMIDIOut()`, and the UART4 FIFO. | `midiQueue`, `midiQueueReadPos`, `midiQueueWritePos`, `midiOutPending`, `txFifo` (UTXBF = full), `wire`; `caller` = the bytes of the call in progress |
| `AudioScheduler` | The cooperative audio service against the input DMA, in discrete time (`HalfTicks` per half block). | `dmaPos`, `halfFull`/`done` (DCH5INT BIT_4/BIT_5), `pc` through check, display, step, flush, wait and tail; `elapsed` (t1 - t0 of the load floor); `fresh` (halves filled and not yet processed). The display work between checkpoints is displayLoop: `SendByte`, `FrameDone` (CS high, then the timer), `Idle` (the timer alone), `UpdateDisplayPiece` (a stretch of updateDisplay); `TimerCheck` and `BlankLogic` are the refresh timer and the blanking test; `ResetBlank` is the countdown reset in ProcessMIDIIn/ProcessI2CIn, done when FlushMIDIRx takes bytes. `ServiceTail` runs `slowTimeCountdown` and, when it runs out, the encoder scan: `Pins` (the A/B levels at a quadrature position) and `EncoderStep` (count an A edge while B is low, BYTE-wide); `lastEncA`, `encoderCounter`. `knob` and `moved` are the user's hand (`TurnKnob`) |
| `Calibration` | `ReadCalibrationFromSettings` as one action: copy, validate (`checkValidRange`), fall back to defaults (fully wiped or per point), then build the coefficient tables. | `nvm` (the stored points), `settings`, `inputCalibrations`, `halfState`, `badCalibration`. Floats are exact reduced fractions; `(int)` of `x * 2^22 / n` is the recursive long division `TruncShift`. |
| `MCCalibration` | Stored calibration points for TLC: good, degenerate (zero span), out of range and wiped. | |
| `SettingsFlash` | The Peaks settings record: `algorithm_UI`'s button branches through `SetFunction`; `algorithm_idle`'s erase, fill and row program, with `NVMOpStart` for the start of each `NVMOpWithAudioService`; then the encoder loop (`EncoderTurn`: TWIN and SPLIT set absolute values from `encoderValue`, the expert modes add `kEncoderScale` per detent under `APPLY_RANGE`) and the pot loop (`PotMove`, with its 1024 dead band); power loss at any point; `algorithm_init`'s load. | `ctl` (`encoderValue`, `potValue`, `processorParams`), `mode`, `fn`, `dirty` (`writeToFlash`), `flash` (first four words of the row; erased = -1), `pageBuf`, `nvm` (`none`/`erase`/`program`) |
| `MCSettingsFlash` | First-boot rows for TLC: erased, FIRST and TWIN records. | |

Each decoder has one action per byte: `Receive`, `RecallReceive` or `FlushI2C`. That
action is the whole of `ProcessMIDIIn`, `Recall_ProcessMIDI` or `ProcessI2CIn`,
recursion and handler included. Conversions are modelled by what they do. Examples:
- the nibble split and `slot & 63`;
- the passthrough's byte count;
- BYTE overflow of `recallIgnoreBytes`;
- `(f & 4) | (((f & 3) + 1) & 3)`;
- the calibration's fixed-point division.

algorithm_UI, algorithm_idle and the BlockingQueueMIDI2/3 functions have no caller in
the sources. They are entry points that the host layer drives, and the models drive
them as such.

## 3. Runs

| Run | Expect | What it shows |
|---|---|---|
| `rx_lossy` | violation | **Finding (code bug, app.c:59).** A receive queue does not refine the lossy FIFO. The read index boots at -1, so `read == write` cannot hold before the first pop. TLC's trace is four pushes with no pop: after three the queue is full, the fourth is still stored and wraps the write index to 0, and FlushMIDIRx then sees an empty queue, so the three bytes held are not delivered where the contract drops only the fourth. With the read index booting at `Size - 1` instead, the same run passes. |
| `select_echo` | pass | `PopIntegrity`: whatever the interleaving of ISR and task, selectRxQueue hands over only received bytes, each once, in order. `NoEchoAccepted`: no echo of this module's own passthrough bytes reaches the Recall decoder, although the count is raised only after the bytes are in the transmit FIFO. |
| `select_echo_lost` | violation | **Finding (code bug, i2c.c:633).** `recallIgnoreBytes += numBytes` loses the ISR's decrement when an echo of the previous message arrives between the load and the store. The count stays one too high, and the next byte another module sends is discarded (`NoOtherIgnored`). |
| `midi_wellformed` | pass | `DecodedAsSent`: exactly the sent messages are dispatched, in order. This holds with running status, real-time bytes anywhere (inside sysex too), and a native frame longer than the buffer. |
| `recall_wellformed` | pass | `RecalledAsSent`: exactly the requested presets are saved or loaded, under the CC16 latch, running status and `& 63`. F4 saves below 0x40, and everything else goes to the handler. |
| `i2c_framing` | pass | `DispatchedAsFramed`: one handler branch per complete frame, with its first L bytes, for every length class; none for a frame cut short. `ReadsAsResponded`: a read after decoding returns the last get's response, then NoData. |
| `midi_out` | pass | `OutIntegrity`: the transmitter gets the bytes given to the BlockingQueueMIDI calls, each at most once and in order, whatever the order of calls, full-queue spins (with QueueMIDI3's partial writes), audio service and UART. `EventuallySent` (liveness): every byte given after the first HandleMIDIOut reaches the cable. |
| `audio_service` | pass | With FlushMIDIRx short, after a start-up transient algorithm_step never runs on the half the DMA is writing (`NoTornHalf`), and no filled half is overwritten before it is processed (`NoSkippedHalf`). A stale BIT_5 from initialisation and any DMA phase at entry are included. `FramesKeepFlowing` (liveness): the display loop is never starved by the services and keeps finishing and starting frames. `ActivityWakes` (liveness): MIDI or I2C bytes taken while the panel is blanked turn it back on, including bytes taken inside the very update that blanked it. `EncoderTracksKnob`: whenever a knob rests at a detent and has been scanned there, `encoderCounter` has moved by exactly the detents turned (mod 256), through reversals mid-detent and scans at any phase of the service. |
| `audio_flush_overrun` | violation | **Finding (spec divergence, app.c:691).** With FlushMIDIRx able to take several ticks, step plus flush run past the half-full event. `DCH5INTCLR = BIT_4 \| BIT_5` then wipes it, and the service locks onto the wrong phase for good, processing the half the DMA is writing. The spec requires the per-block deadline to hold. |
| `calibration` | pass | `InputsCalibrated` and `OutputsCalibrated`: every input and output coefficient equals the spec's formula over the effective points (stored, or defaulted when invalid or wiped), with the right half and input map. `WarnedOfDefaults`: `badCalibration` is set exactly when a non-wiped calibration was replaced by defaults. |
| `settings_flush` | pass | `Persisted`: once algorithm_idle has nothing left to do after an edit, the settings row holds the current settings, even with UI edits during either flash wait and power lost anywhere. `EventuallySaved` (liveness): every edit is eventually flushed, or lost to a power cut. `ParamsAddressed`: a UI call changes only parameters the edit mode it leaves selects, even when a button changes the mode in the same call as a control moves. `ExpertEncoderRelative`: in FIRST and SECOND a UI call moves either of the first two parameters by at most one encoder step, at the range ends too. |
| `settings_restore` | violation | **Finding (code bug, algorithm.cc:72).** algorithm_init loads a TWIN or SPLIT record through `SetFunction`, which sets both selectors, so both come back as the saved function 1. A hold of the left button in an expert mode leaves exactly such a record. After a power cycle, processor 0 changes function (`RestoresSaved`). |

Each property of a passing run has a mutant in `PROJECT.json`: a plausible bug under
which TLC finds the property violated. The mutants are:
- a transmit loop that ignores UTXBF;
- a select loop that loads the slot after the one it claimed;
- a store that adds one byte too few;
- a missing sysex bound;
- `>` for `>=` on real time;
- a latch set by any value;
- a PC counted as 3 bytes;
- a read index that is not advanced, or is tested with `<=`;
- an output wrap tested with `>`;
- a HandleMIDIOut that does not store the read position;
- a QueueMIDI1 without its full test;
- a step that keeps the previous t0;
- swapped ping halves;
- a loop that also breaks after the first half;
- an unguarded `Bf` (division by zero);
- swapped input-map halves;
- swapped output coefficients;
- a validity check that ignores the outputs;
- a function step without `& 3`;
- `writeToFlash` cleared again after the row program;
- `writeToFlash` never cleared;
- a SPLIT pot that writes the wrong processor;
- an expert encoder step without `APPLY_RANGE`;
- a frame end that never sets `displayBytesToSend = -1`;
- a ProcessMIDIIn that does not reset the blanking countdown;
- an encoder scan that counts A edges without looking at B.

## 4. Bounds and why they suffice

- **Receive queue (`rx_lossy`).** `Size = 4` and `MaxRx = 7`: the -1 defect needs
  exactly `Size` pushes, and the write index wraps before and after the first pop.
  With a boot index of `Size - 1` the refinement holds over all 1018 states at
  `MaxRx = 9`, including a FlushMIDIRx fetch with the write index wrapped onto
  the claimed slot, so the violation comes from the -1 alone.
- **Select echo.** The settings are:
  - `Size = 4`, a 3-deep transmit FIFO;
  - passthrough statuses of length 3, 2, 0 (sysex, which sends nothing) and 1;
  - 3 messages against 5 foreign bytes.

  These make back-to-back messages, where the echo race needs the previous message's
  bytes still in flight at the next load. Five foreign bytes fill the 4-slot queue
  both before the first pop (the -1 boot wrap) and after it, and the UART2 ISR
  then arrives between FlushMIDIRx's index store and its slot load with the queue
  full (each case checked reachable with a negated invariant). `select_echo_lost`
  keeps 2 foreign bytes: one after the lost decrement is enough.
- **MIDI.** The sender's range:
  - 3 messages and 2 real-time bytes (Clock, Start);
  - a 2-data note-on and a 1-data PC;
  - data values {1, 127}.

  `MaxSysex = 5` is shorter than the 6-byte native frame, so the buffer bound is
  exercised. Every decoder state is reached with a real-time byte in it.
- **Recall.** 3 messages over CC ch1/ch2, PC ch1 and F4, with data {16, 70, 127}:
  - 16 is the latch controller;
  - 70 & 63 = 6 exercises the mask, and 70 ≥ 0x40 the F4 limit;
  - 127 sets the latch.
- **I2C.** The settings are:
  - 3 transactions and reads of up to 3 bytes, one more than the longest response;
  - nine opcodes covering every length class, the passthroughs and an unknown opcode;
  - MIDI statuses: a 2-data message, PC, SPP and real time;
  - a 16-entry queue, so framing is checked without overflow, which is a separate
    hazard.
- **MIDI output.** `Size = 4`, a 2-byte transmit FIFO and 9 bytes. The queue holds
  `Size - 1` bytes, so 4 is the least in which a 3-byte QueueMIDI3 message can ever
  fit. 9 bytes wrap the queue twice and make the spin path, and QueueMIDI3's partial
  writes, run.
- **Audio.** `HalfTicks = 8`, so the 50% load floor falls between ticks 4 and 5. DSP
  work takes 1–5 ticks and display work 1 tick between checkpoints. FlushMIDIRx
  takes 0–1 ticks in `audio_service` and 0–3 in `audio_flush_overrun`: with 3,
  step plus flush can pass the half-full event.
- **Display.** A frame is 2 pieces (512 bytes in the code) and updateDisplay 2
  stretches between checkpoints. A refresh is 2 blocks and blanking 2 refreshes.
  These ratios are far smaller than the code's (100 blocks per refresh, 27000
  refreshes to blanking), but every order of events is kept. The panel blanks, bytes
  arrive while it is off and inside the update that blanked it, and a refresh
  falls due while a frame is still going out. The timer's elapsed count stops at
  one refresh, since any larger value fires the timer the same way.
- **Encoders.** One knob is turned (`KnobsTurned = {0}`) over `KnobRange = 4` quarter
  cycles. That is one full detent, reached and turned back from any point, so both
  counting edges and the edge of A while B is high all occur. The other knob rests.
  `slowTimeCountdown` runs on its real values (160, minus 64 per service).
- **Calibration.** Each input point is one of these:
  - good and in range;
  - degenerate (0 V equal to 3 V);
  - out of range;
  - wiped (-1).

  Each output point is one of these:
  - good;
  - out of range.

  Inputs and outputs, over all 6 inputs and 4 outputs, give 65536 stored
  calibrations. They cover the default-per-point path, the wiped path and the
  `Bf` and `n` zero fallbacks.
- **Settings.** The ranges:
  - the first-boot row is erased, a FIRST record or a TWIN record with different
    functions;
  - 3 UI calls, each with a press, a hold or nothing on either button, so an edit
    can land in the erase wait, the program wait and after them;
  - 1 power loss;
  - encoders still or turned one detent in opposite directions, and pots at
    32760 (×2 ≥ 1024 from the start, to pass the dead band and reach 65520 in
    SPLIT, where the next expert detent would overflow without `APPLY_RANGE`).

## 5. Fairness and deadlock

- **MidiOutQueue.** Weak fairness on the task's BlockingQueueMIDI loops, on the audio
  service's HandleMIDIOut and on the UART. The task runs every audio block, and the
  hardware shifts out a loaded byte. Callers are not fair, because they may stop
  sending.
- **AudioScheduler.** `WF_vars(Next)`. Every wait in the task is a busy loop and time
  always passes, so some step is always enabled and taken. `NoTornHalf` and
  `NoSkippedHalf` are `<>[]` properties because the first services after boot run at
  an arbitrary DMA phase. `FramesKeepFlowing` and `ActivityWakes` need no fairness
  beyond this: the display work is the only step enabled once its ticks have run.
  The knob is the user and gets no fairness; it turns at most once between scans,
  so it cannot crowd out the task.
- **SettingsFlash.** Weak fairness on `AlgorithmIdle` and on the completion of both
  flash operations. The spec (§3) says the host calls "flush if dirty" periodically,
  and the flash controller finishes what it starts. UI calls and power loss are not
  fair.
- **The other runs** check safety only, with no fairness.

When their environments stop after their bounds, some runs say `CHECK_DEADLOCK FALSE`:
- the decoders then wait for input for ever, a real state of the system;
- the calibration read runs once at start-up;
- the settings code, with nothing to flush, is idle.

`RxQueue`, `SelectEcho` and `AudioScheduler` do check deadlock.

## 6. Not modelled

- **I2C response atomicity (i2c.c:712).** The handlers' response stores are modelled
  as one step. A read falls between them only if it starts before the task has
  decoded its get command. That is the same timing obligation as i2c.c:512, and
  `i2c_framing` has reads wait for the decode.
- **The shared handler (recall.c:85).** Both decoders call one
  `DefaultMIDIMessageHandler`. Its only state is the MIDI clock counter, and the
  select-bus MIDI thru in app.c is disabled.
- **Truncated MIDI and I2C overrun.** Two sequential decoder behaviours that a unit
  test reaches directly:
  - a status byte stored as data after an abandoned message (midi.c:338);
  - `kWantByte3of3` never returning to idle (i2c.c:905).

  They were checked as violation runs earlier. They now give up their slots to the
  flash settings model (the project keeps 12 runs), and stay in the hazard list.
- **pageBuffer during the row program (algorithm.cc:208).** The load-floor loop
  writes `pageBuffer[0]` while a row program from pageBuffer may be in progress. When
  the flash controller reads its source is hardware timing, not in the sources. The
  model latches the row when the program starts.
- **The unused int64 calibration fields.** Br, D and Er (calibrate.c:178) are never
  read by the audio path, and exceed TLC's 32-bit integers.
- **Functions with no caller.** These are: `checkValidRanges`; `NVMUnlock`,
  `NVMErasePage`, `NVMWriteWord` and `NVMWriteRow`; `sendBytes` and the display
  writes it reaches (`flushDisplayWrite`, `flushDisplayWriteWithAudioService`,
  `allowDisplayWrite`); the `*WithAudioService` screen helpers; `FlushMIDIOut`;
  and the native sysex command bodies (`ProcessNativeSysEx`, stubs behind its frame
  and id tests). `FlushMIDIOut` would spin on HandleMIDIOut with no checkpoint,
  which the spec's rule for unbounded loops (§2) forbids, but nothing calls it.
- **The checkpoint's reentrancy guard.** The spec asks for an in-progress flag;
  `CheckServiceAudio` has none. No code in `src/` reaches a checkpoint from inside
  the service (FlushMIDIRx's decoders and handlers, HandleMIDIOut and algorithm_step
  call none), so the guard's absence has no reachable effect.
- **What the display shows.** drawString88, xorScreen, the message mode and the
  contents of `screen` are pixel layout. `startupSequence`/`copyToDisplay` run once,
  before the scheduler. The SPITBF/SPIBUSY polls are left out because the SPI sends
  a byte faster than a piece of display work takes. The 32-bit wrap of `time` is
  also left out: it happens after 12 hours, and the unsigned difference hides it.
- **The Z input filter (`processADCZs`, app.c 128–139).** A running sum over 8
  samples of 12-bit ADC values. What it computes is per-sample arithmetic, and
  SettingsFlash takes its output as the pot input.
- **The rest of the service's tail.** The Z LED PWM values and the pot switch bits
  are stores of data that no modelled property reads.
- **Hardware bring-up, DSP arithmetic.** These are register I/O
  and per-sample floating point, with no protocol or scheduling logic. The codec is
  configured at boot by the I2C master (`ConfigureCodec`, `SendPacket`): a fixed
  series of writes that stops in `ErrorHalt` on a missing ACK, with no retry (the
  i2c.c:254 hazard). `i2cSendPacket` and `i2cReceivePacket` have no caller.

Note: `selectRxQueueRead` is a `char`, whose signedness depends on the compiler. If
it is unsigned, -1 is 255, and `(255 + 1) & 15 = 0` and `255 != write` behave exactly
as -1 does. The model therefore covers both builds.
