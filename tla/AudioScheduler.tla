--------------------------- MODULE AudioScheduler ---------------------------
(***************************************************************************)
(* The cooperative audio service of src/src/app.c against the input DMA    *)
(* (channel 5, set up by setupAudioDMAs) that fills a buffer of two halves *)
(* of k_framesPerBlock frames each, in a loop.  DCH5INT BIT_4 (destination *)
(* half full) is set when the first half is complete, BIT_5 (destination   *)
(* done) when the second is; the DMA then writes the other half.           *)
(*                                                                         *)
(* The task runs displayLoop, which reaches CHECK_SERVICE_AUDIO between    *)
(* short pieces of display work.  At a checkpoint with BIT_5 set it clears *)
(* BIT_3|4|5 and runs serviceAudioInternalSingle: algorithm_step on the    *)
(* second half (ping k_framesPerBlock*2), FlushMIDIRx, DCH5INTCLR =        *)
(* BIT_4|BIT_5, a busy wait for BIT_4, algorithm_step on the first half    *)
(* (ping 0), FlushMIDIRx, then the LEDs, HandleMIDIOut and the switches.   *)
(* algorithm_step ends with a busy loop until more than 50% of a half      *)
(* block has passed since it began.                                        *)
(*                                                                         *)
(* Time is discrete: HalfTicks ticks per half block.  Durations the code   *)
(* does not fix are chosen at each start from bounded ranges: display      *)
(* work between checkpoints (1..MaxGap), the DSP part of algorithm_step    *)
(* (1..MaxWork) and FlushMIDIRx (0..MaxFlush, which grows with the bytes   *)
(* waiting in the three receive queues).  Steps without a duration         *)
(* (readAndTriggerADCs, the LEDs, HandleMIDIOut, the switch scan) take no  *)
(* time; what they do to data is modelled in the queue and decoder        *)
(* modules.                                                                *)
(*                                                                         *)
(* The display work itself is displayLoop of src/src/display.c: each piece *)
(* between two checkpoints is one pass of its loop body (send a byte of    *)
(* the frame over SPI5, or raise CS when the frame is out and check the    *)
(* refresh timer) or one stretch of updateDisplay between the checkpoints  *)
(* of its drawing loops.  The frame is FrameBytes pieces (512 bytes in the *)
(* code), updateDisplay UpdatePieces; the refresh timer counts blocks      *)
(* (time += k_framesPerBlock), RefreshSteps per refresh (SAMPLE_RATE/30    *)
(* samples), and the blanking countdown counts refreshes, BlankRefreshes   *)
(* of them (kTimeToBlank / kDisplayRefreshCount).  A byte taken by         *)
(* FlushMIDIRx (ProcessMIDIIn, ProcessI2CIn) resets the countdown.  The    *)
(* SPI shifts a byte out faster than a piece of display work, so the       *)
(* SPITBF / SPIBUSY polls never hold the loop.                             *)
(*                                                                         *)
(* The service's tail scans the two encoders every time slowTimeCountdown *)
(* runs out (it drops by 2 * k_framesPerBlock per service): each scan      *)
(* reads the A and B pins and counts an edge of A seen while B is low.     *)
(* The knobs are the environment: knob[e] is the quadrature position of    *)
(* encoder e, turned a quarter cycle at a time, at most once between two   *)
(* scans (a scan every 3 ms against a few ms per quarter detent).          *)
(***************************************************************************)
EXTENDS Integers

CONSTANTS HalfTicks,  \* ticks per half block (k_framesPerBlock frames)
          MaxGap,     \* longest display work between two checkpoints
          MaxWork,    \* longest DSP part of algorithm_step
          MaxFlush,   \* longest FlushMIDIRx
          FrameBytes,     \* pieces of one frame transfer (512 bytes)
          UpdatePieces,   \* checkpointed stretches of updateDisplay
          RefreshSteps,   \* blocks per refresh (kDisplayRefreshCount)
          BlankRefreshes, \* refreshes to blanking (kTimeToBlank)
          KnobsTurned,    \* the encoders the user turns
          KnobRange       \* quarter cycles a knob may travel from rest

ASSUME HalfTicks > 1 /\ MaxGap >= 1 /\ MaxWork >= 1 /\ MaxFlush >= 0
ASSUME FrameBytes >= 1 /\ UpdatePieces >= 1
ASSUME RefreshSteps >= 1 /\ BlankRefreshes >= 1
ASSUME KnobsTurned \subseteq {0, 1} /\ KnobRange \in Nat

VARIABLES dmaPos,    \* tick of the DMA within the two-half buffer
          halfFull,  \* DCH5INT BIT_4
          done,      \* DCH5INT BIT_5
          pc,        \* "check", "display", "step", "flush", "wait", "tail"
          i,         \* the loop index of serviceAudioInternalSingle
          left,      \* ticks left of the current display work, DSP or flush
          elapsed,   \* ticks since algorithm_step began (its t1 - t0)
          fresh,     \* per half: filled by the DMA and not yet processed
          displayBytesToSend,    \* -1, or pieces of the frame still to send
          updating,              \* stretches of updateDisplay still to run
          refreshCount,          \* displayLoop's refreshCount, in blocks
          sinceLast,             \* time - displayLastTime, in blocks
          displayBlankCountdown, \* in refreshes
          displayIsOn,
          slowTimeCountdown,
          lastEncA,        \* per encoder: halfState[e].lastEncA
          encoderCounter,  \* per encoder: halfState[e].encoderCounter (BYTE)
          knob,            \* per encoder: quadrature position
          moved            \* per encoder: turned since the last scan

dispVars == <<displayBytesToSend, updating, refreshCount, sinceLast,
              displayBlankCountdown, displayIsOn>>

scanVars == <<slowTimeCountdown, lastEncA, encoderCounter, knob, moved>>

vars == <<dmaPos, halfFull, done, pc, i, left, elapsed, fresh, dispVars,
          scanVars>>

Encoders == {0, 1}

\* SAMPLE_RATE / SLOW_RATE, and the countdown's step per service.
kSlowTimeRatio == 96000 \div 600
kServiceFrames == 2 * 32

Halves == {0, 1}

\* The half the DMA is writing: 0 is the first (ping 0), 1 the second.
WritingHalf == dmaPos \div HalfTicks

\* algorithm_step( &blocks, i ? 0 : (k_framesPerBlock*2) )
PingHalfSwapped == IF i = 0 THEN 0 ELSE 1

PingHalf == IF i = 0 THEN 1 ELSE 0

\* The load floor: cpuLoad = (t * 100) / (ticks per half block); stop when > 50.
LoadFloorMet(t) == (t * 100) \div HalfTicks > 50

(***************************************************************************)
(* The firmware enters displayLoop after the DMAs were started during      *)
(* initialisation, so the DMA may be anywhere and either flag may already  *)
(* be set (nothing clears them before the first checkpoint).               *)
(***************************************************************************)
Init ==
    /\ dmaPos \in 0 .. 2 * HalfTicks - 1
    /\ halfFull \in BOOLEAN
    /\ done \in BOOLEAN
    /\ pc = "check"
    /\ i = 0 /\ left = 0 /\ elapsed = 0
    /\ fresh = [h \in Halves |-> FALSE]
    /\ displayBytesToSend = -1 /\ updating = 0
    /\ refreshCount = 0 /\ sinceLast = 0
    /\ displayBlankCountdown = BlankRefreshes /\ displayIsOn = TRUE
    /\ slowTimeCountdown = kSlowTimeRatio
    /\ lastEncA = [e \in Encoders |-> 1]
    /\ encoderCounter = [e \in Encoders |-> 0]
    /\ knob = [e \in Encoders |-> 0] /\ moved = [e \in Encoders |-> FALSE]

\* Time passes only while the task is in one of its timed activities.
CanTick ==
    \/ pc \in {"display", "flush"} /\ left > 0
    \/ pc = "step" /\ ~(left = 0 /\ LoadFloorMet(elapsed))
    \/ pc = "wait" /\ ~halfFull

(***************************************************************************)
(* One tick: the DMA moves on, setting BIT_4 when it completes the first   *)
(* half and BIT_5 when it completes the second; the task's activity runs   *)
(* for a tick.                                                             *)
(***************************************************************************)
Tick ==
    /\ CanTick
    /\ LET next == (dmaPos + 1) % (2 * HalfTicks)
           completed == 1 - next \div HalfTicks
       IN /\ dmaPos' = next
          /\ halfFull' = (halfFull \/ next = HalfTicks)
          /\ done' = (done \/ next = 0)
          /\ fresh' = IF next % HalfTicks = 0
                        THEN [fresh EXCEPT ![completed] = TRUE]
                        ELSE fresh
    /\ left' = IF left > 0 THEN left - 1 ELSE 0
    /\ elapsed' = IF pc = "step" THEN elapsed + 1 ELSE elapsed
    /\ UNCHANGED <<pc, i, dispVars>>

\* A step that keeps the t0 of the previous call.
StartStepNoReset(k) ==
    /\ i' = k
    /\ pc' = "step"
    /\ \E w \in 1 .. MaxWork : left' = w
    /\ UNCHANGED elapsed
    /\ fresh' = [fresh EXCEPT ![IF k = 0 THEN 1 ELSE 0] = FALSE]
    /\ sinceLast' = IF sinceLast < RefreshSteps THEN sinceLast + 1
                                               ELSE RefreshSteps
    /\ UNCHANGED <<displayBytesToSend, updating, refreshCount,
                   displayBlankCountdown, displayIsOn>>

\* time += k_framesPerBlock; algorithm_step begins on the half of loop index k.
StartStep(k) ==
    /\ i' = k
    /\ pc' = "step"
    /\ \E w \in 1 .. MaxWork : left' = w
    /\ elapsed' = 0
    /\ fresh' = [fresh EXCEPT ![IF k = 0 THEN 1 ELSE 0] = FALSE]
    /\ sinceLast' = IF sinceLast < RefreshSteps THEN sinceLast + 1
                                               ELSE RefreshSteps
    /\ UNCHANGED <<displayBytesToSend, updating, refreshCount,
                   displayBlankCountdown, displayIsOn>>

(***************************************************************************)
(* CHECK_SERVICE_AUDIO: with BIT_5 set, clear BIT_3|4|5 and enter          *)
(* serviceAudioSingle (readAndTriggerADCs, then the loop at i = 0);        *)
(* otherwise carry on with the display work up to the next checkpoint.     *)
(***************************************************************************)
CheckServiceAudio ==
    /\ pc = "check"
    /\ \/ /\ done
          /\ halfFull' = FALSE /\ done' = FALSE
          /\ StartStep(0)
       \/ /\ ~done
          /\ pc' = "display"
          /\ \E g \in 1 .. MaxGap : left' = g
          /\ UNCHANGED <<halfFull, done, i, elapsed, fresh, dispVars>>
    /\ UNCHANGED dmaPos

(***************************************************************************)
(* updateDisplay up to the first checkpoint of its clear loop: while the   *)
(* display is on, count the blanking down and turn the panel off when the  *)
(* count runs out; while it is off, turn it back on if the count was       *)
(* reset.                                                                  *)
(***************************************************************************)
BlankLogic ==
    IF displayIsOn
    THEN LET c == displayBlankCountdown - 1
         IN  IF c <= 0
             THEN displayIsOn' = FALSE /\ displayBlankCountdown' = 0
             ELSE displayIsOn' = TRUE /\ displayBlankCountdown' = c
    ELSE /\ displayIsOn' = (displayBlankCountdown # 0)
         /\ UNCHANGED displayBlankCountdown

\* thisTime = time; refreshCount -= dt; if ( refreshCount <= 0 ) enter
\* updateDisplay; displayLastTime = thisTime.  sinceLast stops growing at
\* RefreshSteps: any larger dt fires the timer just the same, and the
\* value refreshCount keeps while updateDisplay runs is not read.
TimerCheck ==
    LET rc == refreshCount - sinceLast
    IN  /\ refreshCount' = rc
        /\ sinceLast' = 0
        /\ IF rc <= 0
           THEN BlankLogic /\ updating' = UpdatePieces
           ELSE UNCHANGED <<updating, displayBlankCountdown, displayIsOn>>

\* One pass of displayLoop's body after its CHECK_SERVICE_AUDIO.
LoopPass == pc = "display" /\ left = 0 /\ updating = 0 /\ pc' = "check"

\* if ( displayBytesToSend > 0 ): SPI5BUF = the next byte of the screen,
\* displayBytesToSend -= 1; continue.
SendByte ==
    /\ LoopPass
    /\ displayBytesToSend > 0
    /\ displayBytesToSend' = displayBytesToSend - 1
    /\ UNCHANGED <<dmaPos, halfFull, done, i, left, elapsed, fresh, updating,
                   refreshCount, sinceLast, displayBlankCountdown,
                   displayIsOn>>

\* The last byte is out but the frame is never closed.
FrameDoneNoRelease ==
    /\ LoopPass
    /\ displayBytesToSend = 0
    /\ TimerCheck
    /\ UNCHANGED <<dmaPos, halfFull, done, i, left, elapsed, fresh,
                   displayBytesToSend>>

\* else if ( displayBytesToSend == 0 ): CS high, displayBytesToSend = -1,
\* and on to the refresh timer in the same pass.
FrameDone ==
    /\ LoopPass
    /\ displayBytesToSend = 0
    /\ displayBytesToSend' = -1
    /\ TimerCheck
    /\ UNCHANGED <<dmaPos, halfFull, done, i, left, elapsed, fresh>>

\* No frame in flight: the refresh timer alone.
Idle ==
    /\ LoopPass
    /\ displayBytesToSend = -1
    /\ TimerCheck
    /\ UNCHANGED <<dmaPos, halfFull, done, i, left, elapsed, fresh,
                   displayBytesToSend>>

(***************************************************************************)
(* A stretch of updateDisplay (clearing and drawing the screen) up to its  *)
(* next checkpoint.  After the last, displayLoop sets displayBytesToSend = *)
(* 512, CS low and refreshCount = kDisplayRefreshCount.                    *)
(***************************************************************************)
UpdateDisplayPiece ==
    /\ pc = "display" /\ left = 0 /\ updating > 0
    /\ pc' = "check"
    /\ updating' = updating - 1
    /\ IF updating = 1
       THEN displayBytesToSend' = FrameBytes /\ refreshCount' = RefreshSteps
       ELSE UNCHANGED <<displayBytesToSend, refreshCount>>
    /\ UNCHANGED <<dmaPos, halfFull, done, i, left, elapsed, fresh, sinceLast,
                   displayBlankCountdown, displayIsOn>>

\* ProcessMIDIIn takes the bytes without resetting the countdown.
ResetBlankNoWake(f) == UNCHANGED displayBlankCountdown

\* ProcessMIDIIn and ProcessI2CIn: displayBlankCountdown = kTimeToBlank
\* for every byte FlushMIDIRx takes (a flush that takes time has bytes).
ResetBlank(f) ==
    displayBlankCountdown' = IF f > 0 THEN BlankRefreshes
                                      ELSE displayBlankCountdown

\* algorithm_step returns once its work is done and the load floor is met;
\* FlushMIDIRx follows.
AlgorithmStep ==
    /\ pc = "step" /\ left = 0 /\ LoadFloorMet(elapsed)
    /\ pc' = "flush"
    /\ \E f \in 0 .. MaxFlush : left' = f /\ ResetBlank(f)
    /\ UNCHANGED <<dmaPos, halfFull, done, i, elapsed, fresh, displayBytesToSend,
                   updating, refreshCount, sinceLast, displayIsOn>>

\* A loop that breaks after the first half as well.
FlushDoneNoSecondHalf ==
    /\ pc = "flush" /\ left = 0
    /\ pc' = "tail"
    /\ UNCHANGED <<dmaPos, halfFull, done, i, left, elapsed, fresh, dispVars>>

(***************************************************************************)
(* After FlushMIDIRx: at i = 1 break out of the loop; at i = 0 clear       *)
(* BIT_4|BIT_5 and busy-wait for BIT_4.                                    *)
(***************************************************************************)
FlushDone ==
    /\ pc = "flush" /\ left = 0
    /\ \/ /\ i = 1
          /\ pc' = "tail"
          /\ UNCHANGED <<halfFull, done>>
       \/ /\ i = 0
          /\ halfFull' = FALSE /\ done' = FALSE
          /\ pc' = "wait"
    /\ UNCHANGED <<dmaPos, i, left, elapsed, fresh, dispVars>>

\* for (;;) { if ( DCH5INT & BIT_4 ) break; }  then the loop at i = 1.
HalfBufferWait ==
    /\ pc = "wait" /\ halfFull
    /\ StartStep(1)
    /\ UNCHANGED <<dmaPos, halfFull, done>>

\* The pins of an encoder at a quadrature position: detents rest with both
\* contacts open (A = B = 1, the pull-ups); a turn that counts up passes
\* A=1 B=0, A=0 B=0, A=0 B=1.
Pins(p) == LET q == p % 4
           IN  [a |-> IF q \in {0, 1} THEN 1 ELSE 0,
                b |-> IF q \in {0, 3} THEN 1 ELSE 0]

\* An edge of A counted whatever B reads.
EncoderStepNoGate(e) ==
    LET s == Pins(knob[e]) IN
    CASE s.a = 0 /\ lastEncA[e] = 1 -> (encoderCounter[e] + 1) % 256
      [] s.a = 1 /\ lastEncA[e] = 0 -> (encoderCounter[e] + 255) % 256
      [] OTHER -> encoderCounter[e]

\* if ( !encB ) { A falling: encoderCounter += 1; A rising: -= 1 }, in
\* BYTE arithmetic.
EncoderStep(e) ==
    LET s == Pins(knob[e]) IN
    CASE s.b = 0 /\ s.a = 0 /\ lastEncA[e] = 1 -> (encoderCounter[e] + 1) % 256
      [] s.b = 0 /\ s.a = 1 /\ lastEncA[e] = 0 -> (encoderCounter[e] + 255) % 256
      [] OTHER -> encoderCounter[e]

(***************************************************************************)
(* The Z LEDs, if ( midiOutPending ) HandleMIDIOut() (MidiOutQueue), the   *)
(* pot switches, then slowTimeCountdown -= 2 * k_framesPerBlock; when it   *)
(* runs out it is reset and both encoders are scanned: read encA, encB,    *)
(* count, lastEncA = encA.  Back to the checkpoint's caller.               *)
(***************************************************************************)
ServiceTail ==
    /\ pc = "tail"
    /\ pc' = "check"
    /\ LET c == slowTimeCountdown - kServiceFrames IN
       IF c <= 0
       THEN /\ slowTimeCountdown' = kSlowTimeRatio
            /\ encoderCounter' = [e \in Encoders |-> EncoderStep(e)]
            /\ lastEncA' = [e \in Encoders |-> Pins(knob[e]).a]
            /\ moved' = [e \in Encoders |-> FALSE]
       ELSE /\ slowTimeCountdown' = c
            /\ UNCHANGED <<encoderCounter, lastEncA, moved>>
    /\ UNCHANGED <<dmaPos, halfFull, done, i, left, elapsed, fresh, dispVars,
                   knob>>

\* The user turns a knob a quarter cycle, at most once between two scans.
TurnKnob ==
    \E e \in KnobsTurned, d \in {-1, 1} :
        /\ ~moved[e]
        /\ knob[e] + d \in 0 .. KnobRange
        /\ knob' = [knob EXCEPT ![e] = knob[e] + d]
        /\ moved' = [moved EXCEPT ![e] = TRUE]
        /\ UNCHANGED <<dmaPos, halfFull, done, pc, i, left, elapsed, fresh,
                       dispVars, slowTimeCountdown, lastEncA, encoderCounter>>

\* Everything but the tail leaves the encoder scan alone.
Next ==
    \/ /\ \/ Tick \/ CheckServiceAudio \/ AlgorithmStep
          \/ SendByte \/ FrameDone \/ Idle \/ UpdateDisplayPiece
          \/ FlushDone \/ HalfBufferWait
       /\ UNCHANGED scanVars
    \/ ServiceTail
    \/ TurnKnob

(***************************************************************************)
(* The task never blocks (every wait is a busy loop) and time always       *)
(* passes, so some step is always taken.                                   *)
(***************************************************************************)
Spec == Init /\ [][Next]_vars /\ WF_vars(Next)
-----------------------------------------------------------------------------
TypeOK ==
    /\ dmaPos \in 0 .. 2 * HalfTicks - 1
    /\ halfFull \in BOOLEAN /\ done \in BOOLEAN
    /\ pc \in {"check", "display", "step", "flush", "wait", "tail"}
    /\ i \in {0, 1}
    /\ left \in 0 .. MaxGap + MaxWork + MaxFlush
    /\ elapsed \in 0 .. MaxWork + HalfTicks
    /\ fresh \in [Halves -> BOOLEAN]
    /\ displayBytesToSend \in -1 .. FrameBytes
    /\ updating \in 0 .. UpdatePieces
    /\ refreshCount \in -RefreshSteps .. RefreshSteps
    /\ sinceLast \in 0 .. RefreshSteps
    /\ displayBlankCountdown \in 0 .. BlankRefreshes
    /\ displayIsOn \in BOOLEAN
    /\ slowTimeCountdown \in {kSlowTimeRatio - k * kServiceFrames : k \in 0 .. 2}
    /\ lastEncA \in [Encoders -> {0, 1}]
    /\ encoderCounter \in [Encoders -> 0 .. 255]
    /\ knob \in [Encoders -> 0 .. KnobRange]
    /\ moved \in [Encoders -> BOOLEAN]

(***************************************************************************)
(* Double buffering (spec section 5, the per-block deadline): after a      *)
(* start-up transient, algorithm_step never again runs on the half of the  *)
(* buffer the DMA is writing.  The first services after displayLoop is     *)
(* entered run at whatever phase the DMA is in, with BIT_5 possibly stale  *)
(* from initialisation; the busy wait for BIT_4 must pull the service onto *)
(* the DMA's phase and the checkpoint must keep it there.                  *)
(***************************************************************************)
NoTornHalf == <>[](pc = "step" => WritingHalf # PingHalf)

(***************************************************************************)
(* No audio block is dropped: after the start-up transient, the DMA never  *)
(* starts rewriting a half that algorithm_step has not yet taken since the *)
(* DMA last filled it.                                                     *)
(***************************************************************************)
NoSkippedHalf == <>[](\A h \in Halves : fresh[h] => WritingHalf # h)

(***************************************************************************)
(* The display is never starved by the audio service and never stuck      *)
(* mid-frame: displayLoop keeps finishing frames (CS high,                 *)
(* displayBytesToSend = -1) and keeps starting new ones after              *)
(* updateDisplay.                                                          *)
(***************************************************************************)
FramesKeepFlowing ==
    /\ []<>(displayBytesToSend = -1)
    /\ []<>(displayBytesToSend = FrameBytes)

(***************************************************************************)
(* Activity wakes a blanked display: when FlushMIDIRx takes MIDI or I2C    *)
(* bytes while the panel is off, updateDisplay turns it back on.           *)
(***************************************************************************)
ActivityWakes == (pc = "flush" /\ left > 0 /\ ~displayIsOn) ~> displayIsOn

(***************************************************************************)
(* The encoder scan follows the knob: whenever a knob rests at a detent    *)
(* and has been scanned there, encoderCounter has moved by exactly the     *)
(* detents it was turned, modulo 256, whatever the bounce between A and B  *)
(* edges, the direction changes and the timing of scans against services.  *)
(***************************************************************************)
EncoderTracksKnob ==
    \A e \in Encoders :
        knob[e] % 4 = 0 /\ ~moved[e] => encoderCounter[e] = (knob[e] \div 4) % 256
=============================================================================
