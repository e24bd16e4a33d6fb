---------------------------- MODULE SettingsFlash ----------------------------
(***************************************************************************)
(* The persisted control settings of the Peaks algorithm                  *)
(* (src/src/algorithm.cc) and the flash operation they are written with   *)
(* (NVMOpWithAudioService, src/src/nvm.c).                                 *)
(*                                                                         *)
(* algorithmData.settings is an edit mode and two function selectors.     *)
(* algorithm_UI changes them on encoder button presses and holds and sets *)
(* writeToFlash, then applies the two encoders and the two pots to the     *)
(* processors' parameters (processorParams) in the mode the buttons left.  *)
(* algorithm_idle, when writeToFlash is set, clears it, erases the        *)
(* settings page, fills pageBuffer with the record (magic,     *)
(* mode, function 0, function 1) and programs it as a row.  Each           *)
(* NVMOpWithAudioService starts the operation and then spins on NVMCON    *)
(* running CHECK_SERVICE_AUDIO_INTERNAL, so the audio service (and with it *)
(* the UI) runs while the flash is busy.  algorithm_init, at power-up,    *)
(* loads the record when its magic is present and takes the defaults      *)
(* otherwise.                                                              *)
(*                                                                         *)
(* Neither algorithm_UI nor algorithm_idle has a caller in the sources:   *)
(* they are the "mark dirty" and "flush if dirty" entry points the host    *)
(* layer drives (spec section 3).  UI events may come at any time the      *)
(* task is not inside algorithm_idle's unbroken stretches, the flush is    *)
(* called periodically, and power may be lost at any point.               *)
(*                                                                         *)
(* A flash word is an int; an erased word reads 0xFFFFFFFF, that is -1.    *)
(* The row program is taken to latch pageBuffer when it starts.            *)
(***************************************************************************)
EXTENDS Integers, Sequences

CONSTANTS InitFlash,    \* contents of the settings row at the first power-up
          MaxEdits,     \* bound on algorithm_UI calls
          MaxRestarts,  \* bound on power losses
          EncInputs,    \* the enc[0..1] an algorithm_UI call may be given
          ZInputs       \* the adcs.Z[0..1].value it may find

\* The host passes the detents since the last call; one at most per call.
ASSUME EncInputs \subseteq [{0, 1} -> -1 .. 1]
\* Z.value is the sum of kNumZsamples = 8 twelve-bit conversions.
ASSUME ZInputs \subseteq [{0, 1} -> 0 .. 8 * 4095]

\* peaks::EditMode and the 8 entries of function_table_.
TWIN == 0
SPLIT == 1
FIRST == 2
SECOND == 3
Modes == {TWIN, SPLIT, FIRST, SECOND}
Functions == 0 .. 7
FUNCTION_ENVELOPE == 0

\* kPeaksMagic = 0xbeefbeac read through an int*.
kPeaksMagic == -1091584340
Erased == -1
ErasedRow == <<Erased, Erased, Erased, Erased>>

VARIABLES mode,       \* algorithmData.settings.edit_mode
          fn,         \* algorithmData.settings.function[0..1]
          dirty,      \* algorithmData.writeToFlash
          flash,      \* the first four words of the settings page
          pageBuf,    \* the first four words of pageBuffer
          nvm,        \* "none", or the operation algorithm_idle waits on
          edited,     \* algorithm_UI has changed settings since power-up
          ctl,        \* algorithmData.encoderValue, potValue, processorParams
          edits, restarts

vars == <<mode, fn, dirty, flash, pageBuf, nvm, edited, ctl, edits, restarts>>

Procs == {0, 1}
Params == 0 .. 3

\* After algorithm_init's memset.
CtlInit == [encoderValue |-> [i \in Procs |-> 0],
            potValue |-> [i \in Procs |-> 0],
            processorParams |-> [p \in Procs |-> [j \in Params |-> 0]]]

Record(m, f) == <<kPeaksMagic, m, f[0], f[1]>>

(***************************************************************************)
(* SetFunction(index, f): in TWIN and SPLIT both selectors take f; in the *)
(* expert modes only selector index does.                                  *)
(***************************************************************************)
SetFunction(m, f, index, v) ==
    IF m \in {SPLIT, TWIN} THEN [i \in {0, 1} |-> v] ELSE [f EXCEPT ![index] = v]

\* algorithm_init: after the memset, the record's mode, then SetFunction(0,
\* ptr[2]) and SetFunction(1, ptr[3]) in that mode; else TWIN, ENVELOPE.
Load(row) ==
    IF row[1] = kPeaksMagic
      THEN LET f0 == SetFunction(row[2], [i \in {0, 1} |-> 0], 0, row[3])
           IN [mode |-> row[2], fn |-> SetFunction(row[2], f0, 1, row[4])]
      ELSE [mode |-> TWIN, fn |-> [i \in {0, 1} |-> FUNCTION_ENVELOPE]]

Init ==
    /\ flash \in InitFlash
    /\ mode = Load(flash).mode /\ fn = Load(flash).fn
    /\ dirty = FALSE
    /\ pageBuf = <<0, 0, 0, 0>>
    /\ nvm = "none"
    /\ edited = FALSE /\ ctl = CtlInit
    /\ edits = 0 /\ restarts = 0

(***************************************************************************)
(* The button branches of algorithm_UI, by event: a short press acts on   *)
(* release, a hold when holdCounter reaches SLOW_RATE.                    *)
(***************************************************************************)
Events == {"none", "press", "hold"}

\* Left button: press toggles edit_mode ^= 1; hold switches between TWIN
\* and the expert mode FIRST ( edit_mode & 2 ? TWIN : FIRST ).
LeftMode(m, e) ==
    CASE e = "press" -> IF m % 2 = 0 THEN m + 1 ELSE m - 1
      [] e = "hold"  -> IF m \in {FIRST, SECOND} THEN TWIN ELSE FIRST
      [] OTHER       -> m

\* A right-button press that steps f without the & 3 wrap.
RightFnNoWrap(m, f, e) ==
    LET cur == IF m = SECOND THEN f[1] ELSE f[0]
        index == m - FIRST
    IN CASE e = "press" -> SetFunction(m, f, index, (cur \div 4) * 4 + (cur % 4) + 1)
         [] e = "hold"  -> SetFunction(m, f, index, IF cur >= 4 THEN cur - 4 ELSE cur + 4)
         [] OTHER       -> f

\* Right button: f is selector 1 in SECOND, selector 0 otherwise; press
\* steps ( f & 4 ) | ( ( ( f & 3 ) + 1 ) & 3 ), hold flips f ^ 4; either
\* goes through SetFunction( edit_mode - FIRST, ... ).
RightFn(m, f, e) ==
    LET cur == IF m = SECOND THEN f[1] ELSE f[0]
        index == m - FIRST
    IN CASE e = "press" -> SetFunction(m, f, index, (cur \div 4) * 4 + (((cur % 4) + 1) % 4))
         [] e = "hold"  -> SetFunction(m, f, index, IF cur >= 4 THEN cur - 4 ELSE cur + 4)
         [] OTHER       -> f

kEncoderScale == 1000

\* APPLY_RANGE( x, lo, hi )
ApplyRange(x, lo, hi) == IF x < lo THEN lo ELSE IF x > hi THEN hi ELSE x

\* The store into a uint16_t element of processorParams.
UInt16(x) == x % 65536

\* An expert-mode turn stored without its APPLY_RANGE.
EncoderTurnNoClamp(m, c, i, e) ==
    LET ev == ApplyRange(c.encoderValue[i] + kEncoderScale * e, 0, 65535)
        v == c.processorParams[m - FIRST][i] + kEncoderScale * e
    IN CASE m = TWIN  -> [c EXCEPT !.encoderValue[i] = ev,
                                   !.processorParams[0][i] = UInt16(ev),
                                   !.processorParams[1][i] = UInt16(ev)]
         [] m = SPLIT -> [c EXCEPT !.encoderValue[i] = ev,
                                   !.processorParams[0][i] = UInt16(ev)]
         [] OTHER     -> [c EXCEPT !.encoderValue[i] = ev,
                                   !.processorParams[m - FIRST][i] = UInt16(v)]

(***************************************************************************)
(* Encoder i turned by e detents: encoderValue[i] moves by kEncoderScale*e *)
(* within 0..65535; TWIN sets parameter i of both processors to it, SPLIT  *)
(* of processor 0; an expert mode adds the turn to its own processor's     *)
(* parameter i instead (within 0..65535).                                  *)
(***************************************************************************)
EncoderTurn(m, c, i, e) ==
    LET ev == ApplyRange(c.encoderValue[i] + kEncoderScale * e, 0, 65535)
        v == ApplyRange(c.processorParams[m - FIRST][i] + kEncoderScale * e, 0, 65535)
    IN CASE m = TWIN  -> [c EXCEPT !.encoderValue[i] = ev,
                                   !.processorParams[0][i] = UInt16(ev),
                                   !.processorParams[1][i] = UInt16(ev)]
         [] m = SPLIT -> [c EXCEPT !.encoderValue[i] = ev,
                                   !.processorParams[0][i] = UInt16(ev)]
         [] OTHER     -> [c EXCEPT !.encoderValue[i] = ev,
                                   !.processorParams[m - FIRST][i] = UInt16(v)]

\* The encoder loop: for ( i=0; i<2; ++i ) if ( enc[i] ) ...
Encoders(m, c, enc) ==
    LET c0 == IF enc[0] # 0 THEN EncoderTurn(m, c, 0, enc[0]) ELSE c
    IN IF enc[1] # 0 THEN EncoderTurn(m, c0, 1, enc[1]) ELSE c0

\* A SPLIT pot that writes processor 1's parameter 2+i, as the expert modes do.
PotMoveSplitHigh(m, c, i, pot) ==
    LET c1 == [c EXCEPT !.potValue[i] = pot]
    IN IF pot - c.potValue[i] < 1024 /\ c.potValue[i] - pot < 1024 THEN c
       ELSE CASE m = TWIN  -> [c1 EXCEPT !.processorParams[0][2 + i] = UInt16(pot),
                                         !.processorParams[1][2 + i] = UInt16(pot)]
              [] m = SPLIT -> [c1 EXCEPT !.processorParams[1][2 + i] = UInt16(pot)]
              [] OTHER     -> [c1 EXCEPT !.processorParams[m - FIRST][2 + i] = UInt16(pot)]

(***************************************************************************)
(* Pot i reads pot: ignored while |pot - potValue[i]| < 1024; else it is   *)
(* taken as potValue[i] and sets parameter 2+i of both processors (TWIN),  *)
(* parameter i of processor 1 (SPLIT), or parameter 2+i of the expert      *)
(* mode's processor.                                                       *)
(***************************************************************************)
PotMove(m, c, i, pot) ==
    LET c1 == [c EXCEPT !.potValue[i] = pot]
    IN IF pot - c.potValue[i] < 1024 /\ c.potValue[i] - pot < 1024 THEN c
       ELSE CASE m = TWIN  -> [c1 EXCEPT !.processorParams[0][2 + i] = UInt16(pot),
                                         !.processorParams[1][2 + i] = UInt16(pot)]
              [] m = SPLIT -> [c1 EXCEPT !.processorParams[1][i] = UInt16(pot)]
              [] OTHER     -> [c1 EXCEPT !.processorParams[m - FIRST][2 + i] = UInt16(pot)]

\* The pot loop over pot[i] = adcs.Z[i].value << 1.
Pots(m, c, z) == PotMove(m, PotMove(m, c, 0, 2 * z[0]), 1, 2 * z[1])

(***************************************************************************)
(* One algorithm_UI( enc ) call: the left button first, the right button   *)
(* in the mode it left, then the encoders and the pots in that mode.  Only *)
(* the button branches set writeToFlash.                                   *)
(***************************************************************************)
AlgorithmUI ==
    /\ edits < MaxEdits
    /\ \E l, r \in Events, enc \in EncInputs, z \in ZInputs :
         LET m1 == LeftMode(mode, l)
             button == <<l, r>> # <<"none", "none">>
         IN /\ mode' = m1
            /\ fn' = RightFn(m1, fn, r)
            /\ ctl' = Pots(m1, Encoders(m1, ctl, enc), z)
            /\ dirty' = (dirty \/ button)
            /\ edited' = (edited \/ button)
    /\ edits' = edits + 1
    /\ UNCHANGED <<flash, pageBuf, nvm, restarts>>

(***************************************************************************)
(* NVMOpWithAudioService up to NVMCONSET = 0x8000: interrupts off, DMA     *)
(* suspended, NVMCON = op, the unlock keys, the start, DMA and interrupts  *)
(* restored.  The operation is then in progress while the caller spins.   *)
(***************************************************************************)
NVMOpStart(op) == nvm' = op

\* An algorithm_idle that never clears writeToFlash.
AlgorithmIdleNoClear ==
    /\ nvm = "none" /\ dirty
    /\ NVMOpStart("erase")
    /\ UNCHANGED <<mode, fn, dirty, flash, pageBuf, edited, ctl, edits, restarts>>

(***************************************************************************)
(* algorithm_idle with writeToFlash set: clear it, then NVMADDR and        *)
(* NVMOpWithAudioService( 0x4004 ) up to the start of the page erase.      *)
(***************************************************************************)
AlgorithmIdle ==
    /\ nvm = "none" /\ dirty
    /\ dirty' = FALSE
    /\ NVMOpStart("erase")
    /\ UNCHANGED <<mode, fn, flash, pageBuf, edited, ctl, edits, restarts>>

\* A row write that clears writeToFlash again once the row is written.
ProgramDoneLateClear ==
    /\ nvm = "program"
    /\ flash' = pageBuf
    /\ nvm' = "none"
    /\ dirty' = FALSE
    /\ UNCHANGED <<mode, fn, pageBuf, edited, ctl, edits, restarts>>

(***************************************************************************)
(* The erase completes: the wait loop ends, NVMOpWithAudioService returns, *)
(* algorithm_idle fills pageBuffer from the settings as they are now and   *)
(* starts the row program (NVMOpWithAudioService( 0x4003 )).               *)
(***************************************************************************)
EraseDone ==
    /\ nvm = "erase"
    /\ flash' = ErasedRow
    /\ pageBuf' = Record(mode, fn)
    /\ NVMOpStart("program")
    /\ UNCHANGED <<mode, fn, dirty, edited, ctl, edits, restarts>>

\* The row program completes; algorithm_idle returns.
ProgramDone ==
    /\ nvm = "program"
    /\ flash' = pageBuf
    /\ nvm' = "none"
    /\ UNCHANGED <<mode, fn, dirty, pageBuf, edited, ctl, edits, restarts>>

(***************************************************************************)
(* Power is lost and the module restarts into algorithm_init.  An erase   *)
(* cut short leaves the row as it was or erased, a row program cut short   *)
(* leaves it erased or written; RAM, writeToFlash included, is lost.      *)
(***************************************************************************)
Restart ==
    /\ restarts < MaxRestarts
    /\ \E row \in (CASE nvm = "erase"   -> {flash, ErasedRow}
                     [] nvm = "program" -> {flash, pageBuf}
                     [] OTHER           -> {flash}) :
         /\ flash' = row
         /\ mode' = Load(row).mode /\ fn' = Load(row).fn
    /\ dirty' = FALSE
    /\ pageBuf' = <<0, 0, 0, 0>>
    /\ nvm' = "none"
    /\ edited' = FALSE
    /\ ctl' = CtlInit
    /\ restarts' = restarts + 1
    /\ UNCHANGED edits

Next ==
    \/ AlgorithmUI \/ AlgorithmIdle \/ EraseDone \/ ProgramDone \/ Restart

\* The host calls the flush periodically (spec section 3) and the flash
\* controller finishes what it starts.
Fairness ==
    /\ WF_vars(AlgorithmIdle)
    /\ WF_vars(EraseDone)
    /\ WF_vars(ProgramDone)

Spec == Init /\ [][Next]_vars /\ Fairness
-----------------------------------------------------------------------------
TypeOK ==
    /\ mode \in Modes
    /\ fn \in [{0, 1} -> Functions]
    /\ dirty \in BOOLEAN /\ edited \in BOOLEAN
    /\ nvm \in {"none", "erase", "program"}
    /\ ctl.encoderValue \in [Procs -> 0 .. 65535]
    /\ ctl.processorParams \in [Procs -> [Params -> 0 .. 65535]]
    /\ edits \in 0 .. MaxEdits /\ restarts \in 0 .. MaxRestarts

\* No flush pending or in progress, and something to have flushed.
Saved == edited /\ ~dirty /\ nvm = "none"

(***************************************************************************)
(* Persisted: once algorithm_idle has nothing left to do after an edit,    *)
(* the settings row holds the record of the settings as they are now,     *)
(* although the UI may change them while either flash operation is in     *)
(* progress (the record is taken between the erase and the program).       *)
(***************************************************************************)
Persisted == Saved => flash = Record(mode, fn)

(***************************************************************************)
(* Every edit is eventually written: from writeToFlash set, algorithm_idle *)
(* eventually reaches a state with nothing left to do (or power is lost,   *)
(* which forgets the edit).                                                *)
(***************************************************************************)
EventuallySaved == dirty ~> (Saved \/ ~edited)

(***************************************************************************)
(* A restart after the settings are saved restores them: algorithm_init   *)
(* loads from the row exactly the settings that were written to it.        *)
(***************************************************************************)
RestoresSaved == Saved => Load(flash) = [mode |-> mode, fn |-> fn]

\* The parameters algorithm_UI may change in edit mode m: all in TWIN, the
\* encoders' and pots' first two (of processor 0 and 1) in SPLIT, and only
\* the selected processor's in an expert mode.
Addresses(m, p, j) ==
    CASE m = TWIN  -> TRUE
      [] m = SPLIT -> j \in {0, 1}
      [] OTHER     -> p = m - FIRST

(***************************************************************************)
(* The controls act on the processors the edit mode selects: no            *)
(* algorithm_UI call changes a parameter that the mode the buttons left    *)
(* does not address -- in an expert mode the other processor's parameters  *)
(* are frozen, and in SPLIT the pots do not reach the envelope parameters.  *)
(***************************************************************************)
ParamsAddressed ==
    [][restarts' = restarts =>
         \A p \in Procs, j \in Params :
             ctl'.processorParams[p][j] # ctl.processorParams[p][j]
                 => Addresses(mode', p, j)]_vars

(***************************************************************************)
(* In the expert modes the encoders are relative: one algorithm_UI call    *)
(* moves the selected processor's encoder parameters by at most one       *)
(* detent (kEncoderScale), whatever the pots set before -- a value near    *)
(* the top left by a SPLIT pot must not wrap in the uint16_t store.        *)
(***************************************************************************)
ExpertEncoderRelative ==
    [][restarts' = restarts /\ mode' \in {FIRST, SECOND} =>
         \A j \in {0, 1} :
             LET old == ctl.processorParams[mode' - FIRST][j]
                 new == ctl'.processorParams[mode' - FIRST][j]
             IN new - old <= kEncoderScale /\ old - new <= kEncoderScale]_vars
=============================================================================
