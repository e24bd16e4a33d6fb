----------------------------- MODULE MidiDecoder -----------------------------
(***************************************************************************)
(* The MIDI input decoder of src/src/midi.c: ProcessMIDI and ProcessStatus *)
(* (a running-status byte-stream state machine), the sysex buffer with     *)
(* its two recognised frames, and DefaultMIDIMessageHandler with the MIDI  *)
(* clock counter of DefaultProcessRealTime.                                *)
(*                                                                         *)
(* The decoder's static state is the record `dec`.  ProcessMIDI is a pure  *)
(* operator from (dec, byte) to the new dec and the calls it makes:        *)
(* midiMessageHandler(status, channel, message), ProcessNativeSysEx and    *)
(* ProcessNonRealTimeSystemExclusive.  ProcessStatus and ProcessMIDI call  *)
(* each other, as in the C code.                                           *)
(***************************************************************************)
EXTENDS MidiBytes

CONSTANTS Bytes,     \* the bytes the input may carry
          MaxSysex,  \* kMaxSysex, capacity of the sysex buffer
          ClockWrap  \* 96*4: masterMIDIClockCounter counts modulo this

VARIABLES dec,            \* [state, sStatus, sChannel, sMessage, sysex]
          firstMidiClock, \* DefaultProcessRealTime: next clock restarts count
          masterMIDIClockCounter,
          handled         \* history: every call ProcessMIDI has made

InitDec == [state |-> "Idle", sStatus |-> 0, sChannel |-> 0,
            sMessage |-> <<0, 0>>, sysex |-> <<>>]

\* A buffer without its bound check: the frame grows past kMaxSysex.
AppendSysexUnbounded(d, b) == [d EXCEPT !.sysex = Append(@, b)]

\* sysex[sysexCount++] = b, when sysexCount < kMaxSysex.
AppendSysex(d, b) ==
    IF Len(d.sysex) < MaxSysex THEN [d EXCEPT !.sysex = Append(@, b)] ELSE d

\* The end of a frame (b = 0xf7): which recogniser, if any, it goes to.
EndOfSysex(sx) ==
    IF Len(sx) > 4 /\ SubSeq(sx, 1, 4) = SysExIDES
      THEN <<Frame("native", sx)>>
    ELSE IF Len(sx) > 2 /\ sx[2] = \h7E
      THEN <<Frame("nonRealTime", sx)>>
    ELSE <<>>

\* System real time is one byte, 0xF8..0xFF; an off-by-one bound misses 0xF8.
IsRealTimeOffByOne(b) == b > \hF8

\* The early exit of ProcessMIDI: b >= 0xf8.
IsRealTime(b) == b >= \hF8

RECURSIVE ProcessMIDI(_, _), ProcessStatus(_, _)

ProcessStatus(d, b) ==
    LET d1 == IF IsStatus(b) THEN [d EXCEPT !.sStatus = Hi(b), !.sChannel = Lo(b)]
                             ELSE d
        d2 == CASE d1.sStatus \in TwoDataStatus -> [d1 EXCEPT !.state = "WantByte1of2"]
                [] d1.sStatus \in OneDataStatus -> [d1 EXCEPT !.state = "WantByte1of1"]
                [] d1.sStatus = \hF0 /\ d1.sChannel = 0 ->
                       [d1 EXCEPT !.state = "WantSysex", !.sysex = <<b>>]
                [] OTHER -> d1
    IN IF ~IsStatus(b) /\ d2.state # "Idle" THEN ProcessMIDI(d2, b)
                                            ELSE Result(d2, <<>>)

ProcessMIDI(d, b) ==
    IF IsRealTime(b)
      THEN Result(d, <<Msg(\hF0, Lo(b), <<>>)>>)   \* real time, message NULL
    ELSE CASE d.state = "Idle" -> ProcessStatus(d, b)
           [] d.state = "WantByte1of1" ->
                LET m == <<b, d.sMessage[2]>>
                IN Result([d EXCEPT !.sMessage = m, !.state = "Idle"],
                          <<Msg(d.sStatus, d.sChannel, m)>>)
           [] d.state = "WantByte1of2" ->
                Result([d EXCEPT !.sMessage[1] = b, !.state = "WantByte2"], <<>>)
           [] d.state = "WantByte2" ->
                LET m == <<d.sMessage[1], b>>
                IN Result([d EXCEPT !.sMessage = m, !.state = "Idle"],
                          <<Msg(d.sStatus, d.sChannel, m)>>)
           [] d.state = "WantSysex" ->
                LET d1 == AppendSysex(d, b)
                    d2 == [d1 EXCEPT !.state = "Idle"]
                IN IF ~IsStatus(b) THEN Result(d1, <<>>)
                   ELSE IF b # \hF7 THEN ProcessStatus(d2, b)
                   ELSE Result(d2, EndOfSysex(d1.sysex))

(***************************************************************************)
(* DefaultMIDIMessageHandler: only system real time (status 0xF0, channel  *)
(* >= 8) changes state, through DefaultProcessRealTime: Start (0xA) arms   *)
(* firstMidiClock, Clock (0x8) restarts or advances the counter.           *)
(***************************************************************************)
IsClock(c) == c.kind = "msg" /\ c.status = \hF0 /\ c.channel = \h8
IsStart(c) == c.kind = "msg" /\ c.status = \hF0 /\ c.channel = \hA

DefaultMIDIMessageHandler(c) ==
    CASE IsStart(c) ->
           /\ firstMidiClock' = TRUE
           /\ UNCHANGED masterMIDIClockCounter
      [] IsClock(c) /\ firstMidiClock ->
           /\ firstMidiClock' = FALSE
           /\ masterMIDIClockCounter' = 0
      [] IsClock(c) ->
           /\ masterMIDIClockCounter' = (masterMIDIClockCounter + 1) % ClockWrap
           /\ UNCHANGED firstMidiClock
      [] OTHER -> UNCHANGED <<firstMidiClock, masterMIDIClockCounter>>

vars == <<dec, firstMidiClock, masterMIDIClockCounter, handled>>

Init ==
    /\ dec = InitDec
    /\ firstMidiClock = FALSE
    /\ masterMIDIClockCounter = 0
    /\ handled = <<>>

\* One byte taken from midiRxQueue by FlushMIDIRx and passed to ProcessMIDIIn.
Receive(b) ==
    LET r == ProcessMIDI(dec, b)
    IN /\ dec' = r.dec
       /\ handled' = handled \o r.calls
       \* ProcessMIDI makes at most one call per byte
       /\ IF r.calls = <<>> THEN UNCHANGED <<firstMidiClock, masterMIDIClockCounter>>
                            ELSE DefaultMIDIMessageHandler(r.calls[1])

Next == \E b \in Bytes : Receive(b)

Spec == Init /\ [][Next]_vars

TypeOK ==
    /\ dec.state \in {"Idle", "WantByte1of1", "WantByte1of2", "WantByte2", "WantSysex"}
    /\ dec.sStatus \in {0} \cup {16 * k : k \in 8 .. 15}
    /\ dec.sChannel \in 0 .. 15
    /\ dec.sMessage \in (0 .. 255) \X (0 .. 255)
    /\ Len(dec.sysex) <= MaxSysex
    /\ firstMidiClock \in BOOLEAN
    /\ masterMIDIClockCounter \in 0 .. ClockWrap - 1
=============================================================================
