---------------------------- MODULE RecallDecoder ----------------------------
(***************************************************************************)
(* The select-bus decoder of src/src/recall.c: Recall_ProcessMIDI and      *)
(* Recall_ProcessStatus (the same running-status machine as midi.c, but    *)
(* with no early exit for real-time bytes and with 0xF4 as a one-data-byte *)
(* message), Recall_ProcessMessage (the save-mode latch, preset save and   *)
(* load, the 0xF4 save shortcut) and the native sysex recogniser.          *)
(*                                                                         *)
(* The decoder's static state, saveMode included, is the record `rec`;     *)
(* Recall_ProcessMIDI is a pure operator from (rec, byte) to the new rec   *)
(* and the calls it makes: Recall_Save(slot), Recall_Load(slot),           *)
(* midiMessageHandler(status, channel, message), ProcessNativeSysEx.       *)
(***************************************************************************)
EXTENDS MidiBytes

CONSTANTS RecallBytes,    \* the bytes the select bus may carry
          RecallMaxSysex  \* kMaxSysex of recall.c (20)

VARIABLES rec,      \* [state, sStatus, sChannel, sMessage, sysex, saveMode]
          recalls   \* history: every call Recall_ProcessMIDI has made

InitRec == [state |-> "Idle", sStatus |-> 0, sChannel |-> 0,
            sMessage |-> <<0, 0>>, sysex |-> <<>>, saveMode |-> FALSE]

\* slot &= 63 in Recall_Save and Recall_Load.
SlotOf(s) == s % 64
Save(s) == [kind |-> "save", slot |-> SlotOf(s)]
Load(s) == [kind |-> "load", slot |-> SlotOf(s)]

\* A latch set by any value of controller 16.
SaveLatchAny(m) == TRUE

\* saveMode = ( sMessage[1] == 127 ).
SaveLatch(m) == m[2] = 127

\* Recall_ProcessMessage: a complete message in rec.sMessage.
Recall_ProcessMessage(d) ==
    LET m == d.sMessage
        ToHandler == Result(d, <<Msg(d.sStatus, d.sChannel, m)>>)
    IN CASE d.sChannel = 0 /\ d.sStatus = \hB0 /\ m[1] = 16 ->
              Result([d EXCEPT !.saveMode = SaveLatch(m)], <<>>)
         [] d.sChannel = 0 /\ d.sStatus = \hC0 ->
              Result(d, <<IF d.saveMode THEN Save(m[1]) ELSE Load(m[1])>>)
         [] d.sChannel # 0 /\ d.sStatus + d.sChannel = \hF4 -> \* ( sStatus | sChannel ) == 0xF4
              Result(d, IF m[1] < \h40 THEN <<Save(m[1])>> ELSE <<>>)
         [] OTHER -> ToHandler

\* A buffer without its bound check.
RecallAppendSysexUnbounded(d, b) == [d EXCEPT !.sysex = Append(@, b)]

\* if ( sysexCount < kMaxSysex ) sysex[sysexCount++] = b;
RecallAppendSysex(d, b) ==
    IF Len(d.sysex) < RecallMaxSysex THEN [d EXCEPT !.sysex = Append(@, b)] ELSE d

RECURSIVE Recall_ProcessMIDI(_, _), Recall_ProcessStatus(_, _)

Recall_ProcessStatus(d, b) ==
    LET d1 == IF IsStatus(b) THEN [d EXCEPT !.sStatus = Hi(b), !.sChannel = Lo(b)]
                             ELSE d
    IN IF d1.sStatus = \hF0 /\ d1.sChannel \notin {0, 4}
         \* return midiMessageHandler( sStatus, sChannel, sMessage );
         THEN Result(d1, <<Msg(\hF0, d1.sChannel, d1.sMessage)>>)
         ELSE LET d2 ==
                    CASE d1.sStatus \in TwoDataStatus -> [d1 EXCEPT !.state = "WantByte1of2"]
                      [] d1.sStatus \in OneDataStatus
                           \/ (d1.sStatus = \hF0 /\ d1.sChannel = 4) ->
                             [d1 EXCEPT !.state = "WantByte1of1"]
                      [] d1.sStatus = \hF0 ->
                             [d1 EXCEPT !.state = "WantSysex", !.sysex = <<b>>]
                      [] OTHER -> d1
              IN IF ~IsStatus(b) /\ d2.state # "Idle" THEN Recall_ProcessMIDI(d2, b)
                                                      ELSE Result(d2, <<>>)

Recall_ProcessMIDI(d, b) ==
    CASE d.state = "Idle" -> Recall_ProcessStatus(d, b)
      [] d.state = "WantByte1of1" ->
           LET r == Recall_ProcessMessage([d EXCEPT !.sMessage[1] = b])
           IN Result([r.dec EXCEPT !.state = "Idle"], r.calls)
      [] d.state = "WantByte1of2" ->
           Result([d EXCEPT !.sMessage[1] = b, !.state = "WantByte2"], <<>>)
      [] d.state = "WantByte2" ->
           LET r == Recall_ProcessMessage([d EXCEPT !.sMessage[2] = b])
           IN Result([r.dec EXCEPT !.state = "Idle"], r.calls)
      [] d.state = "WantSysex" ->
           LET d1 == RecallAppendSysex(d, b)
               d2 == [d1 EXCEPT !.state = "Idle"]
               sx == d1.sysex
           IN IF ~IsStatus(b) THEN Result(d1, <<>>)
              ELSE IF b # \hF7 THEN Recall_ProcessStatus(d2, b)
              ELSE Result(d2, IF Len(sx) > 4 /\ SubSeq(sx, 1, 4) = SysExIDES
                                THEN <<Frame("native", sx)>> ELSE <<>>)

recVars == <<rec, recalls>>

RecallInit ==
    /\ rec = InitRec
    /\ recalls = <<>>

\* One byte taken from selectRxQueue by FlushMIDIRx.
RecallReceive(b) ==
    LET r == Recall_ProcessMIDI(rec, b)
    IN /\ rec' = r.dec
       /\ recalls' = recalls \o r.calls

RecallNext == \E b \in RecallBytes : RecallReceive(b)

RecallSpec == RecallInit /\ [][RecallNext]_recVars

RecallTypeOK ==
    /\ rec.state \in {"Idle", "WantByte1of1", "WantByte1of2", "WantByte2", "WantSysex"}
    /\ rec.sStatus \in {0} \cup {16 * k : k \in 8 .. 15}
    /\ rec.sChannel \in 0 .. 15
    /\ rec.sMessage \in (0 .. 255) \X (0 .. 255)
    /\ Len(rec.sysex) <= RecallMaxSysex
    /\ rec.saveMode \in BOOLEAN
=============================================================================
