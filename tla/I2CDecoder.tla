----------------------------- MODULE I2CDecoder -----------------------------
(***************************************************************************)
(* The I2C command decoder of src/src/i2c.c: ProcessI2CIn (the framing     *)
(* state machine fed from i2cRxQueue), the four length-specific command    *)
(* handlers ProcessI2C{1,2,3,4}byteCommand, ProcessI2CMIDICommand (MIDI    *)
(* and select-bus passthrough) and the response buffer the get commands    *)
(* fill for the slave's read path.                                         *)
(*                                                                         *)
(* ProcessI2CIn is a pure operator from (decoder, response, element) to    *)
(* the new decoder and response and the handler branch it ran.  Elements   *)
(* are queue entries: a data byte 0..255, or a negative tag (-address for  *)
(* an address byte, -0x100 for a read request).  Opcodes are the values    *)
(* of i2c.h; each set below lists the case labels or the conditions of one *)
(* branch of the code.                                                     *)
(***************************************************************************)
EXTENDS Integers, Sequences

kI2C_send_MIDI_message       == \h4F
kI2C_send_Select_Bus_message == \h50

\* The case labels of ProcessI2CIn's kWantByte1 state, by next state.
To2of4 == {\h11, \h46, \h47, \h51, \h52, \h54, \h55, \h5E}
To2ofN == {kI2C_send_MIDI_message, kI2C_send_Select_Bus_message}
To2of3 == {\h40, \h41, \h4D, \h5D, \h60, \h62, \h63, \h64, \h65, \h67}
To2of2 == {\h44, \h48, \h49, \h4A, \h4B, \h4C, \h53, \h56, \h59, \h5A, \h5B, \h5C, \h5F}
To1    == {\h42, \h43, \h45, \h4E, \h57, \h58, \h61, \h66}

\* The opcodes each handler's if-chain has a branch for.
Handled4 == {\h11} \cup (\h46 .. \h47) \cup (\h51 .. \h52) \cup (\h54 .. \h55)
              \cup (\h4F .. \h50) \cup {\h5E}
Handled3 == {\h4D, \h40, \h41} \cup (\h4F .. \h50) \cup {\h5D, \h60, \h62}
              \cup (\h63 .. \h65) \cup {\h67}
Handled2 == {\h53, \h56} \cup (\h4B .. \h4C) \cup {\h59, \h44} \cup (\h48 .. \h4A)
              \cup (\h5A .. \h5C) \cup {\h5F}
Handled1 == {\h57, \h4E, \h58, \h42, \h43, \h45, \h61, \h66}

States == {"Idle", "WantByte1", "WantByte2of4", "WantByte3of4", "WantByte4of4",
           "WantByte2of2", "WantByte2of3", "WantByte3of3", "WantByte2ofN"}

Hi(b) == b - (b % 16)         \* b & 0xf0
Lo(b) == b % 16              \* b & 0x0f

\* A handler branch that ran: the frame it saw, or the bytes
\* ProcessI2CMIDICommand sent to the MIDI output or the select bus.
Cmd(k, m) == [kind |-> "cmd", bytes |-> SubSeq(m, 1, k)]
Passthrough(m, n) ==
    [kind |-> IF m[1] = kI2C_send_MIDI_message THEN "midi" ELSE "select",
     bytes |-> SubSeq(m, 2, 1 + n)]

Out(d, r, calls) == [dec |-> d, resp |-> r, calls |-> calls]

\* numBytes with program change counted as a two-data-byte message.
MIDINumBytesPCAsThree(s) ==
    CASE Hi(s) \in {\h80, \h90, \hA0, \hB0, \hC0, \hE0} -> 3
      [] Hi(s) = \hD0 -> 2
      [] Hi(s) = \hF0 /\ Lo(s) \in {1, 3} -> 2
      [] Hi(s) = \hF0 /\ Lo(s) = 2 -> 3
      [] OTHER -> 1

\* ProcessI2CMIDICommand: numBytes from the MIDI status in i2cMsg[1].
MIDINumBytes(s) ==
    CASE Hi(s) \in {\h80, \h90, \hA0, \hB0, \hE0} -> 3
      [] Hi(s) \in {\hC0, \hD0} -> 2
      [] Hi(s) = \hF0 /\ Lo(s) \in {1, 3} -> 2
      [] Hi(s) = \hF0 /\ Lo(s) = 2 -> 3
      [] OTHER -> 1

ProcessI2CMIDICommand(m) ==
    IF Hi(m[2]) = \hF0 /\ Lo(m[2]) = 0 THEN <<>>                     \* sysex
    ELSE <<Passthrough(m, MIDINumBytes(m[2]))>>

\* A response: i2cResponse[0..n-1] = bytes, i2cResponseIndex = 0,
\* i2cResponseSize = n.
Respond(r, bytes) ==
    [buf |-> [i \in 1 .. 4 |-> IF i <= Len(bytes) THEN bytes[i] ELSE r.buf[i]],
     index |-> 0, size |-> Len(bytes)]

\* Handler calls: [resp, calls].
HandlerResult(r, calls) == [resp |-> r, calls |-> calls]

ProcessI2C4byteCommand(m, r) ==
    HandlerResult(r, IF m[1] \in To2ofN THEN ProcessI2CMIDICommand(m)
                     ELSE IF m[1] \in Handled4 THEN <<Cmd(4, m)>> ELSE <<>>)

ProcessI2C3byteCommand(m, r) ==
    HandlerResult(r, IF m[1] \in To2ofN THEN ProcessI2CMIDICommand(m)
                     ELSE IF m[1] \in Handled3 THEN <<Cmd(3, m)>> ELSE <<>>)

\* get_parameter_value/min/max answer the (stubbed) value v = 0 as v>>8, v.
ProcessI2C2byteCommand(m, r) ==
    CASE m[1] \in \h48 .. \h4A -> HandlerResult(Respond(r, <<0, 0>>), <<Cmd(2, m)>>)
      [] m[1] \in Handled2     -> HandlerResult(r, <<Cmd(2, m)>>)
      [] OTHER                 -> HandlerResult(r, <<>>)

\* get_current_preset answers 0 >> 8, 0; get_current_algorithm answers 1;
\* dual_get_current_algorithms answers 0, 0.
ProcessI2C1byteCommand(m, r) ==
    CASE m[1] = \h43 -> HandlerResult(Respond(r, <<0, 0>>), <<Cmd(1, m)>>)
      [] m[1] = \h45 -> HandlerResult(Respond(r, <<1>>), <<Cmd(1, m)>>)
      [] m[1] = \h61 -> HandlerResult(Respond(r, <<0, 0>>), <<Cmd(1, m)>>)
      [] m[1] \in Handled1 -> HandlerResult(r, <<Cmd(1, m)>>)
      [] OTHER -> HandlerResult(r, <<>>)

\* Run handler h on the frame of d and go to state s.
Dispatch(d, r, s, h) == Out([d EXCEPT !.state = s], h.resp, h.calls)

\* kWantByte1: the opcode picks the frame length.
WantByte1(d, r, b) ==
    LET d1 == [d EXCEPT !.msg[1] = b]
    IN CASE b \in To2of4 -> Out([d1 EXCEPT !.state = "WantByte2of4"], r, <<>>)
         [] b \in To2ofN -> Out([d1 EXCEPT !.state = "WantByte2ofN"], r, <<>>)
         [] b \in To2of3 -> Out([d1 EXCEPT !.state = "WantByte2of3"], r, <<>>)
         [] b \in To2of2 -> Out([d1 EXCEPT !.state = "WantByte2of2"], r, <<>>)
         [] b \in To1    -> Dispatch(d1, r, "Idle", ProcessI2C1byteCommand(d1.msg, r))
         [] OTHER        -> Out([d1 EXCEPT !.state = "Idle"], r, <<>>)

\* kWantByte2ofN: the MIDI status picks the frame length.
WantByte2ofN(d, r, b) ==
    LET d1 == [d EXCEPT !.msg[2] = b]
        Go(s) == Out([d1 EXCEPT !.state = s], r, <<>>)
    IN IF d1.msg[1] \notin To2ofN THEN Go("Idle")
       ELSE CASE Hi(b) \in {\h80, \h90, \hA0, \hB0, \hE0} -> Go("WantByte3of4")
              [] Hi(b) \in {\hC0, \hD0} -> Go("WantByte3of3")
              [] Hi(b) = \hF0 /\ Lo(b) = 0 -> Go("Idle")
              [] Hi(b) = \hF0 /\ Lo(b) \in {1, 3} -> Go("WantByte3of3")
              [] Hi(b) = \hF0 /\ Lo(b) = 2 -> Go("WantByte3of4")
              [] Hi(b) = \hF0 ->
                   Out([d1 EXCEPT !.state = "Idle"], r, ProcessI2CMIDICommand(d1.msg))
              [] OTHER -> Go("Idle")

\* kWantByte3of3: stores the byte and dispatches; the state is left as it is.
WantByte3of3(d, r, b) ==
    LET d1 == [d EXCEPT !.msg[3] = b]
    IN Dispatch(d1, r, d1.state, ProcessI2C3byteCommand(d1.msg, r))

ProcessI2CIn(d, r, b) ==
    LET Store(i, s) == Out([d EXCEPT !.msg[i] = b, !.state = s], r, <<>>)
    IN IF b < 0 THEN Out([d EXCEPT !.state = "WantByte1"], r, <<>>)
       ELSE CASE d.state = "Idle"         -> Out(d, r, <<>>)
              [] d.state = "WantByte1"    -> WantByte1(d, r, b)
              [] d.state = "WantByte2of4" -> Store(2, "WantByte3of4")
              [] d.state = "WantByte3of4" -> Store(3, "WantByte4of4")
              [] d.state = "WantByte4of4" ->
                   LET d1 == [d EXCEPT !.msg[4] = b]
                   IN Dispatch(d1, r, "Idle", ProcessI2C4byteCommand(d1.msg, r))
              [] d.state = "WantByte2ofN" -> WantByte2ofN(d, r, b)
              [] d.state = "WantByte2of2" ->
                   LET d1 == [d EXCEPT !.msg[2] = b]
                   IN Dispatch(d1, r, "Idle", ProcessI2C2byteCommand(d1.msg, r))
              [] d.state = "WantByte2of3" -> Store(2, "WantByte3of3")
              [] d.state = "WantByte3of3" -> WantByte3of3(d, r, b)

InitI2CDec == [state |-> "Idle", msg |-> <<0, 0, 0, 0>>]
InitResponse == [buf |-> <<0, 0, 0, 0>>, index |-> 0, size |-> 0]

\* What a read gets when the interrupt has no response byte to give.
NoData == -1

\* A read path that tests i2cResponseIndex <= i2cResponseSize.
ReadResponseOffByOne(r) ==
    IF r.index <= r.size
      THEN [resp |-> [r EXCEPT !.index = @ + 1], byte |-> r.buf[r.index + 1]]
      ELSE [resp |-> r, byte |-> NoData]

\* A read path that does not advance i2cResponseIndex.
ReadResponseNoAdvance(r) ==
    IF r.index < r.size
      THEN [resp |-> r, byte |-> r.buf[r.index + 1]]
      ELSE [resp |-> r, byte |-> NoData]

\* The read branch of I2C4SlaveInterruptHandler: the next response byte,
\* or, once the response is exhausted, NoData (I2CEN toggled, no data).
ReadResponse(r) ==
    IF r.index < r.size
      THEN [resp |-> [r EXCEPT !.index = @ + 1], byte |-> r.buf[r.index + 1]]
      ELSE [resp |-> r, byte |-> NoData]
=============================================================================
