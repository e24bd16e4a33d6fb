------------------------------ MODULE MidiBytes ------------------------------
(***************************************************************************)
(* Byte-level vocabulary shared by the two MIDI-framed decoders, ProcessMIDI *)
(* of src/src/midi.c and Recall_ProcessMIDI of src/src/recall.c.  Bytes are *)
(* integers 0..255; a byte b has status nibble b - b % 16 (the code's       *)
(* b & 0xf0) and channel nibble b % 16 (b & 0x0f).                          *)
(***************************************************************************)
EXTENDS Naturals, Sequences

Hi(b) == b - (b % 16)         \* b & 0xf0
Lo(b) == b % 16              \* b & 0x0f
IsStatus(b) == b >= \h80     \* b & 0x80

\* The case labels of ProcessStatus that lead to kWantByte1of2 / kWantByte1of1.
TwoDataStatus == {\h80, \h90, \hA0, \hB0, \hE0}
OneDataStatus == {\hC0, \hD0}

\* sysExIDES: the Expert Sleepers sysex header.
SysExIDES == <<\hF0, \h00, \h21, \h27>>

\* A call of midiMessageHandler (status, channel, the sMessage bytes it
\* sees), or of a sysex frame handler with the buffered frame.
Msg(s, c, m) == [kind |-> "msg", status |-> s, channel |-> c, data |-> m]
Frame(k, f)  == [kind |-> k, status |-> \hF0, channel |-> 0, data |-> f]

\* What one byte does to a decoder: its new state and the calls it made.
Result(d, calls) == [dec |-> d, calls |-> calls]
=============================================================================
