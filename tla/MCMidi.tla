------------------------------- MODULE MCMidi -------------------------------
(***************************************************************************)
(* The MIDI decoder driven by a MIDI sender on the bus.  The sender emits  *)
(* whole messages -- channel messages with or without their status byte    *)
(* (running status), sysex frames -- one byte at a time, and may put a     *)
(* system real-time byte between any two bytes.                           *)
(*                                                                         *)
(* `sent` lists the calls a correct decoder makes for what has been sent:  *)
(* one midiMessageHandler call per channel or real-time message with the   *)
(* message's own data bytes, one frame call per recognised sysex frame     *)
(* holding the bytes the buffer keeps.                                     *)
(***************************************************************************)
EXTENDS MidiDecoder, FiniteSets

CONSTANTS Data,          \* data byte values the sender uses
          Statuses,      \* channel-message status bytes the sender uses
          RealTimeBytes, \* system real-time bytes the sender interleaves
          MaxMsgs,       \* bound on messages sent
          MaxRealTime    \* bound on real-time bytes sent

VARIABLES pending,    \* bytes of the current message not yet on the wire
          expect,     \* the calls the current message should produce
          runStatus,  \* the sender's running status; 0 when there is none
          sent,       \* history: calls expected for everything sent
          nMsgs, nRealTime

senderVars == <<pending, expect, runStatus, sent, nMsgs, nRealTime>>

DataLen(s) == IF Hi(s) \in TwoDataStatus THEN 2 ELSE 1

DataSeqs(s) == IF DataLen(s) = 2 THEN {<<x, y>> : x, y \in Data} ELSE {<<x>> : x \in Data}

\* Messages the sender may start, given its running status.
ChannelMessages ==
    UNION { { [bytes |-> <<s>> \o m, calls |-> <<Msg(Hi(s), Lo(s), m)>>, run |-> s]
              : m \in DataSeqs(s) } : s \in Statuses }
RunningMessages ==
    { [bytes |-> m, calls |-> <<Msg(Hi(runStatus), Lo(runStatus), m)>>, run |-> runStatus]
      : m \in IF runStatus = 0 THEN {} ELSE DataSeqs(runStatus) }
NativeFrame == <<\hF0, \h00, \h21, \h27, \h5D, \hF7>>
ForeignFrame == <<\hF0, \h7E, \hF7>>
Kept(f) == SubSeq(f, 1, IF Len(f) < MaxSysex THEN Len(f) ELSE MaxSysex)
SysexMessages ==
    { [bytes |-> NativeFrame, calls |-> <<Frame("native", Kept(NativeFrame))>>, run |-> 0],
      [bytes |-> ForeignFrame, calls |-> <<Frame("nonRealTime", Kept(ForeignFrame))>>, run |-> 0] }

\* A handler call reduced to what the message carries: a one-data-byte
\* message's handler also sees a stale sMessage[1], which means nothing.
Meaning(c) ==
    IF c.kind = "msg" /\ c.status \in OneDataStatus
      THEN [c EXCEPT !.data = <<c.data[1]>>] ELSE c

\* Put byte b on the wire; the firmware decodes it.
Emit(rest, exp, b) ==
    /\ Receive(b)
    /\ pending' = rest
    /\ sent' = IF rest = <<>> THEN sent \o exp ELSE sent

SenderStart ==
    /\ pending = <<>>
    /\ nMsgs < MaxMsgs
    /\ \E m \in ChannelMessages \cup RunningMessages \cup SysexMessages :
         /\ Emit(Tail(m.bytes), m.calls, Head(m.bytes))
         /\ expect' = m.calls
         /\ runStatus' = m.run
    /\ nMsgs' = nMsgs + 1
    /\ UNCHANGED nRealTime

SenderContinue ==
    /\ pending # <<>>
    /\ Emit(Tail(pending), expect, Head(pending))
    /\ UNCHANGED <<expect, runStatus, nMsgs, nRealTime>>

SenderRealTime ==
    /\ nRealTime < MaxRealTime
    /\ \E b \in RealTimeBytes :
         /\ Receive(b)
         /\ sent' = Append(sent, Msg(\hF0, Lo(b), <<>>))
    /\ nRealTime' = nRealTime + 1
    /\ UNCHANGED <<pending, expect, runStatus, nMsgs>>

MCInit ==
    /\ Init
    /\ pending = <<>> /\ expect = <<>> /\ runStatus = 0 /\ sent = <<>>
    /\ nMsgs = 0 /\ nRealTime = 0

\* A sender that completes every message it starts.
WellFormedNext == SenderStart \/ SenderContinue \/ SenderRealTime

WellFormedSpec == MCInit /\ [][WellFormedNext]_<<vars, senderVars>>

(***************************************************************************)
(* Decoded as sent (spec 4.2 and 8): the calls ProcessMIDI makes are       *)
(* exactly those of the messages completely sent, in order -- running      *)
(* status honoured, real-time bytes dispatched at once without disturbing  *)
(* a message in progress or a sysex frame, a frame cut to the buffer but   *)
(* still recognised.                                                       *)
(***************************************************************************)
DecodedAsSent ==
    [i \in DOMAIN handled |-> Meaning(handled[i])] = sent
=============================================================================
