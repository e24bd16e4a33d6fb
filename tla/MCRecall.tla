------------------------------ MODULE MCRecall ------------------------------
(***************************************************************************)
(* The select-bus decoder driven by another module on the select bus.  The *)
(* sender emits whole messages of the recall vocabulary (spec 4.3) one     *)
(* byte at a time: controller 16 (the save-mode latch), program change     *)
(* (save or load a preset), 0xF4 (save shortcut), other channel messages   *)
(* (to the MIDI handler), the native sysex frame; running status is used   *)
(* where MIDI allows it.                                                    *)
(*                                                                         *)
(* The sender keeps its own save-mode latch, and `sent` lists the calls    *)
(* the spec's vocabulary gives for what has been sent.                     *)
(***************************************************************************)
EXTENDS RecallDecoder

CONSTANTS Data,          \* data byte values the sender uses
          Statuses,      \* status bytes of the vocabulary the sender uses
          MaxMsgs        \* bound on messages sent

VARIABLES pending,    \* bytes of the current message not yet on the wire
          expect,     \* the current message: its calls and latch after it
          runStatus,  \* the sender's running status; 0 when there is none
          latch,      \* the save-mode latch the sender has set
          sent,       \* history: calls expected for everything sent
          nMsgs

senderVars == <<pending, expect, runStatus, latch, sent, nMsgs>>

SlotCount == 64

DataSeqs(s) ==
    IF Hi(s) \in TwoDataStatus THEN {<<x, y>> : x, y \in Data} ELSE {<<x>> : x \in Data}

\* The meaning of a complete message with status byte s and data m, sent
\* while the save-mode latch is l: [calls, latch after it].
Meant(s, m, l) ==
    CASE s = \hB0 /\ m[1] = 16 -> [calls |-> <<>>, latch |-> m[2] = 127]
      [] s = \hC0 ->
           [calls |-> <<[kind |-> IF l THEN "save" ELSE "load", slot |-> m[1] % SlotCount]>>,
            latch |-> l]
      [] s = \hF4 ->
           [calls |-> IF m[1] < SlotCount THEN <<[kind |-> "save", slot |-> m[1]]>> ELSE <<>>,
            latch |-> l]
      [] OTHER -> [calls |-> <<Msg(Hi(s), Lo(s), m)>>, latch |-> l]

\* Running status is kept after channel messages and cancelled by system
\* common messages and sysex.
RunAfter(s) == IF s < \hF0 THEN s ELSE 0

Messages ==
    LET withStatus == UNION { { <<s>> \o m : m \in DataSeqs(s) } : s \in Statuses }
        running == IF runStatus = 0 THEN {} ELSE DataSeqs(runStatus)
    IN { LET s == IF IsStatus(bs[1]) THEN bs[1] ELSE runStatus
             m == IF IsStatus(bs[1]) THEN Tail(bs) ELSE bs
             r == Meant(s, m, latch)
         IN [bytes |-> bs, calls |-> r.calls, latch |-> r.latch, run |-> RunAfter(s)]
         : bs \in withStatus \cup running }

NativeFrame == <<\hF0, \h00, \h21, \h27, \h5D, \hF7>>
SysexMessage ==
    [bytes |-> NativeFrame, latch |-> latch, run |-> 0,
     calls |-> <<Frame("native", SubSeq(NativeFrame, 1,
                    IF Len(NativeFrame) < RecallMaxSysex THEN Len(NativeFrame)
                                                          ELSE RecallMaxSysex))>>]

\* A handler call reduced to what the message carries.
Meaning(c) ==
    CASE c.kind = "msg" /\ c.status = \hF0 -> [c EXCEPT !.data = <<>>]
      [] c.kind = "msg" /\ c.status \in OneDataStatus -> [c EXCEPT !.data = <<c.data[1]>>]
      [] OTHER -> c

\* Put byte b of message m on the wire; the firmware decodes it.
Emit(rest, m, b) ==
    /\ RecallReceive(b)
    /\ pending' = rest
    /\ sent' = IF rest = <<>> THEN sent \o m.calls ELSE sent
    /\ latch' = IF rest = <<>> THEN m.latch ELSE latch

SenderStart ==
    /\ pending = <<>>
    /\ nMsgs < MaxMsgs
    /\ \E m \in Messages \cup {SysexMessage} :
         /\ Emit(Tail(m.bytes), m, Head(m.bytes))
         /\ expect' = m
         /\ runStatus' = m.run
    /\ nMsgs' = nMsgs + 1

SenderContinue ==
    /\ pending # <<>>
    /\ Emit(Tail(pending), expect, Head(pending))
    /\ UNCHANGED <<expect, runStatus, nMsgs>>

MCInit ==
    /\ RecallInit
    /\ pending = <<>> /\ runStatus = 0
    /\ expect = [bytes |-> <<>>, calls |-> <<>>, latch |-> FALSE, run |-> 0]
    /\ latch = FALSE /\ sent = <<>>
    /\ nMsgs = 0

\* A select bus carrying the recall vocabulary.
SelectNext == SenderStart \/ SenderContinue

SelectSpec == MCInit /\ [][SelectNext]_<<recVars, senderVars>>

(***************************************************************************)
(* Recalled as sent (spec 4.3 and 8): Recall_ProcessMIDI saves and loads   *)
(* exactly the presets the messages completely sent ask for -- a program   *)
(* change saves when the last controller 16 on channel 1 was 127 and loads *)
(* otherwise, 0xF4 saves, slot masked to 64 -- and forwards everything    *)
(* else to the MIDI handler, in order.                                     *)
(***************************************************************************)
RecalledAsSent ==
    [i \in DOMAIN recalls |-> Meaning(recalls[i])] = sent
=============================================================================
