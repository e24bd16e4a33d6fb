---------------------------- MODULE MidiOutQueue ----------------------------
(***************************************************************************)
(* The MIDI output queue of src/src/midi.c and the UART4 transmitter that  *)
(* drains it.  Everything here runs in the task: the I2C MIDI passthrough  *)
(* (ProcessI2CMIDICommand) hands bytes to BlockingQueueMIDI1, which spins  *)
(* on the transmitter while the queue is full.  sendBytes (midi.c 187-202) *)
(* also calls it, but only sendSysExMsg calls sendBytes, and nothing calls *)
(* sendSysExMsg, so the passthrough is the only caller that runs.          *)
(* BlockingQueueMIDI1 spins on the transmitter while the queue is          *)
(* full, and the audio service moves one byte to the transmitter per      *)
(* block when midiOutPending is set.  The transmit FIFO is emptied by the  *)
(* hardware.  BlockingQueueMIDI2/3 (app.h exports them; no caller in the   *)
(* sources) queue a 2- or 3-byte message as a whole.                       *)
(*                                                                         *)
(* midiQueueReadPos is the slot last handed to the transmitter; it starts  *)
(* at -1, midiQueueWritePos at 0.  A byte is its call number 1, 2, ...     *)
(***************************************************************************)
EXTENDS Integers, Sequences, SequencesExt

CONSTANTS Size,     \* kMidiQueueSize (736)
          TxDepth,  \* depth of the UART4 transmit FIFO (UTXBF when full)
          MaxOut    \* bound on bytes handed to the BlockingQueueMIDI calls

VARIABLES midiQueue, midiQueueReadPos, midiQueueWritePos, midiOutPending,
          txFifo,   \* bytes in the UART4 transmit FIFO
          wire,     \* bytes the UART has sent on the MIDI cable
          caller,   \* the bytes a BlockingQueueMIDI call is queueing; <<>> if none
          nOut      \* bytes handed to the BlockingQueueMIDI calls so far

vars == <<midiQueue, midiQueueReadPos, midiQueueWritePos, midiOutPending,
          txFifo, wire, caller, nOut>>

UTXBF == Len(txFifo) >= TxDepth

\* A wrap tested with > instead of >=.
NextPosOffByOne(i) == IF i + 1 > Size THEN 0 ELSE i + 1

\* w += 1; if ( w >= kMidiQueueSize ) w = 0;  (and the same for nextRead)
NextPos(i) == IF i + 1 >= Size THEN 0 ELSE i + 1

\* QueueMIDI1: a byte is refused when midiQueueReadPos == w.
QueueFull == midiQueueReadPos = midiQueueWritePos

\* The slot i positions after w.
RECURSIVE PosAfter(_, _)
PosAfter(w, i) == IF i = 0 THEN w ELSE PosAfter(NextPos(w), i - 1)

\* QueueMIDI2/3's loop reaches byte i (1-based) without meeting r == w.
Reaches(i) == \A j \in 0 .. i - 1 : PosAfter(midiQueueWritePos, j) # midiQueueReadPos

\* midiQueue[ w ] = byte, for the bytes of msg the loop reaches.
WriteSlots(msg) ==
    midiQueue' = [s \in DOMAIN midiQueue |->
                    IF \E i \in 1 .. Len(msg) :
                          Reaches(i) /\ PosAfter(midiQueueWritePos, i - 1) = s
                    THEN msg[CHOOSE i \in 1 .. Len(msg) :
                               PosAfter(midiQueueWritePos, i - 1) = s]
                    ELSE midiQueue[s]]

\* QueueMIDI1 without its full test.
QueueMIDI1NoFullCheck(b) ==
    /\ midiQueue' = [midiQueue EXCEPT ![midiQueueWritePos] = b]
    /\ midiQueueWritePos' = NextPos(midiQueueWritePos)
    /\ midiOutPending' = 1

\* QueueMIDI1 when it returns 1: store, advance, flag the output pending.
QueueMIDI1(b) ==
    /\ ~QueueFull
    /\ midiQueue' = [midiQueue EXCEPT ![midiQueueWritePos] = b]
    /\ midiQueueWritePos' = NextPos(midiQueueWritePos)
    /\ midiOutPending' = 1

(***************************************************************************)
(* QueueMIDI3 (and QueueMIDI2, the same loop for two bytes) when it        *)
(* returns 1: every byte written, then midiQueueWritePos stored and        *)
(* midiOutPending set.  When it meets r == w it returns 0, the bytes       *)
(* before it written into free slots (WriteSlots alone).                   *)
(* msg is the sequence of the message's bytes: ( msg >> 16 ) & 0xff first,  *)
(* then each shift by 8 brings the next.                                   *)
(***************************************************************************)
QueueMIDIn(msg) ==
    /\ Reaches(Len(msg))
    /\ WriteSlots(msg)
    /\ midiQueueWritePos' = PosAfter(midiQueueWritePos, Len(msg))
    /\ midiOutPending' = 1

\* HandleMIDIOut that loads U4TXREG without storing midiQueueReadPos.
HandleMIDIOutNoAdvance ==
    LET nextRead == NextPos(midiQueueReadPos)
    IN CASE UTXBF ->
              UNCHANGED <<midiQueueReadPos, midiOutPending, txFifo>>
         [] nextRead = midiQueueWritePos ->
              /\ midiOutPending' = 0
              /\ UNCHANGED <<midiQueueReadPos, txFifo>>
         [] OTHER ->
              /\ txFifo' = Append(txFifo, midiQueue[nextRead])
              /\ UNCHANGED <<midiQueueReadPos, midiOutPending>>

\* HandleMIDIOut: nothing while the transmitter is busy; clear the flag
\* when nextRead == midiQueueWritePos; else advance and load U4TXREG.
HandleMIDIOut ==
    LET nextRead == NextPos(midiQueueReadPos)
    IN CASE UTXBF ->
              UNCHANGED <<midiQueueReadPos, midiOutPending, txFifo>>
         [] nextRead = midiQueueWritePos ->
              /\ midiOutPending' = 0
              /\ UNCHANGED <<midiQueueReadPos, txFifo>>
         [] OTHER ->
              /\ midiQueueReadPos' = nextRead
              /\ txFifo' = Append(txFifo, midiQueue[nextRead])
              /\ UNCHANGED midiOutPending

Init ==
    /\ midiQueue = [i \in 0 .. Size - 1 |-> 0]
    /\ midiQueueReadPos = -1
    /\ midiQueueWritePos = 0
    /\ midiOutPending = 0
    /\ txFifo = <<>> /\ wire = <<>>
    /\ caller = <<>> /\ nOut = 0

\* ProcessI2CMIDICommand (kI2C_send_MIDI_message) calls BlockingQueueMIDI1
\* with the next byte of the message.
Call ==
    /\ caller = <<>>
    /\ nOut < MaxOut
    /\ caller' = <<nOut + 1>>
    /\ nOut' = nOut + 1
    /\ UNCHANGED <<midiQueue, midiQueueReadPos, midiQueueWritePos,
                   midiOutPending, txFifo, wire>>

\* One pass of BlockingQueueMIDI1's loop: QueueMIDI1 returns 1 and the call
\* returns, or the queue is full and, once UTXBF is clear, HandleMIDIOut.
BlockingQueueMIDI1 ==
    /\ Len(caller) = 1
    /\ \/ /\ QueueMIDI1(caller[1])
          /\ caller' = <<>>
          /\ UNCHANGED <<midiQueueReadPos, txFifo>>
       \/ /\ QueueFull
          /\ ~UTXBF
          /\ HandleMIDIOut
          /\ UNCHANGED <<midiQueue, midiQueueWritePos, caller>>
    /\ UNCHANGED <<wire, nOut>>

\* A user of app.h's BlockingQueueMIDI2/3 sends a 2- or 3-byte message.
CallMessage ==
    /\ caller = <<>>
    /\ \E k \in 2 .. 3 :
         /\ nOut + k <= MaxOut
         /\ caller' = [i \in 1 .. k |-> nOut + i]
         /\ nOut' = nOut + k
    /\ UNCHANGED <<midiQueue, midiQueueReadPos, midiQueueWritePos,
                   midiOutPending, txFifo, wire>>

\* One pass of BlockingQueueMIDI3's (or 2's) loop: QueueMIDI3 returns 1, or
\* it returns 0 having written what fitted and, once UTXBF is clear,
\* HandleMIDIOut.
BlockingQueueMIDIn ==
    /\ Len(caller) > 1
    /\ \/ /\ QueueMIDIn(caller)
          /\ caller' = <<>>
          /\ UNCHANGED <<midiQueueReadPos, txFifo>>
       \/ /\ ~Reaches(Len(caller))
          /\ WriteSlots(caller)
          /\ ~UTXBF
          /\ HandleMIDIOut
          /\ UNCHANGED <<midiQueueWritePos, caller>>
    /\ UNCHANGED <<wire, nOut>>

\* serviceAudioInternalSingle: if ( midiOutPending ) HandleMIDIOut();
ServiceMIDIOut ==
    /\ caller = <<>>
    /\ midiOutPending = 1
    /\ HandleMIDIOut
    /\ UNCHANGED <<midiQueue, midiQueueWritePos, wire, caller, nOut>>

\* The UART shifts the oldest byte of its FIFO onto the cable.
UartTransmit ==
    /\ txFifo # <<>>
    /\ wire' = Append(wire, Head(txFifo))
    /\ txFifo' = Tail(txFifo)
    /\ UNCHANGED <<midiQueue, midiQueueReadPos, midiQueueWritePos,
                   midiOutPending, caller, nOut>>

Next ==
    \/ Call \/ BlockingQueueMIDI1 \/ CallMessage \/ BlockingQueueMIDIn
    \/ ServiceMIDIOut \/ UartTransmit

\* The task keeps running (its loop and the audio service every block) and
\* the UART keeps shifting; handlers may stop calling.
Fairness ==
    /\ WF_vars(BlockingQueueMIDI1)
    /\ WF_vars(BlockingQueueMIDIn)
    /\ WF_vars(ServiceMIDIOut)
    /\ WF_vars(UartTransmit)

Spec == Init /\ [][Next]_vars /\ Fairness
-----------------------------------------------------------------------------
TypeOK ==
    /\ midiQueue \in [0 .. Size - 1 -> 0 .. MaxOut]
    /\ midiQueueReadPos \in -1 .. Size - 1
    /\ midiQueueWritePos \in 0 .. Size - 1
    /\ midiOutPending \in {0, 1}
    /\ Len(txFifo) <= TxDepth
    /\ Len(caller) <= 3 /\ \A i \in DOMAIN caller : caller[i] \in 1 .. MaxOut

Sent == wire \o txFifo

(***************************************************************************)
(* Integrity of the MIDI output: what the queue hands to the transmitter   *)
(* is bytes the BlockingQueueMIDI calls were given, each at most once and  *)
(* in the order given, whatever the order of the full-queue spins (with    *)
(* their partial writes), the audio service and the transmitter.           *)
(***************************************************************************)
OutIntegrity ==
    /\ \A i \in DOMAIN Sent : Sent[i] \in 1 .. nOut
    /\ IsSorted(Sent, <)

(***************************************************************************)
(* Once HandleMIDIOut has run (the read position is a slot), every byte    *)
(* handed to a BlockingQueueMIDI call afterwards is eventually sent: it is *)
(* queued, midiOutPending keeps the audio service draining, and the        *)
(* transmitter empties.                                                    *)
(***************************************************************************)
EventuallySent ==
    \A b \in 1 .. MaxOut :
        ((\E i \in DOMAIN caller : caller[i] = b) /\ midiQueueReadPos >= 0) ~> (\E i \in DOMAIN wire : wire[i] = b)
=============================================================================
