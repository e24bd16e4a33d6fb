----------------------------- MODULE SelectEcho -----------------------------
(***************************************************************************)
(* Echo suppression on the select bus.  The select bus is a shared serial  *)
(* line: every byte this module transmits on UART2 is also received by     *)
(* its own UART2 receiver.  The I2C passthrough command                    *)
(* kI2C_send_Select_Bus_message (ProcessI2CMIDICommand, src/src/i2c.c)     *)
(* writes the message's bytes to U2TXREG, spinning while UTXBF, and then   *)
(* does recallIgnoreBytes += numBytes.  The UART2 receive interrupt        *)
(* (UART2RXInterruptHandler, src/src/app.c, priority 4) discards a byte    *)
(* while recallIgnoreBytes > 0, decrementing it, and otherwise queues it   *)
(* on selectRxQueue, which FlushMIDIRx hands to Recall_ProcessMIDI.        *)
(*                                                                         *)
(* The queue is RxQueue (same code shape); its receive interrupt is the    *)
(* "else" branch of the UART2 handler.  The task (the passthrough, or one  *)
(* step of FlushMIDIRx's select loop) is one thread; the interrupt         *)
(* preempts it between any two of its steps.  recallIgnoreBytes +=         *)
(* numBytes on a volatile BYTE is a load, an add and a store: two steps.   *)
(*                                                                         *)
(* Timing: an echo is received one byte time (320 us at MIDI rate) after   *)
(* the byte starts shifting, while the task reaches the store a few        *)
(* instructions after its last U2TXREG write, and only the short I2C and   *)
(* UART handlers can delay it.  So the echo of a message's byte is taken   *)
(* to arrive after that message's store.  Other modules transmit only      *)
(* while this module's transmitter is idle (the bus has one talker).       *)
(*                                                                         *)
(* A byte on the bus is a record: an echo of message m, or the k-th byte   *)
(* another module sent.                                                    *)
(***************************************************************************)
EXTENDS RxQueue

CONSTANTS Statuses,  \* status bytes (i2cMsg[1]) the I2C controller passes through
          MaxMsgs,   \* bound on passthrough messages
          MaxOther,  \* bound on bytes sent by other modules
          TxDepth    \* UART2 transmit FIFO depth (UTXBF when full)

VARIABLES recallIgnoreBytes,
          txFifo,     \* message numbers of own bytes in the UART2 transmit FIFO
          ptPc,       \* passthrough: "idle", "tx" (writing bytes), "store"
          numBytes,   \* length of the current passthrough message
          sentBytes,  \* bytes of it written to U2TXREG so far
          loaded,     \* the value of recallIgnoreBytes the add has loaded
          msgs,       \* passthrough messages started
          others,     \* bytes other modules have sent
          accepted,   \* bytes the interrupt queued, in order (byte number k of
                      \* selectRxQueue is accepted[k])
          ignored     \* bytes the interrupt discarded as echoes

echoVars == <<recallIgnoreBytes, txFifo, ptPc, numBytes, sentBytes, loaded,
              msgs, others, accepted, ignored>>
allVars == <<vars, echoVars>>

Echo(m) == [from |-> "self", n |-> m]
Other(k) == [from |-> "other", n |-> k]

(***************************************************************************)
(* The message length ProcessI2CMIDICommand gives a status byte; 0 for     *)
(* sysex (0xF0), which returns without sending anything.                   *)
(***************************************************************************)
NumBytes(s) ==
    CASE (s \div 16) \in {8, 9, 10, 11, 14} -> 3
      [] (s \div 16) \in {12, 13}           -> 2
      [] s = 240                            -> 0
      [] s \in {241, 243}                   -> 2
      [] s = 242                            -> 3
      [] OTHER                              -> 1

SelectInit ==
    /\ Init
    /\ recallIgnoreBytes = 0
    /\ txFifo = <<>>
    /\ ptPc = "idle" /\ numBytes = 0 /\ sentBytes = 0 /\ loaded = 0
    /\ msgs = 0 /\ others = 0
    /\ accepted = <<>> /\ ignored = <<>>

(***************************************************************************)
(* UART2RXInterruptHandler for byte b: discard it while recallIgnoreBytes  *)
(* > 0, otherwise the queue push of RxQueue (dropped when full).           *)
(***************************************************************************)
UART2RXInterrupt(b) ==
    \/ /\ recallIgnoreBytes > 0
       /\ recallIgnoreBytes' = recallIgnoreBytes - 1
       /\ ignored' = Append(ignored, b)
       /\ UNCHANGED <<vars, accepted>>
    \/ /\ recallIgnoreBytes = 0
       /\ RxInterrupt
       /\ accepted' = Append(accepted, b)
       /\ UNCHANGED <<recallIgnoreBytes, ignored>>

\* The transmitter shifts the oldest FIFO byte onto the bus; the interrupt
\* takes its echo.  A byte of the message in progress is not yet echoed.
EchoReceive ==
    /\ txFifo # <<>>
    /\ ptPc = "idle" \/ Head(txFifo) < msgs
    /\ txFifo' = Tail(txFifo)
    /\ UART2RXInterrupt(Echo(Head(txFifo)))
    /\ UNCHANGED <<ptPc, numBytes, sentBytes, loaded, msgs, others>>

\* Another module sends a byte while this transmitter is idle.
OtherReceive ==
    /\ txFifo = <<>>
    /\ others < MaxOther
    /\ others' = others + 1
    /\ UART2RXInterrupt(Other(others + 1))
    /\ UNCHANGED <<txFifo, ptPc, numBytes, sentBytes, loaded, msgs>>

(***************************************************************************)
(* ProcessI2CMIDICommand for kI2C_send_Select_Bus_message, called from     *)
(* ProcessI2CIn inside FlushMIDIRx's I2C loop: choose numBytes from the    *)
(* status byte (sysex returns at once).                                    *)
(***************************************************************************)
PassthroughStart ==
    /\ ptPc = "idle" /\ flushPc = "check"
    /\ msgs < MaxMsgs
    /\ \E s \in Statuses :
         /\ NumBytes(s) > 0
         /\ numBytes' = NumBytes(s)
    /\ msgs' = msgs + 1
    /\ sentBytes' = 0
    /\ ptPc' = "tx"
    /\ UNCHANGED <<vars, recallIgnoreBytes, txFifo, loaded, others,
                   accepted, ignored>>

\* A transmit loop that writes U2TXREG without waiting for UTXBF.
PassthroughTxNoWait ==
    /\ ptPc = "tx"
    /\ \/ /\ sentBytes < numBytes
          /\ txFifo' = Append(txFifo, msgs)
          /\ sentBytes' = sentBytes + 1
          /\ UNCHANGED <<ptPc, loaded>>
       \/ /\ sentBytes = numBytes
          /\ loaded' = recallIgnoreBytes
          /\ ptPc' = "store"
          /\ UNCHANGED <<txFifo, sentBytes>>
    /\ UNCHANGED <<vars, recallIgnoreBytes, numBytes, msgs, others,
                   accepted, ignored>>

\* while ( U2STAbits.UTXBF ) ; U2TXREG = i2cMsg[1+i];  then the load of
\* recallIgnoreBytes once all numBytes are written.
PassthroughTx ==
    /\ ptPc = "tx"
    /\ \/ /\ sentBytes < numBytes
          /\ Len(txFifo) < TxDepth
          /\ txFifo' = Append(txFifo, msgs)
          /\ sentBytes' = sentBytes + 1
          /\ UNCHANGED <<ptPc, loaded>>
       \/ /\ sentBytes = numBytes
          /\ loaded' = recallIgnoreBytes
          /\ ptPc' = "store"
          /\ UNCHANGED <<txFifo, sentBytes>>
    /\ UNCHANGED <<vars, recallIgnoreBytes, numBytes, msgs, others,
                   accepted, ignored>>

\* A store that adds one byte fewer than the message has.
PassthroughStoreShort ==
    /\ ptPc = "store"
    /\ recallIgnoreBytes' = (loaded + numBytes - 1) % 256
    /\ ptPc' = "idle"
    /\ UNCHANGED <<vars, txFifo, numBytes, sentBytes, loaded, msgs, others,
                   accepted, ignored>>

\* ... add and store, in BYTE width.
PassthroughStore ==
    /\ ptPc = "store"
    /\ recallIgnoreBytes' = (loaded + numBytes) % 256
    /\ ptPc' = "idle"
    /\ UNCHANGED <<vars, txFifo, numBytes, sentBytes, loaded, msgs, others,
                   accepted, ignored>>

\* A select loop that loads the slot after the one it claimed.
SelectFlushAhead ==
    /\ ptPc = "idle"
    /\ FlushCheck \/ FlushFetchAhead
    /\ UNCHANGED echoVars

\* FlushMIDIRx's select loop, between passthrough commands.
SelectFlush ==
    /\ ptPc = "idle"
    /\ FlushCheck \/ FlushFetch
    /\ UNCHANGED echoVars

SelectNext ==
    \/ EchoReceive \/ OtherReceive
    \/ PassthroughStart \/ PassthroughTx \/ PassthroughStore
    \/ SelectFlush

SelectSpec == SelectInit /\ [][SelectNext]_allVars
-----------------------------------------------------------------------------
SelectTypeOK ==
    /\ TypeOK
    /\ recallIgnoreBytes \in 0 .. 255
    /\ Len(txFifo) <= TxDepth
    /\ ptPc \in {"idle", "tx", "store"}
    /\ sentBytes \in 0 .. numBytes
    /\ msgs \in 0 .. MaxMsgs /\ others \in 0 .. MaxOther
    /\ Len(accepted) = received

IsEcho(b) == b.from = "self"

(***************************************************************************)
(* Own bytes never reach the Recall decoder: every byte the UART2          *)
(* interrupt queues on selectRxQueue came from another module, although    *)
(* the count is only raised after the message is in the transmit FIFO.    *)
(***************************************************************************)
NoEchoAccepted == \A k \in DOMAIN accepted : ~IsEcho(accepted[k])

(***************************************************************************)
(* Echo suppression discards only echoes: no byte another module sent is   *)
(* swallowed by recallIgnoreBytes, whatever the interrupt does between the *)
(* load and the store of the passthrough's recallIgnoreBytes += numBytes.  *)
(***************************************************************************)
NoOtherIgnored == \A k \in DOMAIN ignored : IsEcho(ignored[k])
=============================================================================
