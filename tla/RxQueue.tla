------------------------------ MODULE RxQueue ------------------------------
(***************************************************************************)
(* One interrupt-to-task receive queue of src/src/app.c: selectRxQueue     *)
(* (UART2, 16 slots), midiRxQueue (UART4, 1024 slots) and i2cRxQueue       *)
(* (I2C4 slave, 256 slots) share this code shape.                          *)
(*                                                                         *)
(* Producer: the receive interrupt stores a byte at rxQueueWrite and       *)
(* advances it, unless rxQueueRead = rxQueueWrite ("queue overflow"),      *)
(* in which case the byte is dropped.  It runs atomically with respect to  *)
(* the task.                                                               *)
(*                                                                         *)
(* Consumer: FlushMIDIRx, in task context, computes nextRead =             *)
(* (rxQueueRead + 1) & (Size-1), stops if it equals rxQueueWrite,          *)
(* otherwise stores rxQueueRead = nextRead and then loads the slot.  The   *)
(* interrupt may run between those two steps, so the consumer is two       *)
(* actions.                                                                *)
(*                                                                         *)
(* Both indices start as in app.c: read = -1, write = 0.                   *)
(*                                                                         *)
(* Bytes are abstracted to their arrival number 1, 2, ...; slots start as  *)
(* 0 (the queues are zero-initialised statics), a value never received.    *)
(***************************************************************************)
EXTENDS Naturals, Integers, Sequences, SequencesExt

CONSTANTS Size,     \* kSelectRxQueueSize / kMIDIRxQueueSize / kI2CRxQueueSize
          MaxRx     \* bound on the number of bytes the interrupt receives

ASSUME Size \in {2^k : k \in 1..10}

VARIABLES rxQueue,       \* the slots
          rxQueueRead,   \* index of the last slot consumed; -1 at boot
          rxQueueWrite,  \* index of the next slot to fill
          flushPc,       \* "check": about to test for data; "fetch": index
                         \* advanced, slot not yet loaded
          received,      \* history: bytes the interrupt has taken off the wire
          popped         \* history: bytes FlushMIDIRx has handed to a decoder

vars == <<rxQueue, rxQueueRead, rxQueueWrite, flushPc, received, popped>>

Slots == 0 .. Size - 1

\* The index arithmetic of the C code: (i + 1) & (Size - 1).
NextIndex(i) == (i + 1) % Size

Init ==
    /\ rxQueue = [i \in Slots |-> 0]
    /\ rxQueueRead = -1
    /\ rxQueueWrite = 0
    /\ flushPc = "check"
    /\ received = 0
    /\ popped = <<>>

(***************************************************************************)
(* The receive interrupt (UART2RXInterruptHandler with recallIgnoreBytes   *)
(* = 0, UART4RXInterruptHandler, the data branch of                        *)
(* I2C4SlaveInterruptHandler).                                             *)
(***************************************************************************)
RxInterrupt ==
    /\ received < MaxRx
    /\ received' = received + 1
    /\ IF rxQueueRead = rxQueueWrite
         THEN UNCHANGED <<rxQueue, rxQueueWrite>>          \* queue overflow
         ELSE /\ rxQueue' = [rxQueue EXCEPT ![rxQueueWrite] = received + 1]
              /\ rxQueueWrite' = NextIndex(rxQueueWrite)
    /\ UNCHANGED <<rxQueueRead, flushPc, popped>>

(***************************************************************************)
(* FlushMIDIRx, one loop iteration: test for data and advance the index.   *)
(* When the queue is empty the loop breaks and nothing changes; the next   *)
(* audio block calls FlushMIDIRx again.                                    *)
(***************************************************************************)
FlushCheck ==
    /\ flushPc = "check"
    /\ IF NextIndex(rxQueueRead) = rxQueueWrite
         THEN UNCHANGED vars
         ELSE /\ rxQueueRead' = NextIndex(rxQueueRead)
              /\ flushPc' = "fetch"
              /\ UNCHANGED <<rxQueue, rxQueueWrite, received, popped>>

\* A consumer that loads the slot after the one it claimed.
FlushFetchAhead ==
    /\ flushPc = "fetch"
    /\ popped' = Append(popped, rxQueue[NextIndex(rxQueueRead)])
    /\ flushPc' = "check"
    /\ UNCHANGED <<rxQueue, rxQueueRead, rxQueueWrite, received>>

\* ... then load the slot and pass it to ProcessI2CIn / Recall_ProcessMIDI /
\* ProcessMIDIIn.
FlushFetch ==
    /\ flushPc = "fetch"
    /\ popped' = Append(popped, rxQueue[rxQueueRead])
    /\ flushPc' = "check"
    /\ UNCHANGED <<rxQueue, rxQueueRead, rxQueueWrite, received>>

Next == RxInterrupt \/ FlushCheck \/ FlushFetch

Spec == Init /\ [][Next]_vars

-----------------------------------------------------------------------------
TypeOK ==
    /\ rxQueue \in [Slots -> 0 .. MaxRx]
    /\ rxQueueRead \in -1 .. Size - 1
    /\ rxQueueWrite \in Slots
    /\ flushPc \in {"check", "fetch"}
    /\ received \in 0 .. MaxRx
    /\ popped \in Seq(1 .. MaxRx)

(***************************************************************************)
(* Pop integrity (spec section 8): no byte handed to a decoder was never   *)
(* received, none is handed over twice, and they are handed over in        *)
(* arrival order -- whatever the interleaving of the receive interrupt     *)
(* with the two halves of a FlushMIDIRx iteration.                         *)
(***************************************************************************)
PopIntegrity ==
    /\ \A i \in DOMAIN popped : popped[i] \in 1 .. received
    /\ IsSorted(popped, <)

(***************************************************************************)
(* Refinement of the lossy FIFO contract.  FlushCheck's store of nextRead  *)
(* is the abstract pop: from then on the interrupt never writes the        *)
(* claimed slot (it stops at rxQueueRead = rxQueueWrite), so the byte      *)
(* FlushFetch loads is fixed by the claim.  The abstract queue is the      *)
(* slots strictly after rxQueueRead up to rxQueueWrite, at most Size-1 of  *)
(* them; the abstract output includes the claimed byte.  A byte may be     *)
(* lost only by the overflow drop of the byte arriving at a full queue.    *)
(***************************************************************************)
Pending ==
    [i \in 1 .. (rxQueueWrite - rxQueueRead - 1) % Size |->
        rxQueue[(rxQueueRead + i) % Size]]

Delivered ==
    IF flushPc = "fetch" THEN Append(popped, rxQueue[rxQueueRead]) ELSE popped

Contract == INSTANCE LossyQueue
                WITH Cap <- Size - 1, MaxIn <- MaxRx,
                     q <- Pending, n <- received, out <- Delivered

\* Every byte the interrupt accepts is handed to the decoder, in order.
LossyFifo == Contract!Spec
=============================================================================
