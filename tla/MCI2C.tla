-------------------------------- MODULE MCI2C --------------------------------
(***************************************************************************)
(* The I2C slave end to end: a bus controller writes command frames and    *)
(* reads responses; I2C4SlaveInterruptHandler puts a tag or a byte into    *)
(* i2cRxQueue for every interrupt and answers read requests straight from  *)
(* i2cResponse; FlushMIDIRx, in the task, pops the queue into ProcessI2CIn. *)
(*                                                                         *)
(* The queue is modelled by its contract (LossyQueue: FIFO, the incoming   *)
(* element dropped when QueueCap elements are stored).  The controller     *)
(* does one transaction at a time.  It writes frames built from the        *)
(* command vocabulary -- complete or cut short (Truncate) -- and reads up  *)
(* to MaxReadLen bytes.  With WaitForDecode it starts a read only once     *)
(* the task has drained the queue; without, a read may overtake the        *)
(* command it follows.                                                     *)
(*                                                                         *)
(* `sent` lists the handler branches the command vocabulary gives for the  *)
(* frames written, and `expected` the bytes a read should return: the      *)
(* response of the last command written, from where the last read left    *)
(* off, then NoData.                                                       *)
(***************************************************************************)
EXTENDS I2CDecoder, SequencesExt

CONSTANTS Opcodes,        \* opcodes the controller writes
          MIDIStatuses,   \* MIDI status bytes of passthrough frames
          QueueCap,       \* capacity of i2cRxQueue
          MaxTx,          \* bound on transactions
          MaxReadLen,     \* bound on bytes per read transaction
          Truncate,       \* may a frame be cut short?
          WaitForDecode   \* does a read wait for the queue to drain?

\* The slave's 7-bit address 0x31, as the address byte the ISR receives.
AddressByte == 2 * \h31

VARIABLES i2c, resp, queue, calls,          \* firmware
          mode, pending, nTx, nRead,        \* controller
          sent, expResp, reads, expected    \* what the vocabulary promises

fwVars == <<i2c, resp, queue, calls>>
busVars == <<mode, pending, nTx, nRead>>
allVars == <<fwVars, busVars, sent, expResp, reads, expected>>

(***************************************************************************)
(* The command vocabulary.  A MIDI message's length follows MIDI 1.0; a    *)
(* command's length is that of the handler with a branch for it; the get  *)
(* commands answer what their handler writes.                              *)
(***************************************************************************)
MIDIMessageLength(s) ==
    CASE s \in \h80 .. \hEF -> IF Hi(s) \in {\hC0, \hD0} THEN 2 ELSE 3
      [] s \in {\hF1, \hF3} -> 2
      [] s = \hF2 -> 3
      [] s \in (\hF4 .. \hFF) \ {\hF7} -> 1
      [] OTHER -> 0                      \* a data byte, sysex or EOX

CommandLength(op) ==
    CASE op \in To2ofN -> 0
      [] op \in Handled4 -> 4
      [] op \in Handled3 -> 3
      [] op \in Handled2 -> 2
      [] op \in Handled1 -> 1
      [] OTHER -> 0

ResponseTo(op) ==
    CASE op = \h45 -> <<1>>
      [] op \in {\h43, \h61, \h48, \h49, \h4A} -> <<0, 0>>
      [] OTHER -> <<>>

Ones(n) == [i \in 1 .. n |-> 1]

CompleteFrames ==
    { <<op>> \o Ones(CommandLength(op) - 1) : op \in Opcodes \ To2ofN }
    \cup { <<op, s>> \o Ones(MIDIMessageLength(s) - 1)
           : op \in Opcodes \cap To2ofN, s \in MIDIStatuses }

Frames ==
    CompleteFrames
    \cup (IF Truncate THEN { SubSeq(f, 1, Len(f) - 1) : f \in {g \in CompleteFrames : Len(g) > 1} } ELSE {})

\* The branch a frame should run: the first L bytes, if it has them.
Meant(f) ==
    LET op == f[1]
        L == IF op \in To2ofN
               THEN IF Len(f) > 1 /\ MIDIMessageLength(f[2]) > 0
                      THEN 1 + MIDIMessageLength(f[2]) ELSE 0
               ELSE CommandLength(op)
    IN IF L = 0 \/ Len(f) < L THEN <<>>
       ELSE IF op \in To2ofN THEN <<Passthrough(f, L - 1)>>
       ELSE <<Cmd(L, f)>>

(***************************************************************************)
(* I2C4SlaveInterruptHandler's push into i2cRxQueue, and the task.         *)
(***************************************************************************)
Push(q, x) == IF Len(q) < QueueCap THEN Append(q, x) ELSE q

\* FlushMIDIRx: one element from i2cRxQueue through ProcessI2CIn.
FlushI2C ==
    /\ queue # <<>>
    /\ LET o == ProcessI2CIn(i2c, resp, Head(queue))
       IN /\ i2c' = o.dec
          /\ resp' = o.resp
          /\ calls' = calls \o o.calls
    /\ queue' = Tail(queue)
    /\ UNCHANGED <<busVars, sent, expResp, reads, expected>>

(***************************************************************************)
(* The controller.                                                         *)
(***************************************************************************)
\* START, address byte (write): the ISR queues -(address).
StartWrite ==
    /\ mode = "idle"
    /\ nTx < MaxTx
    /\ \E f \in Frames :
         /\ pending' = f
         /\ sent' = sent \o Meant(f)
         /\ expResp' = IF Meant(f) # <<>> /\ ResponseTo(f[1]) # <<>>
                         THEN [bytes |-> ResponseTo(f[1]), index |-> 0] ELSE expResp
    /\ queue' = Push(queue, -AddressByte)
    /\ mode' = "write"
    /\ nTx' = nTx + 1
    /\ UNCHANGED <<i2c, resp, calls, nRead, reads, expected>>

\* A data byte: the ISR queues it.
WriteByte ==
    /\ mode = "write"
    /\ pending # <<>>
    /\ queue' = Push(queue, Head(pending))
    /\ pending' = Tail(pending)
    /\ UNCHANGED <<i2c, resp, calls, mode, nTx, nRead, sent, expResp, reads, expected>>

StopWrite ==
    /\ mode = "write"
    /\ pending = <<>>
    /\ mode' = "idle"
    /\ UNCHANGED <<fwVars, pending, nTx, nRead, sent, expResp, reads, expected>>

\* One read request: the ISR answers from i2cResponse and queues -0x100.
ReadOne ==
    LET o == ReadResponse(resp)
        more == expResp.index < Len(expResp.bytes)
    IN /\ resp' = o.resp
       /\ reads' = Append(reads, o.byte)
       /\ queue' = Push(queue, -\h100)
       /\ nRead' = nRead + 1
       /\ expected' = Append(expected, IF more THEN expResp.bytes[expResp.index + 1]
                                               ELSE NoData)
       /\ expResp' = IF more THEN [expResp EXCEPT !.index = @ + 1] ELSE expResp
       /\ UNCHANGED <<i2c, calls>>

\* START, address byte (read).
StartRead ==
    /\ mode = "idle"
    /\ nTx < MaxTx
    /\ WaitForDecode => queue = <<>>
    /\ ReadOne
    /\ mode' = "read"
    /\ nTx' = nTx + 1
    /\ UNCHANGED <<pending, sent>>

ReadMore ==
    /\ mode = "read"
    /\ nRead < MaxReadLen
    /\ ReadOne
    /\ UNCHANGED <<mode, pending, nTx, sent>>

StopRead ==
    /\ mode = "read"
    /\ mode' = "idle"
    /\ nRead' = 0
    /\ UNCHANGED <<fwVars, pending, nTx, sent, expResp, reads, expected>>

Init ==
    /\ i2c = InitI2CDec
    /\ resp = InitResponse
    /\ queue = <<>>
    /\ calls = <<>>
    /\ mode = "idle" /\ pending = <<>> /\ nTx = 0 /\ nRead = 0
    /\ sent = <<>>
    /\ expResp = [bytes |-> <<>>, index |-> 0]
    /\ reads = <<>> /\ expected = <<>>

Next ==
    \/ FlushI2C
    \/ StartWrite \/ WriteByte \/ StopWrite
    \/ StartRead \/ ReadMore \/ StopRead

Spec == Init /\ [][Next]_allVars

-----------------------------------------------------------------------------
TypeOK ==
    /\ i2c.state \in States
    /\ i2c.msg \in [1 .. 4 -> 0 .. 255]
    /\ resp.buf \in [1 .. 4 -> 0 .. 255]
    /\ resp.index \in 0 .. resp.size
    /\ resp.size \in 0 .. 4
    /\ Len(queue) <= QueueCap
    /\ mode \in {"idle", "write", "read"}

\* Everything written has been decoded.
Quiescent == mode = "idle" /\ queue = <<>>

(***************************************************************************)
(* Dispatched as framed (spec 4.4): ProcessI2CIn runs exactly one handler  *)
(* branch per write transaction that carries a complete frame -- the       *)
(* branch for its opcode, with its first L bytes, L from the opcode (or    *)
(* the MIDI status) -- and none for a frame cut short or an unknown        *)
(* opcode; the passthrough sends exactly the MIDI message framed.  Until   *)
(* the queue is drained the branches run are a prefix of those.            *)
(***************************************************************************)
DispatchedAsFramed ==
    /\ IsPrefix(calls, sent)
    /\ Quiescent => calls = sent

(***************************************************************************)
(* Reads as responded (spec 4.4): every byte the interrupt hands a read    *)
(* request is the next byte of the response of the last get command        *)
(* written, and NoData once that response is exhausted.                    *)
(***************************************************************************)
ReadsAsResponded == reads = expected
=============================================================================
