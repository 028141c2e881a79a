--------------------------- MODULE AudioPipeline ---------------------------
(***************************************************************************)
(* The audio pipeline of an audio node: audio/app/src/audio.c between the  *)
(* I2S driver and the recorder.                                            *)
(*                                                                         *)
(* When the hardware turns to a new buffer, one interrupt stamps the block *)
(* that begins, into block_time_queue, and another puts the block that is  *)
(* complete into the driver's queue and takes the buffer after the new one *)
(* from audio_slab.  The audio thread reads a block and takes a time for   *)
(* it: that they belong together is nowhere written down, it follows from  *)
(* the sizes of the slab and of the two queues.                            *)
(*                                                                         *)
(* Blocks and times are numbered by the interrupt in which they began.     *)
(* The driver (Zephyr's i2s_nrfx) is external.                             *)
(***************************************************************************)
EXTENDS Integers, Sequences

CONSTANTS
  BlockCount,  \* AUDIO_BLOCK_COUNT
  BlockMod,    \* the numbers of blocks repeat after so many
  AudioFaults  \* what the instance may meet

\* The faults an instance may enable:
\*   trigger  i2s_trigger() fails
\*   stall    the hardware stops without an error
\*   restart  the stream may be restarted more than once
AudioFaultKind == {"trigger", "stall", "restart"}

ASSUME AudioAssumption ==
  /\ BlockCount \in Nat /\ BlockCount >= 3
  /\ BlockMod \in Nat /\ BlockMod > 2 * BlockCount
  /\ AudioFaults \subseteq AudioFaultKind

VARIABLES
  i2s,      \* the driver: state, block being received, next buffer, number
  rxq,      \* the driver's queue of complete blocks
  times,    \* block_time_queue
  athread,  \* where the audio thread is
  ablock,   \* the block it has read
  ainit,    \* audio_init(): waiting for the semaphore, or its result
  paired,   \* history: the last block that was given a time, and the time
  adrops,   \* history: a time did not fit
  restarts  \* history: how often the stream was restarted, at most twice

audioVars == <<i2s, rxq, times, athread, ablock, ainit, paired, adrops, restarts>>

NoBlock  == BlockMod
Number   == 0 .. BlockMod - 1
BlockOr  == Number \cup {NoBlock}

AudioTypeOK ==
  /\ i2s \in [state : {"ready", "running", "error"}, block : BlockOr,
              next : BOOLEAN, number : Number]
  /\ rxq \in Seq(Number) /\ Len(rxq) <= BlockCount - 1
  /\ times \in Seq(Number) /\ Len(times) <= BlockCount
  /\ athread \in {"start", "read", "time", "dead"}
  /\ ablock \in BlockOr
  /\ ainit \in {"waiting", "given", "ready", "failed"}
  /\ paired \in [block : BlockOr, time : BlockOr]
  /\ adrops \in BOOLEAN /\ restarts \in 0 .. 2

\* audio_init() has created the thread and waits for it.
AudioInit ==
  /\ i2s = [state |-> "ready", block |-> NoBlock, next |-> FALSE, number |-> 0]
  /\ rxq = <<>> /\ times = <<>>
  /\ athread = "start" /\ ablock = NoBlock /\ ainit = "waiting"
  /\ paired = [block |-> NoBlock, time |-> NoBlock]
  /\ adrops = FALSE /\ restarts = 0

\* audio_slab: what the driver, its queue and the thread have.
BuffersUsed ==
  Len(rxq) + (IF i2s.block # NoBlock THEN 1 ELSE 0) + (IF i2s.next THEN 1 ELSE 0)
           + (IF ablock # NoBlock THEN 1 ELSE 0)

BufferFree == BuffersUsed < BlockCount

-----------------------------------------------------------------------------
(***************************************************************************)
(* The interrupts.                                                         *)
(***************************************************************************)

\* Mutant: the queue of times is shorter than what may be outstanding.
TimeQueueSize_Small == BlockCount - 2

TimeQueueSize == BlockCount

Stamps == TRUE

\* audio_egu_handler(): i2s_time goes on even if the time does not fit.
audio_egu_handler ==
  IF ~Stamps THEN UNCHANGED <<times, adrops>>
  ELSE IF Len(times) < TimeQueueSize
  THEN times' = Append(times, i2s.number) /\ UNCHANGED adrops
  ELSE adrops' = TRUE /\ UNCHANGED times

\* The driver stops by itself; the block it is receiving may be handed over
\* incomplete, or is lost.
StopsWith(q, block) ==
  /\ i2s' = [i2s EXCEPT !.state = "error", !.block = NoBlock, !.next = FALSE,
                        !.number = (@ + 1) % BlockMod]
  /\ rxq' \in {q} \cup (IF Len(q) < BlockCount - 1 THEN {Append(q, block)} ELSE {})

\* RXPTRUPD: the next buffer becomes the current one.
BlockBegins ==
  /\ i2s.state = "running" /\ i2s.next
  /\ audio_egu_handler
  /\ LET q    == IF i2s.block = NoBlock THEN rxq ELSE Append(rxq, i2s.block)
         room == Len(q) <= BlockCount - 1
     IN  IF ~room THEN StopsWith(rxq, i2s.number)
         ELSE IF BuffersUsed < BlockCount
         THEN /\ i2s' = [i2s EXCEPT !.block = i2s.number,
                                    !.number = (@ + 1) % BlockMod]
              /\ rxq' = q
         ELSE StopsWith(q, i2s.number)
  /\ UNCHANGED <<athread, ablock, ainit, paired, restarts>>

-----------------------------------------------------------------------------
(***************************************************************************)
(* audio_thread_run().                                                     *)
(***************************************************************************)
MayTrigger == "trigger" \in AudioFaults

\* I2S_TRIGGER_START takes the first buffer.
Started(driver) ==
  i2s' = [driver EXCEPT !.state = "running", !.next = TRUE]

ThreadStart ==
  /\ athread = "start"
  /\ \/ athread' = "read" /\ Started(i2s)
     \/ MayTrigger /\ athread' = "dead" /\ UNCHANGED i2s
  /\ UNCHANGED <<rxq, times, ablock, ainit, paired, adrops, restarts>>

\* i2s_read() gets a block.
ThreadRead ==
  /\ athread = "read" /\ rxq # <<>>
  /\ ablock' = Head(rxq) /\ rxq' = Tail(rxq)
  /\ athread' = "time"
  /\ UNCHANGED <<i2s, times, ainit, paired, adrops, restarts>>

\* i2s_read() fails when the stream has: it is prepared and started again,
\* and the times are left as they are.
ThreadRestart ==
  /\ athread = "read" /\ rxq = <<>> /\ i2s.state = "error"
  /\ "restart" \in AudioFaults \/ restarts = 0
  /\ restarts' = IF restarts < 2 THEN restarts + 1 ELSE 2
  /\ \/ athread' = "read" /\ Started(i2s)
     \/ MayTrigger /\ athread' = "dead" /\ i2s' = [i2s EXCEPT !.state = "ready"]
  /\ UNCHANGED <<rxq, times, ablock, ainit, paired, adrops>>

\* i2s_read() times out: a stream without an error cannot be prepared.
ThreadStalled ==
  /\ "stall" \in AudioFaults
  /\ athread = "read" /\ rxq = <<>> /\ i2s.state = "running"
  /\ athread' = "dead"
  /\ UNCHANGED <<i2s, rxq, times, ablock, ainit, paired, adrops, restarts>>

\* The block is given the next time, the semaphore is given, the block goes to
\* record_buffer() and its buffer back to the slab.
ThreadTime ==
  /\ athread = "time" /\ times # <<>>
  /\ paired' = [block |-> ablock, time |-> Head(times)]
  /\ times' = Tail(times)
  /\ ainit' = IF ainit = "waiting" THEN "given" ELSE ainit
  /\ ablock' = NoBlock /\ athread' = "read"
  /\ UNCHANGED <<i2s, rxq, adrops, restarts>>

\* "EGU interrupt never ran": the buffer is not returned.
ThreadNoTime ==
  /\ athread = "time" /\ times = <<>>
  /\ athread' = "dead"
  /\ UNCHANGED <<i2s, rxq, times, ablock, ainit, paired, adrops, restarts>>

\* audio_init() gets the semaphore, or gives up after two seconds.
audio_init ==
  /\ \/ ainit = "given" /\ ainit' = "ready"
     \/ ainit = "waiting" /\ athread = "dead" /\ ainit' = "failed"
  /\ UNCHANGED <<i2s, rxq, times, athread, ablock, paired, adrops, restarts>>

AudioThread == ThreadStart \/ ThreadRead \/ ThreadRestart \/ ThreadStalled
                 \/ ThreadTime \/ ThreadNoTime

AudioNext == BlockBegins \/ AudioThread \/ audio_init

AudioSpec == AudioInit /\ [][AudioNext]_audioVars

-----------------------------------------------------------------------------
(***************************************************************************)
(* Properties.                                                             *)
(***************************************************************************)

\* Until the stream has been restarted every block gets the time at which it
\* began, however far the thread lags, up to the error (audio.c:237-248).
OwnTime == restarts = 0 => paired.time = paired.block

\* The thread never has to wait for a time, and so never ends for the lack of
\* one, however often the stream fails (audio.c:239).
TimeIsThere == athread = "time" => times # <<>>

\* In a stream that has not been restarted every block the recorder gets has
\* the time at which it began, however far the thread lags, up to the error;
\* and the thread never ends for the lack of a time (audio.c:237-248).
BlocksGetTheirTime == OwnTime /\ TimeIsThere

\* Before a time is dropped the stream overruns (audio.c:285).
OverrunsFirst == adrops => i2s.state = "error"

=============================================================================
