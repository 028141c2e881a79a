---------------------------- MODULE CentralSync ----------------------------
(***************************************************************************)
(* The central node's broadcast: central/app/src/sync.c with the packet    *)
(* interrupt of its network core, central/net/src/main.c.                  *)
(*                                                                         *)
(* Commands wait in a queue of QueueSize.  Each periodic advertising       *)
(* packet interrupts the network core, whose message makes the application *)
(* core's work queue run sync_adv_update_handler(): it takes at most one   *)
(* command, expires an old START, and gives the controller the payload of  *)
(* the following packets.                                                  *)
(*                                                                         *)
(* Time is counted in packets.  A command is named by its position in      *)
(* `issued', the history of every command accepted into the queue; 0 is    *)
(* ZEUS_ADV_CMD_NONE.                                                      *)
(***************************************************************************)
EXTENDS Integers, Sequences

CONSTANTS
  QueueSize,   \* slots of sync_cmd_queue
  StartDelay,  \* SYNC_START_DELAY, in packets
  TimeMod,     \* the packet timer wraps at TimeMod (2^32 in the code)
  CmdSeqMod,   \* cmd_seq wraps at CmdSeqMod (2^16 in the code)
  MaxCmds,     \* the bound on the commands issued
  LastPkt,     \* the packet count `pkt' stays at LastPkt once it is reached
  Faults       \* what the environment may do

\* The faults an instance may enable (the last two are other modules'):
\*   ipc     ipc_service_send fails         set    bt_le_per_adv_set_data fails
\*   late    the work queue is blocked for longer than a packet interval
\*   adv     a bt_le_ext_adv_* call fails   early  see CentralMain
\*   central the central reboots            node   an audio node reboots
\*   codec   a node cannot start its codec
FaultKind == {"ipc", "set", "late", "adv", "early", "central", "node", "codec"}

ASSUME SyncAssumption ==
  /\ QueueSize \in Nat \ {0}
  /\ StartDelay \in Nat /\ TimeMod \in Nat \ {0} /\ CmdSeqMod \in Nat \ {0}
  /\ MaxCmds \in Nat /\ LastPkt \in Nat
  /\ Faults \subseteq FaultKind

VARIABLES
  cmd_queue,      \* sync_cmd_queue
  cmd,            \* sync_data.adv_data.cmd
  cmd_seq,        \* sync_data.cmd_seq, always equal to adv_data.hdr.seq
  last_pkt_time,  \* sync_data.last_pkt_time and adv_data.hdr.sync.prev_time
  update_work,    \* sync_update_work is pending
  air,            \* the payload the controller transmits
  light,          \* what led_record_*() last asked the LED to show
  timer,          \* the network core's packet timer at the last packet
  pkt,            \* history: packets transmitted
  issued          \* history: the commands accepted, and when

syncVars == <<cmd_queue, cmd, cmd_seq, last_pkt_time, update_work, air, light,
              timer, pkt, issued>>

Ordinal == 0 .. Len(issued)
Time    == 0 .. TimeMod - 1
Seq16   == 0 .. CmdSeqMod - 1
Command == [id : {"START", "STOP"}, time : Time, at : Nat]

\* A payload before any was set: the packet has no advertising data.
NoData == [valid |-> FALSE, seq |-> 0, cmd |-> 0]

SyncTypeOK ==
  /\ issued \in Seq(Command)
  /\ cmd_queue \in Seq(1 .. Len(issued)) /\ Len(cmd_queue) <= QueueSize
  /\ cmd \in Ordinal
  /\ cmd_seq \in Seq16
  /\ last_pkt_time \in Time
  /\ update_work \in BOOLEAN
  /\ air \in [valid : BOOLEAN, seq : Seq16, cmd : Ordinal]
  /\ light \in {"none", "waiting", "started", "stopped"}
  /\ timer \in Time /\ pkt \in Nat

IsStart(k) == k # 0 /\ issued[k].id = "START"
IsStop(k)  == k # 0 /\ issued[k].id = "STOP"

\* Mutant: sync_time_diff() without the cast to a signed type.
sync_time_diff_Unsigned(a, b) == (a - b) % TimeMod

sync_time_diff(a, b) ==
  LET d == (a - b) % TimeMod
  IN  IF 2 * d < TimeMod THEN d ELSE d - TimeMod

-----------------------------------------------------------------------------
\* The state a booting central starts from.
SyncBoot ==
  /\ cmd_queue = <<>> /\ cmd = 0 /\ cmd_seq = 0 /\ last_pkt_time = 0
  /\ update_work = FALSE /\ air = NoData /\ light = "none"

SyncInit == SyncBoot /\ timer = 0 /\ pkt = 0 /\ issued = <<>>

(***************************************************************************)
(* sync_cmd_start() and sync_cmd_stop(), from the button or the shell:     *)
(* k_msgq_put() with K_NO_WAIT.                                            *)
(***************************************************************************)

\* Mutant: the START asks for the time of the last packet.
StartTime_Now == last_pkt_time

StartTime == (last_pkt_time + StartDelay) % TimeMod

Put(c) ==
  /\ Len(cmd_queue) < QueueSize
  /\ issued' = Append(issued, c)
  /\ cmd_queue' = Append(cmd_queue, Len(issued) + 1)

\* -ENOMSG: the command is dropped and the caller told so.
QueueFull == Len(cmd_queue) = QueueSize /\ UNCHANGED <<issued, cmd_queue>>

sync_cmd_start ==
  /\ Len(issued) < MaxCmds
  /\ Put([id |-> "START", time |-> StartTime, at |-> pkt])
  /\ UNCHANGED <<cmd, cmd_seq, last_pkt_time, update_work, air, light, timer,
                 pkt>>

sync_cmd_stop ==
  /\ Len(issued) < MaxCmds
  /\ Put([id |-> "STOP", time |-> 0, at |-> pkt])
  /\ UNCHANGED <<cmd, cmd_seq, last_pkt_time, update_work, air, light, timer,
                 pkt>>

-----------------------------------------------------------------------------
(***************************************************************************)
(* A periodic packet ends: packet_timer_isr() sends its time to the        *)
(* application core, whose sync_ipc_recv() submits the work item (a no-op  *)
(* while it is pending).                                                   *)
(***************************************************************************)
packet_sent ==
  /\ ~update_work \/ "late" \in Faults
  /\ timer' = (timer + 1) % TimeMod
  /\ pkt' = IF pkt < LastPkt THEN pkt + 1 ELSE pkt
  /\ \/ last_pkt_time' = timer' /\ update_work' = TRUE
     \/ "ipc" \in Faults /\ UNCHANGED <<last_pkt_time, update_work>>
  /\ UNCHANGED <<cmd_queue, cmd, cmd_seq, air, light, issued>>

(***************************************************************************)
(* sync_adv_update_handler().                                              *)
(***************************************************************************)

\* Mutant: a command is only taken when no other is being advertised.
Takes_WhenIdle == cmd_queue # <<>> /\ cmd = 0

\* k_msgq_get() returns a command.
Takes == cmd_queue # <<>>

Current == IF Takes THEN Head(cmd_queue) ELSE cmd

WaitingTime(k) == sync_time_diff(issued[k].time, last_pkt_time)

\* Mutant: a STOP is cleared too, once it has been sent.
Expires_StopToo ==
  \/ IsStart(Current) /\ WaitingTime(Current) < -StartDelay
  \/ IsStop(cmd) /\ ~Takes

\* "Clear out old start command once twice the start delay has passed."
Expires == IsStart(Current) /\ WaitingTime(Current) < -StartDelay

NewCmd == Takes \/ Expires

NextSeq == (cmd_seq + 1) % CmdSeqMod

Shown ==
  IF IsStart(Current)
    THEN IF WaitingTime(Current) > 0 THEN "waiting" ELSE "started"
    ELSE IF IsStop(Current) THEN "stopped" ELSE light

sync_adv_update ==
  /\ update_work
  /\ update_work' = FALSE
  /\ cmd_queue' = IF Takes THEN Tail(cmd_queue) ELSE cmd_queue
  /\ cmd' = IF Expires THEN 0 ELSE Current
  /\ cmd_seq' = IF NewCmd THEN NextSeq ELSE cmd_seq
  /\ light' = Shown
  /\ \/ air' = [valid |-> TRUE, seq |-> cmd_seq', cmd |-> cmd']
     \/ "set" \in Faults /\ UNCHANGED air
  /\ UNCHANGED <<last_pkt_time, timer, pkt, issued>>

\* A reset of the central (both cores): commands not yet sent are lost and the
\* numbering of commands starts over.
SyncReboot ==
  /\ "central" \in Faults
  /\ cmd_queue' = <<>> /\ cmd' = 0 /\ cmd_seq' = 0 /\ last_pkt_time' = 0
  /\ update_work' = FALSE /\ air' = NoData /\ light' = "none"
  /\ timer' = 0
  /\ UNCHANGED <<pkt, issued>>

-----------------------------------------------------------------------------
(***************************************************************************)
(* Properties.                                                             *)
(***************************************************************************)

\* A command leaves the queue in its turn, one per packet, whatever is being
\* advertised: none waits for more packets than the queue has slots.
QueueLatency ==
  \A i \in 1 .. Len(cmd_queue) :
    pkt - issued[cmd_queue[i]].at <= QueueSize + 1 - i

\* A START is on the air before the recording it announces begins, so that
\* nodes can start together (sync.c:16, "must be long enough").
StartAnnouncedAhead ==
  [][air'.cmd # air.cmd /\ (IsStart(air.cmd))' =>
       sync_time_diff(issued[air'.cmd].time, timer) > 0]_syncVars

\* An old START does not stay on the air: a node that boots or comes back
\* later than twice the delay does not begin a recording of its own.
StartExpires ==
  IsStart(air.cmd) => pkt <= issued[air.cmd].at + 2 * StartDelay + 2

=============================================================================
