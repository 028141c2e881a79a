------------------------------ MODULE SyncTime ------------------------------
(***************************************************************************)
(* How an audio node learns the central's time: the packet interrupt of    *)
(* central/net/src/main.c, the payload of central/app/src/sync.c, the      *)
(* capture of audio/net/src/main.c, and sync_timer_recv_adv() of           *)
(* audio/app/src/sync_timer.c.                                             *)
(*                                                                         *)
(* A packet carries the time at which the previous packet ended.  The node *)
(* captures its own time at the end of each packet in one hardware         *)
(* register, and pairs the two when the sequence number in the next packet *)
(* is the one it expects.  Packets are numbered from 0; the central's time *)
(* and the node's time at the end of packet k are both called k, so that a *)
(* pair is right if its two members are equal.                             *)
(***************************************************************************)
EXTENDS Integers, Sequences

CONSTANTS
  SeqMod,    \* packet sequence numbers wrap at SeqMod (2^8 in the code)
  Timeout,   \* packets missed in a row after which the sync terminates
  Reports,   \* the bound on received packets waiting to be handled
  LastPkt,   \* the bound on the packets sent
  Faults     \* what the environment may do

\* The faults an instance may enable:
\*   loss   a packet is not received     crc   it is received with an error
\*   ipc    ipc_service_send fails       late  the central's update_work runs
\*                                             later than a packet interval
\*   busy   the node's receive thread is blocked for longer than an interval
\*   gap    more than SeqMod packet times pass between two the node handles
FaultKind == {"loss", "crc", "ipc", "late", "busy", "gap"}

ASSUME SyncTimeAssumption ==
  /\ SeqMod \in Nat \ {0} /\ Timeout \in Nat
  /\ Reports \in Nat \ {0} /\ LastPkt \in Nat
  /\ Faults \subseteq FaultKind

VARIABLES
  sent,            \* packets whose transmission has ended
  sending,         \* a packet is being transmitted
  on_air,          \* its payload
  hdr,             \* sync_data.adv_data.hdr.sync
  update_work,     \* sync_update_work is pending
  air,             \* the payload the controller transmits next
  synced,          \* the node receives the train
  missed,          \* packets it missed in a row
  capture,         \* the node's capture register
  reports,         \* packets received and not yet handled
  last_adv_valid,  \* sync_timer.last_adv_valid
  last_adv_seq,    \* sync_timer.last_adv_seq
  last_adv_time,   \* sync_timer.last_adv_time
  sample,          \* what freq_est_update() was last called with
  heard            \* history: the last packet handled, and the time it carried

centralVars == <<sent, sending, on_air, hdr, update_work, air>>
timerVars   == <<last_adv_valid, last_adv_seq, last_adv_time, sample, heard>>
vars == <<centralVars, timerVars, synced, missed, capture, reports>>

SeqNo == 0 .. SeqMod - 1
Sync  == [valid : BOOLEAN, seq : SeqNo, time : Int]
None  == [valid |-> FALSE, seq |-> 0, time |-> -1]
NoSample == [local |-> -1, central |-> -1]

TypeOK ==
  /\ sent \in Nat
  /\ sending \in BOOLEAN /\ on_air \in Sync
  /\ hdr \in Sync /\ air \in Sync /\ update_work \in BOOLEAN
  /\ synced \in BOOLEAN /\ missed \in 0 .. Timeout
  /\ capture \in Int
  /\ reports \in Seq([sync : Sync, pkt : Nat])
  /\ last_adv_valid \in BOOLEAN /\ last_adv_seq \in SeqNo
  /\ last_adv_time \in Int /\ heard \in [pkt : Int, time : Int]
  /\ sample \in [local : Int, central : Int]

Init ==
  /\ sent = 0 /\ sending = FALSE /\ on_air = None
  /\ hdr = None /\ update_work = FALSE /\ air = None
  /\ synced = FALSE /\ missed = 0 /\ capture = -1 /\ reports = <<>>
  /\ last_adv_valid = FALSE /\ last_adv_seq = 0 /\ last_adv_time = -1
  /\ sample = NoSample /\ heard = [pkt |-> -1, time |-> -1]

-----------------------------------------------------------------------------
(***************************************************************************)
(* The central.                                                            *)
(***************************************************************************)

\* The controller starts to transmit what it was last given.
packet_begin ==
  /\ ~sending /\ sending' = TRUE
  /\ sent < LastPkt
  /\ ~update_work \/ "late" \in Faults
  /\ on_air' = air
  /\ UNCHANGED <<sent, hdr, update_work, air, timerVars, synced, missed,
                 capture, reports>>

\* Mutant: packet_timer.seq only counts the messages that were sent.
IsrSeq_Sent == (hdr.seq + 1) % SeqMod

\* t->seq++ counts every packet.
IsrSeq == sent % SeqMod

\* packet_timer_isr() and sync_ipc_recv(), at the end of the packet.
PacketIsr ==
  /\ sent' = sent + 1 /\ sending' = FALSE
  /\ \/ /\ hdr' = [valid |-> TRUE, seq |-> IsrSeq, time |-> sent]
        /\ update_work' = TRUE
     \/ "ipc" \in Faults /\ UNCHANGED <<hdr, update_work>>
  /\ UNCHANGED <<air, on_air>>

\* What sync_adv_update_handler() gives the controller.
Payload == hdr

sync_adv_update_handler ==
  /\ update_work /\ update_work' = FALSE
  /\ air' = Payload
  /\ UNCHANGED <<sent, sending, on_air, hdr, timerVars, synced, missed, capture, reports>>

-----------------------------------------------------------------------------
(***************************************************************************)
(* The node's radio: a packet that arrives is captured at its end, and     *)
(* reported if it is intact.  The register holds the latest capture only.  *)
(***************************************************************************)
Intact ==
  /\ capture' = sent /\ missed' = 0
  /\ reports' = IF on_air.valid
                  THEN Append(reports, [sync |-> on_air, pkt |-> sent])
                  ELSE reports

Corrupt ==
  /\ "crc" \in Faults
  /\ missed < Timeout /\ missed' = missed + 1
  /\ capture' = sent /\ UNCHANGED reports

Lost ==
  /\ "loss" \in Faults
  /\ missed < Timeout /\ missed' = missed + 1
  /\ UNCHANGED <<capture, reports>>

packet_end ==
  /\ sending
  /\ PacketIsr
  /\ \/ /\ synced
        /\ reports = <<>> \/ ("busy" \in Faults /\ Len(reports) < Reports)
        /\ on_air.time - heard.time <= SeqMod \/ "gap" \in Faults
        /\ Intact \/ Corrupt \/ Lost
     \/ ~synced /\ UNCHANGED <<missed, capture, reports>>
  /\ UNCHANGED <<timerVars, synced>>

\* The train is found; or it is lost after Timeout packets, or given up.  A
\* report still waiting is dropped with the deleted sync.  Nothing tells
\* sync_timer.
sync_started ==
  /\ ~synced /\ synced' = TRUE /\ missed' = 0
  /\ UNCHANGED <<centralVars, timerVars, capture, reports>>

sync_terminated ==
  /\ synced /\ synced' = FALSE /\ missed' = 0 /\ reports' = <<>>
  /\ UNCHANGED <<centralVars, timerVars, capture>>

-----------------------------------------------------------------------------
(***************************************************************************)
(* sync_timer_recv_adv(), on the node's receive thread.                    *)
(***************************************************************************)

Expected(s) == last_adv_valid /\ s.seq = last_adv_seq

\* Mutant: the sum is not cut back to 8 bits before it is compared.
NextSeq_Wide(s) == s.seq + 1

NextSeq(s) == (s.seq + 1) % SeqMod

\* Mutant: the time is only taken when the sequence is in order.
CapturedTime_InOrder(s) ==
  IF ~last_adv_valid \/ Expected(s) THEN capture ELSE last_adv_time

CapturedTime(s) == capture

sync_timer_recv_adv ==
  /\ reports # <<>>
  /\ LET s == Head(reports).sync IN
       /\ sample' = IF Expected(s)
                      THEN [local |-> last_adv_time, central |-> s.time]
                      ELSE NoSample
       /\ last_adv_valid' = TRUE
       /\ last_adv_seq' = NextSeq(s)
       /\ last_adv_time' = CapturedTime(s)
  /\ heard' = [pkt |-> Head(reports).pkt, time |-> Head(reports).sync.time]
  /\ reports' = Tail(reports)
  /\ UNCHANGED <<centralVars, synced, missed, capture>>

Next ==
  \/ packet_begin \/ packet_end \/ sync_adv_update_handler
  \/ sync_started \/ sync_terminated \/ sync_timer_recv_adv

Spec == Init /\ [][Next]_vars

-----------------------------------------------------------------------------
(***************************************************************************)
(* Properties.                                                             *)
(***************************************************************************)

\* Every pair of times the clock estimate learns from belongs to one packet,
\* whatever is lost, corrupted or terminated in between.
Paired == sample.local = sample.central

\* "Local timestamp of the last received advertisment" (sync_timer.c:43): the
\* capture read when a packet is handled is still its own.
LastAdvTime == last_adv_valid => last_adv_time = heard.pkt

\* Of two packets received one after the other, each with the time of the
\* packet right before it (protocol.h:20), the second gives a pair, at the wrap of the
\* sequence number too.
EveryPairSampled ==
  [][( /\ last_adv_valid /\ heard'.pkt = heard.pkt + 1
       /\ heard.time = heard.pkt - 1 /\ heard'.time = heard'.pkt - 1 )
     => sample' # NoSample]_vars

=============================================================================
