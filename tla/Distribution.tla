---------------------------- MODULE Distribution ----------------------------
(***************************************************************************)
(* Commands on their way from the central to the audio nodes: CentralSync, *)
(* the radio, and what audio/app/src/mgr.cpp does with a received packet.  *)
(*                                                                         *)
(* A packet reaches any set of the nodes that are synchronised to the      *)
(* periodic advertising; losing packets, losing the synchronisation and    *)
(* gaining it again are the radio's choice.  The recorder is reduced to    *)
(* what record_start() and record_stop() make of it.                       *)
(***************************************************************************)
EXTENDS CentralSync

CONSTANT Node

VARIABLES
  synced,        \* the nodes in the receiving loop of mgr_sync()
  last_cmd_seq,  \* mgr.last_cmd_seq of each node
  acted,         \* history: the commands each node acted on since its boot
  recording,     \* the START each node's recorder last accepted, 0 if stopped
  heard,         \* history: the latest command each node received a packet of
  restarted      \* history: the central has restarted

nodeVars == <<synced, last_cmd_seq, acted, recording, heard, restarted>>
vars == <<syncVars, nodeVars>>

TypeOK ==
  /\ SyncTypeOK
  /\ synced \subseteq Node
  /\ last_cmd_seq \in [Node -> Seq16]
  /\ acted \in [Node -> Seq(1 .. Len(issued))]
  /\ recording \in [Node -> Ordinal]
  /\ heard \in [Node -> Ordinal]
  /\ restarted \in BOOLEAN

Init ==
  /\ SyncInit
  /\ synced = {}
  /\ last_cmd_seq = [n \in Node |-> 0]
  /\ acted = [n \in Node |-> <<>>]
  /\ recording = [n \in Node |-> 0]
  /\ heard = [n \in Node |-> 0]
  /\ restarted = FALSE

-----------------------------------------------------------------------------
(***************************************************************************)
(* mgr_handle_adv_data().                                                  *)
(***************************************************************************)

\* Mutant: commands received multiple times are not ignored.
IsNew_Always(n) == TRUE

\* "Ignore commands received multiple times."
IsNew(n) == air.seq # last_cmd_seq[n]

\* Mutant: the number expected next is remembered, as for the packets.
SeqOfPacket_Next == (air.seq + 1) % CmdSeqMod

SeqOfPacket == air.seq

Acts(n) == IsNew(n) /\ air.cmd # 0

\* record_start() fails if the codec does not start; the state is then kept.
\* Otherwise the recorder starts, or splits its file, at the START's time.
NodeRecords(n) ==
  IF ~Acts(n) THEN {recording[n]}
  ELSE IF IsStop(air.cmd) THEN {0}
  ELSE {air.cmd} \cup (IF "codec" \in Faults /\ recording[n] = 0
                         THEN {recording[n]} ELSE {})

\* The nodes in R receive the packet, which has data, and handle it.
Handle(R) ==
  /\ last_cmd_seq' = [n \in Node |-> IF n \in R /\ IsNew(n)
                                       THEN SeqOfPacket ELSE last_cmd_seq[n]]
  /\ acted' = [n \in Node |-> IF n \in R /\ Acts(n)
                                THEN Append(acted[n], air.cmd) ELSE acted[n]]
  /\ heard' = [n \in Node |-> IF n \in R /\ air.cmd # 0 THEN air.cmd ELSE heard[n]]
  /\ recording' \in [Node -> Ordinal]
  /\ \A n \in Node : recording'[n] \in IF n \in R THEN NodeRecords(n)
                                                  ELSE {recording[n]}
  /\ UNCHANGED <<synced, restarted>>

\* One packet.  Before the central's first update it carries no data, which
\* mgr_parse_adv_data() rejects.
Packet(R) ==
  /\ packet_sent
  /\ IF air.valid THEN Handle(R) ELSE UNCHANGED nodeVars

-----------------------------------------------------------------------------
\* mgr_sync(): the train is found, or lost (TERM), or given up for pairing.
\* last_cmd_seq survives.
SyncStarted(n) ==
  /\ n \notin synced /\ synced' = synced \cup {n}
  /\ UNCHANGED <<syncVars, last_cmd_seq, acted, recording, heard, restarted>>

SyncTerminated(n) ==
  /\ n \in synced /\ synced' = synced \ {n}
  /\ UNCHANGED <<syncVars, last_cmd_seq, acted, recording, heard, restarted>>

\* An audio node restarts: nothing of mgr or the recorder survives.
NodeReboot(n) ==
  /\ "node" \in Faults
  /\ synced' = synced \ {n}
  /\ last_cmd_seq' = [last_cmd_seq EXCEPT ![n] = 0]
  /\ acted' = [acted EXCEPT ![n] = <<>>]
  /\ recording' = [recording EXCEPT ![n] = 0]
  /\ heard' = [heard EXCEPT ![n] = 0]
  /\ UNCHANGED <<syncVars, restarted>>

\* The central restarts: its advertising train ends, every node loses it.
CentralReboot ==
  /\ SyncReboot
  /\ synced' = {} /\ restarted' = TRUE
  /\ UNCHANGED <<last_cmd_seq, acted, recording, heard>>

\* Buttons and shells are free to issue any command at any time.
Issue == (sync_cmd_start \/ sync_cmd_stop) /\ UNCHANGED nodeVars

Update == sync_adv_update /\ UNCHANGED nodeVars

PacketSome == \E R \in SUBSET synced : Packet(R)

Next ==
  \/ Issue \/ Update \/ PacketSome
  \/ \E n \in Node : SyncStarted(n) \/ SyncTerminated(n) \/ NodeReboot(n)
  \/ CentralReboot

Spec == Init /\ [][Next]_vars

-----------------------------------------------------------------------------
(***************************************************************************)
(* Scheduling.  Packets are sent and the work queue runs.  A node that     *)
(* scans finds the train, and of the packets sent while it is synchronised *)
(* it does not miss all: the radio link works.                             *)
(***************************************************************************)
Receive(n) == \E R \in SUBSET synced : n \in R /\ Packet(R)

Fairness ==
  /\ WF_vars(Update)
  /\ WF_vars(PacketSome)
  /\ \A n \in Node : WF_vars(SyncStarted(n)) /\ SF_vars(Receive(n))

FairSpec == Spec /\ Fairness

(***************************************************************************)
(* Properties.                                                             *)
(***************************************************************************)

\* The distribution keeps the promise of Broadcast: no command is acted on
\* twice or after a later one, whatever is lost, repeated, restarted or
\* late, although nodes only compare numbers that wrap and start over.
Promise == INSTANCE Broadcast WITH
  ids <- [k \in 1 .. Len(issued) |-> issued[k].id],
  acted <- acted, recording <- recording
KeepsPromise == Promise!Spec

\* A node ignores no command it received: of the commands whose packets it
\* heard it has acted on the latest.  It only ignores "commands received
\* multiple times" (mgr.cpp:570).
HeardIsTaken == \A n \in Node : heard[n] = Promise!Newest(acted[n])

\* That is so as long as the central does not restart: then the numbers of
\* the commands start over and mgr.cpp:569 may meet one it remembers.
HeardIsTakenUntilRestart == restarted \/ HeardIsTaken

\* A STOP stays on the air, so in the end no node records after it.
StopReachesAll ==
  (Len(issued) = MaxCmds /\ IsStop(MaxCmds))
    ~> (\A n \in Node : recording[n] = 0)

=============================================================================
