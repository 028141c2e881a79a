--------------------------- MODULE CentralProofs ---------------------------
(***************************************************************************)
(* Proofs about the central node: its state follows the commands it has    *)
(* issued and the LED the state, whatever fails; and, as long as the work  *)
(* queue keeps up with the packets, commands are sent in time.             *)
(***************************************************************************)
EXTENDS CentralMain, TLAPS

-----------------------------------------------------------------------------
(***************************************************************************)
(* Types.                                                                  *)
(***************************************************************************)

\* Times, command numbers and ordinals stay in their ranges.
LEMMA ModTypes ==
  /\ \A a \in Int : a % TimeMod \in Time
  /\ \A a \in Int : a % CmdSeqMod \in Seq16
BY SyncAssumption DEF Time, Seq16

\* A command that is accepted is the last of the history and of the queue.
LEMMA PutEffect ==
  ASSUME SyncTypeOK, NEW c \in Command, Put(c)
  PROVE  /\ issued' \in Seq(Command) /\ Len(issued') = Len(issued) + 1
         /\ issued'[Len(issued) + 1] = c
         /\ \A k \in 1 .. Len(issued) : issued'[k] = issued[k]
         /\ cmd_queue' \in Seq(1 .. Len(issued'))
         /\ Len(cmd_queue) < QueueSize /\ Len(cmd_queue') = Len(cmd_queue) + 1
         /\ cmd_queue'[Len(cmd_queue) + 1] = Len(issued) + 1
         /\ \A i \in 1 .. Len(cmd_queue) : cmd_queue'[i] = cmd_queue[i]
<1>1. issued \in Seq(Command) /\ Len(issued) \in Nat
  BY DEF SyncTypeOK
<1>2. issued' = Append(issued, c) /\ cmd_queue' = Append(cmd_queue, Len(issued) + 1)
  BY DEF Put
<1>3. /\ issued' \in Seq(Command) /\ Len(issued') = Len(issued) + 1
      /\ issued'[Len(issued) + 1] = c
      /\ \A k \in 1 .. Len(issued) : issued'[k] = issued[k]
  BY <1>1, <1>2
<1>4. cmd_queue \in Seq(1 .. Len(issued'))
  <2>1. cmd_queue \in Seq(1 .. Len(issued))
    BY DEF SyncTypeOK
  <2>2. \A i \in 1 .. Len(cmd_queue) : cmd_queue[i] \in 1 .. Len(issued')
    BY <2>1, <1>1, <1>3
  <2>3. QED
    BY <2>1, <2>2
<1>5. Len(issued) + 1 \in 1 .. Len(issued')
  BY <1>1, <1>3
<1>6. QED
  BY <1>2, <1>3, <1>4, <1>5 DEF Put

\* What a START or a STOP puts into the queue.
LEMMA CommandTypes ==
  ASSUME SyncTypeOK
  PROVE  /\ [id |-> "START", time |-> StartTime, at |-> pkt] \in Command
         /\ [id |-> "STOP", time |-> 0, at |-> pkt] \in Command
<1>1. StartTime \in Time
  <2>1. last_pkt_time + StartDelay \in Int
    BY SyncAssumption DEF SyncTypeOK, Time
  <2>2. QED
    BY <2>1, ModTypes DEF StartTime
<1>2. 0 \in Time
  BY SyncAssumption DEF Time
<1>3. QED
  BY <1>1, <1>2 DEF SyncTypeOK, Command

\* Issuing a command keeps the types.
LEMMA PutTypes ==
  ASSUME SyncTypeOK, sync_cmd_start \/ sync_cmd_stop
  PROVE  SyncTypeOK' /\ Len(issued') = Len(issued) + 1
<1>1. PICK c \in Command : Put(c)
  BY CommandTypes DEF sync_cmd_start, sync_cmd_stop
<1>2. Len(issued) \in Nat
  BY DEF SyncTypeOK
<1>3. UNCHANGED <<cmd, cmd_seq, last_pkt_time, update_work, air, light, timer, pkt>>
  BY DEF sync_cmd_start, sync_cmd_stop
<1>4. /\ issued' \in Seq(Command) /\ Len(issued') = Len(issued) + 1
      /\ cmd_queue' \in Seq(1 .. Len(issued')) /\ Len(cmd_queue') <= QueueSize
  BY <1>1, PutEffect, SyncAssumption DEF SyncTypeOK
<1>5. cmd \in 0 .. Len(issued') /\ air.cmd \in 0 .. Len(issued')
  BY <1>2, <1>4 DEF SyncTypeOK, Ordinal
<1>6. air \in [valid : BOOLEAN, seq : Seq16, cmd : 0 .. Len(issued')]
  BY <1>5 DEF SyncTypeOK
<1>7. QED
  BY <1>3, <1>4, <1>5, <1>6 DEF SyncTypeOK, Ordinal

\* So does a packet.
LEMMA PacketTypes ==
  ASSUME SyncTypeOK, packet_sent
  PROVE  SyncTypeOK' /\ issued' = issued
<1>1. timer' \in Time
  <2>1. timer + 1 \in Int
    BY DEF SyncTypeOK, Time
  <2>2. QED
    BY <2>1, ModTypes DEF packet_sent
<1>1b. pkt' \in Nat
  BY DEF packet_sent, SyncTypeOK
<1>2. last_pkt_time' \in Time /\ update_work' \in BOOLEAN
  BY <1>1 DEF packet_sent, SyncTypeOK
<1>3. QED
  BY <1>1, <1>1b, <1>2 DEF packet_sent, SyncTypeOK, Ordinal

\* The command being advertised is one that was issued.
LEMMA CurrentType ==
  ASSUME SyncTypeOK
  PROVE  Current \in Ordinal
<1>1. Takes => Head(cmd_queue) \in 1 .. Len(issued)
  BY DEF SyncTypeOK, Takes
<1>2. Len(issued) \in Nat
  BY DEF SyncTypeOK
<1>3. QED
  BY <1>1, <1>2 DEF SyncTypeOK, Current, Ordinal

\* So does an update of the advertising data.
LEMMA UpdateTypes ==
  ASSUME SyncTypeOK, sync_adv_update
  PROVE  SyncTypeOK' /\ issued' = issued
<1>1. issued' = issued /\ UNCHANGED <<last_pkt_time, timer, pkt>>
  BY DEF sync_adv_update
<1>2. cmd_queue' \in Seq(1 .. Len(issued)) /\ Len(cmd_queue') <= QueueSize
  <2>1. CASE Takes
    <3>1. cmd_queue' = Tail(cmd_queue) /\ cmd_queue # <<>>
      BY <2>1 DEF sync_adv_update, Takes
    <3>2. QED
      BY <3>1, SyncAssumption DEF SyncTypeOK
  <2>2. CASE ~Takes
    BY <2>2 DEF sync_adv_update, SyncTypeOK
  <2>3. QED
    BY <2>1, <2>2
<1>3. cmd' \in Ordinal /\ 0 \in Ordinal
  <2>1. Len(issued) \in Nat
    BY DEF SyncTypeOK
  <2>2. QED
    BY <2>1, CurrentType DEF sync_adv_update, Ordinal
<1>4. cmd_seq' \in Seq16
  <2>1. cmd_seq \in Seq16 /\ cmd_seq + 1 \in Int
    BY DEF SyncTypeOK, Seq16
  <2>2. QED
    BY <2>1, ModTypes DEF sync_adv_update, NextSeq
<1>5. air' \in [valid : BOOLEAN, seq : Seq16, cmd : Ordinal]
  <2>1. air \in [valid : BOOLEAN, seq : Seq16, cmd : Ordinal]
    BY DEF SyncTypeOK
  <2>2. air' = [valid |-> TRUE, seq |-> cmd_seq', cmd |-> cmd'] \/ air' = air
    BY DEF sync_adv_update
  <2>3. [valid |-> TRUE, seq |-> cmd_seq', cmd |-> cmd']
          \in [valid : BOOLEAN, seq : Seq16, cmd : Ordinal]
    BY <1>3, <1>4
  <2>4. QED
    BY <2>1, <2>2, <2>3
<1>6. light' \in {"none", "waiting", "started", "stopped"} /\ update_work' \in BOOLEAN
  BY DEF sync_adv_update, Shown, SyncTypeOK
<1>7. QED
  BY <1>1, <1>2, <1>3, <1>4, <1>5, <1>6 DEF SyncTypeOK, Ordinal

\* And a reset.
LEMMA RebootTypes ==
  ASSUME SyncTypeOK, SyncReboot
  PROVE  SyncTypeOK' /\ issued' = issued
<1>1. 0 \in Seq16 /\ 0 \in Time /\ Len(issued) \in Nat
  BY SyncAssumption DEF Seq16, Time, SyncTypeOK
<1>2. 0 \in Ordinal
  BY <1>1 DEF Ordinal
<1>3. NoData \in [valid : BOOLEAN, seq : Seq16, cmd : Ordinal]
  BY <1>1, <1>2 DEF NoData
<1>4. /\ cmd_queue' \in Seq(1 .. Len(issued)) /\ Len(cmd_queue') <= QueueSize
  <2>1. cmd_queue' = <<>>
    BY DEF SyncReboot
  <2>2. QED
    BY <2>1, SyncAssumption
<1>5. /\ cmd' \in Ordinal /\ cmd_seq' \in Seq16 /\ last_pkt_time' \in Time
      /\ timer' \in Time /\ pkt' \in Nat /\ update_work' \in BOOLEAN
      /\ light' \in {"none", "waiting", "started", "stopped"}
      /\ air' \in [valid : BOOLEAN, seq : Seq16, cmd : Ordinal]
      /\ issued' = issued
  BY <1>1, <1>2, <1>3 DEF SyncReboot, SyncTypeOK
<1>6. QED
  BY <1>4, <1>5 DEF SyncTypeOK, Ordinal

\* What a command does to the broadcast, accepted or refused.
LEMMA CmdTypes ==
  ASSUME SyncTypeOK, CmdStart \/ CmdStop
  PROVE  SyncTypeOK' /\ Len(issued') \in {Len(issued), Len(issued) + 1}
<1>1. CASE sync_cmd_start \/ sync_cmd_stop
  BY <1>1, PutTypes
<1>2. CASE UNCHANGED syncVars
  BY <1>2 DEF syncVars, SyncTypeOK, Ordinal
<1>3. QED
  BY <1>1, <1>2 DEF CmdStart, CmdStop

\* The part of the type invariant that is CentralMain's own.
MainTypeOK ==
  /\ state \in STATES
  /\ {advertising, filtered, released, release_work, boot_press} \subseteq BOOLEAN
  /\ booted \in {"no", "irq", "ready"}
  /\ button \in {"down", "up"}

LEMMA TypesSplit == TypeOK <=> SyncTypeOK /\ MainTypeOK /\ before \in Ordinal
BY DEF TypeOK, MainTypeOK

LEMMA TypeInit == Init => TypeOK
<1> SUFFICES ASSUME Init PROVE TypeOK
  OBVIOUS
<1>1. 0 \in Seq16 /\ 0 \in Time
  BY SyncAssumption DEF Seq16, Time
<1>2. issued \in Seq(Command) /\ Len(issued) = 0
  BY DEF Init, SyncInit
<1>3. 0 \in Ordinal
  BY <1>2 DEF Ordinal
<1>4. cmd_queue \in Seq(1 .. Len(issued)) /\ Len(cmd_queue) <= QueueSize
  <2>1. cmd_queue = <<>>
    BY DEF Init, SyncInit, SyncBoot
  <2>2. QED
    BY <2>1, SyncAssumption
<1>5. air \in [valid : BOOLEAN, seq : Seq16, cmd : Ordinal]
  BY <1>1, <1>3 DEF Init, SyncInit, SyncBoot, NoData
<1>6. SyncTypeOK
  BY <1>1, <1>2, <1>3, <1>4, <1>5 DEF Init, SyncInit, SyncBoot, SyncTypeOK
<1>7. MainTypeOK /\ before \in Ordinal
  BY <1>3 DEF Init, MainTypeOK, STATES
<1>8. QED
  BY <1>6, <1>7, TypesSplit

\* A toggle of the button issues a command, or does nothing.
LEMMA ToggleTypes ==
  ASSUME TypeOK, Toggle
  PROVE  /\ SyncTypeOK' /\ Len(issued') \in {Len(issued), Len(issued) + 1}
         /\ state' \in STATES
<1>1. CASE CmdStart \/ CmdStop
  BY <1>1, CmdTypes DEF Toggle, StateAfter, STATES, TypeOK
<1>2. CASE UNCHANGED syncVars
  BY <1>2 DEF Toggle, StateAfter, STATES, TypeOK, syncVars, SyncTypeOK, Ordinal
<1>3. QED
  BY <1>1, <1>2 DEF Toggle, syncVars

\* No step of the broadcast shortens the history of the commands.
LEMMA BroadcastTypes ==
  ASSUME TypeOK, [Next]_vars
  PROVE  SyncTypeOK' /\ Len(issued') \in {Len(issued), Len(issued) + 1}
<1>1. CASE UNCHANGED syncVars
  BY <1>1 DEF syncVars, TypeOK, SyncTypeOK, Ordinal
<1>2. CASE packet_sent \/ sync_adv_update
  BY <1>2, PacketTypes, UpdateTypes DEF TypeOK
<1>3. CASE CmdStart \/ CmdStop
  BY <1>3, CmdTypes DEF TypeOK
<1>4. CASE Toggle
  BY <1>4, ToggleTypes
<1>5. CASE SyncReboot
  BY <1>5, RebootTypes DEF TypeOK
<1>6. QED
  BY <1>1, <1>2, <1>3, <1>4, <1>5
  DEF Next, vars, Sync, central_start, central_stop, central_pair, syncVars,
      button_init_irq, button_init_level, button_press, button_release_handler,
      button_release_work_handler, Reboot

\* The states, the flags and the button.
LEMMA MainTypes ==
  ASSUME TypeOK, [Next]_vars
  PROVE  MainTypeOK'
<1> USE DEF TypeOK, MainTypeOK, mainVars, buttonVars
<1>1. CASE UNCHANGED vars \/ Sync
  BY <1>1 DEF vars, Sync
<1>2. CASE central_start
  BY <1>2 DEF central_start, StateAfter, STATES
<1>3. CASE central_stop
  BY <1>3 DEF central_stop, StateAfter, STATES
<1>4. CASE central_pair
  BY <1>4 DEF central_pair, STATES
<1>5. CASE button_init_irq \/ button_init_level
  BY <1>5 DEF button_init_irq, button_init_level
<1>6. CASE button_press
  BY <1>6 DEF button_press
<1>7. CASE button_release_handler
  BY <1>7 DEF button_release_handler
<1>8. CASE button_release_work_handler
  <2>1. state' \in STATES
    BY <1>8, ToggleTypes DEF button_release_work_handler
  <2>2. QED
    BY <1>8, <2>1 DEF button_release_work_handler
<1>9. CASE Reboot
  <2>1. boot_press' \in BOOLEAN
    BY <1>9 DEF Reboot
  <2>2. QED
    BY <1>9, <2>1 DEF Reboot, STATES
<1>10. QED
  BY <1>1, <1>2, <1>3, <1>4, <1>5, <1>6, <1>7, <1>8, <1>9 DEF Next

\* A boot counts the commands given before it.
LEMMA BeforeSteps ==
  ASSUME TypeOK, [Next]_vars
  PROVE  before' = before \/ (Reboot /\ before' = Len(issued) /\ issued' = issued)
BY DEF Next, vars, buttonVars, Sync, central_start, central_stop, central_pair,
   button_init_irq, button_init_level, button_press, button_release_handler,
   button_release_work_handler, Reboot, SyncReboot

LEMMA TypeStep == TypeOK /\ [Next]_vars => TypeOK'
<1> SUFFICES ASSUME TypeOK, [Next]_vars PROVE TypeOK'
  OBVIOUS
<1>1. SyncTypeOK' /\ Len(issued') \in {Len(issued), Len(issued) + 1}
  BY BroadcastTypes
<1>2. MainTypeOK'
  BY MainTypes
<1>3. before' \in 0 .. Len(issued')
  <2>1. before \in 0 .. Len(issued) /\ Len(issued) \in Nat
    BY DEF TypeOK, SyncTypeOK, Ordinal
  <2>2. QED
    BY <1>1, <2>1, BeforeSteps
<1>4. QED
  BY <1>1, <1>2, <1>3 DEF TypeOK, MainTypeOK, Ordinal

\* Every variable of the central keeps its type, whatever fails
\* (sync.c, main.c).
THEOREM CentralTypeCorrect == Spec => []TypeOK
BY TypeInit, TypeStep, PTL DEF Spec

-----------------------------------------------------------------------------
(***************************************************************************)
(* The state and the commands.                                             *)
(***************************************************************************)

\* No recording while pairing comes from the state having followed the
\* commands when the pairing began.
StateInv == StateFollowsCommands /\ PairingIsExclusive

\* What the last command since the boot was.
LEMMA LastCommand ==
  ASSUME TypeOK
  PROVE  Given => (IsStop(Len(issued)) <=> ~IsStart(Len(issued)))
<1>1. /\ issued \in Seq(Command) /\ Len(issued) \in Nat /\ before \in Nat
  BY DEF TypeOK, SyncTypeOK, Ordinal
<1>2. CASE Given
  <2>1. Len(issued) \in 1 .. Len(issued)
    BY <1>1, <1>2 DEF Given
  <2>2. issued[Len(issued)] \in Command
    BY <1>1, <2>1
  <2>3. QED
    BY <1>1, <2>1, <2>2 DEF IsStop, IsStart, Command
<1>3. QED
  BY <1>2

\* A START leads into the RECORDING state, unless it is refused.
LEMMA StartKeepsState ==
  ASSUME TypeOK, StateInv, state # "PAIRING", CmdStart, StateAfter("RECORDING"),
         before' = before
  PROVE  StateInv'
<1>1. CASE sync_cmd_start
  <2>1. /\ Put([id |-> "START", time |-> StartTime, at |-> pkt])
        /\ [id |-> "START", time |-> StartTime, at |-> pkt] \in Command
    BY <1>1, CommandTypes DEF TypeOK, sync_cmd_start
  <2>2. /\ Len(issued') = Len(issued) + 1 /\ issued'[Len(issued) + 1].id = "START"
        /\ Len(cmd_queue) < QueueSize
    BY <2>1, PutEffect DEF TypeOK
  <2>3. state' = "RECORDING"
    BY <2>2 DEF StateAfter
  <2>4. Given' /\ IsStart(Len(issued))'
    BY <2>2 DEF Given, IsStart, TypeOK, SyncTypeOK, Ordinal
  <2>5. QED
    BY <2>3, <2>4 DEF StateInv, StateFollowsCommands, PairingIsExclusive
<1>2. CASE QueueFull /\ UNCHANGED syncVars
  <2>1. state' = state /\ issued' = issued
    BY <1>2, SyncAssumption DEF StateAfter, QueueFull, syncVars
  <2>2. QED
    BY <2>1 DEF StateInv, StateFollowsCommands, PairingIsExclusive, Given, IsStart
<1>3. QED
  BY <1>1, <1>2 DEF CmdStart

\* A STOP leads out of it.
LEMMA StopKeepsState ==
  ASSUME TypeOK, StateInv, state # "PAIRING", CmdStop, StateAfter("IDLE"),
         before' = before
  PROVE  StateInv'
<1>1. CASE sync_cmd_stop
  <2>1. /\ Put([id |-> "STOP", time |-> 0, at |-> pkt])
        /\ [id |-> "STOP", time |-> 0, at |-> pkt] \in Command
    BY <1>1, CommandTypes DEF TypeOK, sync_cmd_stop
  <2>2. /\ Len(issued') = Len(issued) + 1 /\ issued'[Len(issued) + 1].id = "STOP"
        /\ Len(cmd_queue) < QueueSize
    BY <2>1, PutEffect DEF TypeOK
  <2>3. state' = "IDLE"
    BY <2>2 DEF StateAfter
  <2>4. ~IsStart(Len(issued))'
    BY <2>2 DEF IsStart
  <2>5. QED
    BY <2>3, <2>4 DEF StateInv, StateFollowsCommands, PairingIsExclusive
<1>2. CASE QueueFull /\ UNCHANGED syncVars
  <2>1. state' = state /\ issued' = issued
    BY <1>2, SyncAssumption DEF StateAfter, QueueFull, syncVars
  <2>2. QED
    BY <2>1 DEF StateInv, StateFollowsCommands, PairingIsExclusive, Given, IsStart
<1>3. QED
  BY <1>1, <1>2 DEF CmdStop

\* Nothing else of the application changes what was issued.
LEMMA QuietKeepsState ==
  ASSUME StateInv, UNCHANGED <<issued, before, state, advertising, filtered>>
  PROVE  StateInv'
BY DEF StateInv, StateFollowsCommands, PairingIsExclusive, Given, IsStart, IsStop

\* A toggle is a START, a STOP or nothing.
LEMMA ToggleKeepsState ==
  ASSUME TypeOK, StateInv, Toggle,
         UNCHANGED <<before, advertising, filtered>>
  PROVE  StateInv'
<1>1. CASE state = "PAIRING" /\ UNCHANGED <<syncVars, state>>
  BY <1>1, QuietKeepsState DEF syncVars
<1>2. CASE state = "IDLE" /\ CmdStart /\ StateAfter("RECORDING")
  BY <1>2, StartKeepsState
<1>3. CASE state = "RECORDING" /\ CmdStop /\ StateAfter("IDLE")
  BY <1>3, StopKeepsState
<1>4. QED
  BY <1>1, <1>2, <1>3 DEF Toggle

\* Pairing begins while the last command, if any, was a STOP.
LEMMA PairKeepsState ==
  ASSUME TypeOK, StateInv, central_pair
  PROVE  StateInv'
<1>1. UNCHANGED <<issued, before>>
  BY DEF central_pair, syncVars, buttonVars
<1>2. CASE UNCHANGED mainVars
  BY <1>1, <1>2, QuietKeepsState DEF mainVars
<1>3. CASE state = "IDLE" /\ state' = "PAIRING" /\ advertising' = TRUE /\ filtered' = FALSE
  <2>1. Given => IsStop(Len(issued))
    BY <1>3, LastCommand DEF StateInv, StateFollowsCommands
  <2>2. QED
    BY <1>1, <1>3, <2>1
    DEF StateInv, StateFollowsCommands, PairingIsExclusive, Given, IsStart, IsStop
<1>4. CASE state = "IDLE" /\ UNCHANGED state
  BY <1>1, <1>4
  DEF StateInv, StateFollowsCommands, PairingIsExclusive, Given, IsStart, IsStop
<1>5. QED
  BY <1>2, <1>3, <1>4 DEF central_pair, MayPair

\* A reset starts the count of the commands over.
LEMMA RebootKeepsState ==
  ASSUME TypeOK, Reboot
  PROVE  StateInv'
<1>1. state' = "IDLE" /\ before' = Len(issued) /\ issued' = issued
  BY DEF Reboot, SyncReboot
<1>2. ~(before' < Len(issued'))
  BY <1>1 DEF TypeOK, SyncTypeOK
<1>3. QED
  BY <1>1, <1>2 DEF StateInv, StateFollowsCommands, PairingIsExclusive, Given

LEMMA StateInvStep ==
  ASSUME TypeOK, StateInv, [Next]_vars
  PROVE  StateInv'
<1>1. CASE UNCHANGED vars
  BY <1>1, QuietKeepsState DEF vars, syncVars, mainVars, buttonVars
<1>2. CASE Sync
  BY <1>2, QuietKeepsState
  DEF Sync, mainVars, buttonVars, packet_sent, sync_adv_update
<1>3. CASE central_start
  <2>1. CASE state = "PAIRING"
    BY <1>3, <2>1, QuietKeepsState DEF central_start, syncVars, buttonVars
  <2>2. CASE state # "PAIRING"
    BY <1>3, <2>2, StartKeepsState DEF central_start, buttonVars
  <2>3. QED
    BY <2>1, <2>2
<1>4. CASE central_stop
  <2>1. CASE state = "PAIRING"
    BY <1>4, <2>1, QuietKeepsState DEF central_stop, syncVars, buttonVars
  <2>2. CASE state # "PAIRING"
    BY <1>4, <2>2, StopKeepsState DEF central_stop, buttonVars
  <2>3. QED
    BY <2>1, <2>2
<1>5. CASE central_pair
  BY <1>5, PairKeepsState
<1>6. CASE \/ button_init_irq \/ button_init_level \/ button_press
           \/ button_release_handler
  BY <1>6, QuietKeepsState
  DEF button_init_irq, button_init_level, button_press, button_release_handler,
      syncVars, mainVars
<1>7. CASE button_release_work_handler
  <2>1. CASE Toggle
    BY <1>7, <2>1, ToggleKeepsState DEF button_release_work_handler
  <2>2. CASE UNCHANGED <<syncVars, state>>
    BY <1>7, <2>2, QuietKeepsState DEF button_release_work_handler, syncVars
  <2>3. QED
    BY <1>7, <2>1, <2>2 DEF button_release_work_handler
<1>8. CASE Reboot
  BY <1>8, RebootKeepsState
<1>9. QED
  BY <1>1, <1>2, <1>3, <1>4, <1>5, <1>6, <1>7, <1>8 DEF Next

LEMMA StateInvInit == Init => StateInv
<1> SUFFICES ASSUME Init PROVE StateInv
  OBVIOUS
<1>1. state = "IDLE" /\ before = 0 /\ Len(issued) = 0
  BY DEF Init, SyncInit
<1>2. QED
  BY <1>1 DEF StateInv, StateFollowsCommands, PairingIsExclusive, Given

LEMMA StateInvAlways == Spec => []StateInv
<1>1. TypeOK /\ StateInv /\ [Next]_vars => StateInv'
  BY StateInvStep
<1>2. QED
  BY <1>1, StateInvInit, CentralTypeCorrect, PTL DEF Spec

\* The central is in the RECORDING state exactly if the last command it could
\* send since it booted was a START (the `if (ret < 0) return' before each
\* assignment of the state in main.c).
THEOREM StateIsLastCommand == Spec => []StateFollowsCommands
<1>1. StateInv => StateFollowsCommands
  BY DEF StateInv
<1>2. QED
  BY <1>1, StateInvAlways, PTL

\* While nodes are being paired the set is on and unfiltered, and none of the
\* nodes has been told to record (the -EBUSY exits of main.c).
THEOREM NoRecordingWhilePairing == Spec => []PairingIsExclusive
<1>1. StateInv => PairingIsExclusive
  BY DEF StateInv
<1>2. QED
  BY <1>1, StateInvAlways, PTL

-----------------------------------------------------------------------------
(***************************************************************************)
(* The button.                                                             *)
(***************************************************************************)

\* Until its release has been handled, the boot press has not been taken for
\* a released button: before button_init() has read the level the button is
\* still down, and no release is pending.
BootInv ==
  /\ boot_press => ~released /\ (booted # "ready" => button = "down")
  /\ booted = "no" => ~release_work

\* Every step keeps it, if the button is not let go inside button_init().
LEMMA BootInvStep ==
  ASSUME "early" \notin Faults, TypeOK, BootInv, [Next]_vars
  PROVE  BootInv'
<1> USE DEF BootInv
<1>1. CASE UNCHANGED buttonVars
  BY <1>1 DEF buttonVars
<1>2. CASE button_init_irq
  BY <1>2 DEF button_init_irq
<1>3. CASE button_init_level
  BY <1>3 DEF button_init_level
<1>4. CASE button_press
  BY <1>4 DEF button_press
<1>5. CASE button_release_handler
  BY <1>5 DEF button_release_handler, TypeOK
<1>6. CASE button_release_work_handler
  BY <1>6 DEF button_release_work_handler
<1>7. CASE Reboot
  BY <1>7 DEF Reboot
<1>8. QED
  BY <1>1, <1>2, <1>3, <1>4, <1>5, <1>6, <1>7
  DEF Next, vars, Sync, central_start, central_stop, central_pair

\* The release that ends the boot press issues no command, and no other step
\* handles a release.
LEMMA BootStep ==
  ASSUME BootInv, [Next]_vars,
         boot_press /\ release_work /\ ~release_work' /\ booted' = booted
  PROVE  UNCHANGED syncVars
<1>1. ~Reboot
  BY DEF Reboot, BootInv
<1>2. button_release_work_handler
  BY <1>1
  DEF Next, vars, Sync, central_start, central_stop, central_pair, buttonVars,
      button_init_irq, button_init_level, button_press, button_release_handler
<1>3. QED
  BY <1>2 DEF button_release_work_handler, WasReleased, BootInv, syncVars

\* The button held down to switch the central on does not start a recording
\* when it is let go, unless that happens between the two steps of
\* button_init() (main.c:265-267).
THEOREM BootPressStartsNothing ==
  "early" \notin Faults => (Spec => BootReleaseIgnored)
<1> SUFFICES ASSUME "early" \notin Faults PROVE Spec => BootReleaseIgnored
  OBVIOUS
<1>1. Init => BootInv
  BY DEF Init, BootInv
<1>2. TypeOK /\ BootInv /\ [Next]_vars => BootInv'
  BY BootInvStep
<1>3. BootInv /\ [Next]_vars =>
        [boot_press /\ release_work /\ ~release_work' /\ booted' = booted
           => UNCHANGED syncVars]_vars
  BY BootStep
<1>4. QED
  BY <1>1, <1>2, <1>3, CentralTypeCorrect, PTL DEF Spec, BootReleaseIgnored

-----------------------------------------------------------------------------
(***************************************************************************)
(* The queue, the command on the air and the light.                        *)
(***************************************************************************)

\* The commands that have left the queue.
Taken == Len(issued) - Len(cmd_queue)

\* The queue holds the last commands issued, in their order, and those only
\* that were issued since the boot; what is being advertised is the command
\* taken last, and the light shows it.
QueueIsTail ==
  /\ \A i \in 1 .. Len(cmd_queue) : cmd_queue[i] = Taken + i
  /\ before <= Taken
  /\ cmd # 0 => cmd = Taken /\ before < Taken

ShowsTaken ==
  light \in {"waiting", "started"} <=> before < Taken /\ IsStart(Taken)

QueueInv == QueueIsTail /\ ShowsTaken

\* What may have become of the types and of the boot, in one step.
LEMMA QueueTypes ==
  ASSUME TypeOK
  PROVE  /\ issued \in Seq(Command) /\ Len(issued) \in Nat
         /\ cmd_queue \in Seq(1 .. Len(issued)) /\ Len(cmd_queue) \in Nat
         /\ cmd \in 0 .. Len(issued) /\ before \in 0 .. Len(issued)
         /\ Taken \in Int
<1>1. /\ issued \in Seq(Command) /\ cmd_queue \in Seq(1 .. Len(issued))
      /\ cmd \in 0 .. Len(issued) /\ before \in 0 .. Len(issued)
  BY DEF TypeOK, SyncTypeOK, Ordinal
<1>2. Len(issued) \in Nat /\ Len(cmd_queue) \in Nat
  BY <1>1
<1>3. QED
  BY <1>1, <1>2 DEF Taken

\* A command put into the queue is behind the others.
LEMMA PutKeepsQueue ==
  ASSUME TypeOK, QueueInv, sync_cmd_start \/ sync_cmd_stop, before' = before
  PROVE  QueueInv'
<1>1. PICK c \in Command : Put(c)
  BY CommandTypes DEF sync_cmd_start, sync_cmd_stop, TypeOK
<1>2. cmd' = cmd /\ light' = light
  BY DEF sync_cmd_start, sync_cmd_stop
<1>3. /\ Len(issued') = Len(issued) + 1 /\ Len(cmd_queue') = Len(cmd_queue) + 1
      /\ cmd_queue'[Len(cmd_queue) + 1] = Len(issued) + 1
      /\ \A k \in 1 .. Len(issued) : issued'[k] = issued[k]
      /\ \A i \in 1 .. Len(cmd_queue) : cmd_queue'[i] = cmd_queue[i]
  BY <1>1, PutEffect DEF TypeOK
<1>4. Taken' = Taken
  BY <1>3, QueueTypes DEF Taken
<1>5. \A i \in 1 .. Len(cmd_queue') : cmd_queue'[i] = Taken + i
  <2> SUFFICES ASSUME NEW i \in 1 .. Len(cmd_queue') PROVE cmd_queue'[i] = Taken + i
    OBVIOUS
  <2>1. CASE i \in 1 .. Len(cmd_queue)
    BY <2>1, <1>3 DEF QueueInv, QueueIsTail
  <2>2. CASE i = Len(cmd_queue) + 1
    BY <2>2, <1>3, QueueTypes DEF Taken
  <2>3. QED
    BY <2>1, <2>2, <1>3, QueueTypes
<1>6. QueueIsTail'
  BY <1>2, <1>4, <1>5 DEF QueueInv, QueueIsTail
<1>7. before < Taken => (IsStart(Taken)' <=> IsStart(Taken))
  <2>1. before < Taken => Taken \in 1 .. Len(issued)
    BY QueueTypes DEF Taken
  <2>2. QED
    BY <2>1, <1>3, <1>4 DEF IsStart
<1>8. ShowsTaken'
  BY <1>2, <1>4, <1>7 DEF QueueInv, ShowsTaken
<1>9. QED
  BY <1>6, <1>8 DEF QueueInv

\* The update takes the command whose turn it is, and shows it.
LEMMA UpdateKeepsQueue ==
  ASSUME TypeOK, QueueInv, sync_adv_update, before' = before
  PROVE  QueueInv'
<1>1. issued' = issued /\ light' = Shown
  BY DEF sync_adv_update
<1>2. CASE Takes
  <2>1. cmd_queue # <<>> /\ cmd_queue' = Tail(cmd_queue) /\ Current = cmd_queue[1]
    BY <1>2, QueueTypes DEF sync_adv_update, Takes, Current
  <2>2. /\ Len(cmd_queue) >= 1 /\ Len(cmd_queue') = Len(cmd_queue) - 1
        /\ \A i \in 1 .. Len(cmd_queue') : cmd_queue'[i] = cmd_queue[i + 1]
    BY <2>1, QueueTypes
  <2>3. Taken' = Taken + 1 /\ Current = Taken + 1
    <3>1. cmd_queue[1] = Taken + 1
      BY <2>2, QueueTypes DEF QueueInv, QueueIsTail
    <3>2. Taken' = Taken + 1
      BY <1>1, <2>2, QueueTypes DEF Taken
    <3>3. QED
      BY <2>1, <3>1, <3>2
  <2>4. \A i \in 1 .. Len(cmd_queue') : cmd_queue'[i] = Taken + 1 + i
    <3> SUFFICES ASSUME NEW i \in 1 .. Len(cmd_queue')
                 PROVE  cmd_queue'[i] = Taken + 1 + i
      OBVIOUS
    <3>1. i + 1 \in 1 .. Len(cmd_queue)
      BY <2>2, QueueTypes
    <3>2. QED
      BY <2>2, <3>1, QueueTypes DEF QueueInv, QueueIsTail
  <2>5. cmd' # 0 => cmd' = Taken + 1
    BY <2>3 DEF sync_adv_update
  <2>6. before < Taken + 1 /\ before <= Taken + 1
    BY QueueTypes DEF QueueInv, QueueIsTail
  <2>7. QueueIsTail'
    BY <2>3, <2>4, <2>5, <2>6 DEF QueueIsTail
  <2>8. IsStart(Current) <=> ~IsStop(Current)
    <3>1. Current \in 1 .. Len(issued)
      BY <2>1, <2>2, QueueTypes
    <3>2. issued[Current] \in Command
      BY <3>1, QueueTypes
    <3>3. QED
      BY <3>1, <3>2 DEF IsStart, IsStop, Command
  <2>9. light' \in {"waiting", "started"} <=> IsStart(Taken + 1)
    BY <1>1, <2>3, <2>8 DEF Shown
  <2>10. IsStart(Taken)' <=> IsStart(Taken + 1)
    BY <1>1, <2>3 DEF IsStart
  <2>11. ShowsTaken'
    BY <2>3, <2>6, <2>9, <2>10 DEF ShowsTaken
  <2>12. QED
    BY <2>7, <2>11 DEF QueueInv
<1>3. CASE ~Takes
  <2>1. cmd_queue' = cmd_queue /\ Current = cmd /\ cmd' \in {0, cmd} /\ Taken' = Taken
    BY <1>1, <1>3 DEF sync_adv_update, Current, Taken
  <2>2. QueueIsTail'
    BY <2>1 DEF QueueInv, QueueIsTail
  <2>3. IsStart(Taken)' <=> IsStart(Taken)
    BY <1>1, <2>1 DEF IsStart
  <2>4. light' \in {"waiting", "started"} <=> before < Taken /\ IsStart(Taken)
    <3>1. CASE cmd # 0
      <4>1. cmd = Taken /\ before < Taken
        BY <3>1 DEF QueueInv, QueueIsTail
      <4>2. IsStart(cmd) => light' \in {"waiting", "started"}
        BY <1>1, <2>1 DEF Shown
      <4>3. IsStop(cmd) => light' = "stopped" /\ ~IsStart(cmd)
        BY <1>1, <2>1 DEF Shown, IsStart, IsStop
      <4>4. IsStart(cmd) \/ IsStop(cmd)
        <5>1. cmd \in 1 .. Len(issued)
          BY <3>1, QueueTypes
        <5>2. issued[cmd] \in Command
          BY <5>1, QueueTypes
        <5>3. QED
          BY <3>1, <5>2 DEF IsStart, IsStop, Command
      <4>5. QED
        BY <4>1, <4>2, <4>3, <4>4
    <3>2. CASE cmd = 0
      BY <1>1, <2>1, <3>2 DEF Shown, IsStart, IsStop, QueueInv, ShowsTaken
    <3>3. QED
      BY <3>1, <3>2
  <2>5. QED
    BY <2>1, <2>2, <2>3, <2>4 DEF QueueInv, ShowsTaken
<1>4. QED
  BY <1>2, <1>3

\* A reset empties the queue and turns the light off.
LEMMA RebootKeepsQueue ==
  ASSUME TypeOK, Reboot
  PROVE  QueueInv'
<1>1. /\ cmd_queue' = <<>> /\ cmd' = 0 /\ light' = "none" /\ issued' = issued
      /\ before' = Len(issued)
  BY DEF Reboot, SyncReboot
<1>2. Taken' = Len(issued) /\ Len(cmd_queue') = 0
  BY <1>1, QueueTypes DEF Taken
<1>3. QED
  BY <1>1, <1>2, QueueTypes DEF QueueInv, QueueIsTail, ShowsTaken

\* No other step touches the queue.
LEMMA QuietKeepsQueue ==
  ASSUME QueueInv, UNCHANGED <<issued, cmd_queue, cmd, light, before>>
  PROVE  QueueInv'
BY DEF QueueInv, QueueIsTail, ShowsTaken, Taken, IsStart

\* The steps of the broadcast: what each does to the queue, and by whom.
LEMMA Steps ==
  ASSUME [Next]_vars
  PROVE  \/ UNCHANGED <<syncVars, before>>
         \/ (sync_cmd_start \/ sync_cmd_stop) /\ before' = before
         \/ packet_sent /\ before' = before
         \/ sync_adv_update /\ before' = before
         \/ Reboot
BY DEF Next, vars, Sync, central_start, central_stop, central_pair, buttonVars,
   button_init_irq, button_init_level, button_press, button_release_handler,
   button_release_work_handler, Toggle, CmdStart, CmdStop

LEMMA QueueInvStep ==
  ASSUME TypeOK, QueueInv, [Next]_vars
  PROVE  QueueInv'
<1>1. CASE UNCHANGED <<syncVars, before>>
  BY <1>1, QuietKeepsQueue DEF syncVars
<1>2. CASE packet_sent /\ before' = before
  BY <1>2, QuietKeepsQueue DEF packet_sent
<1>3. QED
  BY <1>1, <1>2, Steps, PutKeepsQueue, UpdateKeepsQueue, RebootKeepsQueue

LEMMA QueueInvInit == Init => QueueInv
<1> SUFFICES ASSUME Init PROVE QueueInv
  OBVIOUS
<1>1. /\ cmd_queue = <<>> /\ cmd = 0 /\ light = "none" /\ issued = <<>> /\ before = 0
  BY DEF Init, SyncInit, SyncBoot
<1>2. Taken = 0 /\ Len(cmd_queue) = 0
  BY <1>1 DEF Taken
<1>3. QED
  BY <1>1, <1>2 DEF QueueInv, QueueIsTail, ShowsTaken

\* The queue is the end of the history, whatever fails.
LEMMA QueueInvAlways == Spec => []QueueInv
<1>1. TypeOK /\ QueueInv /\ [Next]_vars => QueueInv'
  BY QueueInvStep
<1>2. QED
  BY <1>1, QueueInvInit, CentralTypeCorrect, PTL DEF Spec

\* Once the queue has drained the LED shows the state the central is in, even
\* after a START has expired or was refused (led_record_* in sync.c:60-111
\* against the state of main.c).
THEOREM LightIsTheState == Spec => []LightFollowsState
<1>1. TypeOK /\ QueueInv /\ StateInv => LightFollowsState
  <2> SUFFICES ASSUME TypeOK, QueueInv, StateInv, cmd_queue = <<>>
               PROVE  light \in {"waiting", "started"} <=> state = "RECORDING"
    BY DEF LightFollowsState
  <2>1. Taken = Len(issued)
    BY QueueTypes DEF Taken
  <2>2. QED
    BY <2>1 DEF QueueInv, ShowsTaken, StateInv, StateFollowsCommands, Given
<1>2. QED
  BY <1>1, CentralTypeCorrect, QueueInvAlways, StateInvAlways, PTL

-----------------------------------------------------------------------------
(***************************************************************************)
(* Time.  The packets sent since a command was given are its age.  A START *)
(* asks for the time StartDelay after the last packet when it was given.   *)
(***************************************************************************)

\* The work queue keeps up with the packets, and no packet's message is lost.
Timely == {"late", "ipc"} \cap Faults = {}

Due == IF update_work THEN 1 ELSE 0

\* A command in the queue has seen no more packets than there are slots
\* behind it, and one more if the update for the last packet is still due.
LatencyInv ==
  \A i \in 1 .. Len(cmd_queue) :
    pkt - issued[cmd_queue[i]].at <= QueueSize + Due - i

LEMMA DueType == TypeOK => Due \in {0, 1} /\ (update_work => Due = 1) /\ (~update_work => Due = 0)
BY DEF TypeOK, SyncTypeOK, Due

\* The ages are numbers.
LEMMA AtTypes ==
  ASSUME TypeOK
  PROVE  /\ pkt \in Nat
         /\ \A k \in 1 .. Len(issued) : issued[k].at \in Nat /\ issued[k].time \in Time
         /\ \A i \in 1 .. Len(cmd_queue) : cmd_queue[i] \in 1 .. Len(issued)
<1>1. pkt \in Nat
  BY DEF TypeOK, SyncTypeOK
<1>2. ASSUME NEW k \in 1 .. Len(issued)
      PROVE  issued[k].at \in Nat /\ issued[k].time \in Time
  <2>1. issued[k] \in Command
    BY QueueTypes
  <2>2. QED
    BY <2>1 DEF Command
<1>3. \A i \in 1 .. Len(cmd_queue) : cmd_queue[i] \in 1 .. Len(issued)
  BY QueueTypes
<1>4. QED
  BY <1>1, <1>2, <1>3

LEMMA PutKeepsLatency ==
  ASSUME TypeOK, LatencyInv, sync_cmd_start \/ sync_cmd_stop
  PROVE  LatencyInv'
<1>1. PICK c \in Command : Put(c) /\ c.at = pkt
  BY CommandTypes DEF sync_cmd_start, sync_cmd_stop, TypeOK
<1>2. pkt' = pkt /\ Due' = Due
  BY DEF sync_cmd_start, sync_cmd_stop, Due
<1>3. SUFFICES ASSUME NEW i \in 1 .. Len(cmd_queue')
               PROVE  pkt - issued'[cmd_queue'[i]].at <= QueueSize + Due - i
  BY <1>2 DEF LatencyInv
<1>4. /\ Len(issued') = Len(issued) + 1 /\ Len(cmd_queue') = Len(cmd_queue) + 1
      /\ issued'[Len(issued) + 1] = c /\ Len(cmd_queue) < QueueSize
      /\ cmd_queue'[Len(cmd_queue) + 1] = Len(issued) + 1
      /\ \A k \in 1 .. Len(issued) : issued'[k] = issued[k]
      /\ \A j \in 1 .. Len(cmd_queue) : cmd_queue'[j] = cmd_queue[j]
  BY <1>1, PutEffect DEF TypeOK
<1>5. CASE i \in 1 .. Len(cmd_queue)
  <2>1. issued'[cmd_queue'[i]] = issued[cmd_queue[i]]
    BY <1>4, <1>5, AtTypes
  <2>2. QED
    BY <1>5, <2>1 DEF LatencyInv
<1>6. CASE i = Len(cmd_queue) + 1
  <2>1. issued'[cmd_queue'[i]].at = pkt
    BY <1>1, <1>4, <1>6
  <2>2. i <= QueueSize /\ Due >= 0 /\ Due \in Int /\ i \in Int
    BY <1>4, <1>6, QueueTypes, DueType, SyncAssumption
  <2>3. QED
    BY <2>1, <2>2, AtTypes, SyncAssumption
<1>7. QED
  BY <1>4, <1>5, <1>6, QueueTypes

\* A packet waits for the update that the packet before it asked for.
LEMMA PacketKeepsLatency ==
  ASSUME Timely, TypeOK, LatencyInv, packet_sent
  PROVE  LatencyInv'
<1>1. Due = 0 /\ Due' = 1 /\ UNCHANGED <<cmd_queue, issued>>
  BY DEF Timely, packet_sent, Due
<1>2. pkt' \in Nat /\ pkt' <= pkt + 1
  BY DEF packet_sent, TypeOK, SyncTypeOK
<1>3. SUFFICES ASSUME NEW i \in 1 .. Len(cmd_queue)
               PROVE  pkt' - issued[cmd_queue[i]].at <= QueueSize + 1 - i
  BY <1>1 DEF LatencyInv
<1>4. pkt - issued[cmd_queue[i]].at <= QueueSize - i
  BY <1>1, SyncAssumption DEF LatencyInv
<1>5. QED
  BY <1>2, <1>4, AtTypes, SyncAssumption

\* An update moves the queue up by one.
LEMMA UpdateKeepsLatency ==
  ASSUME TypeOK, LatencyInv, sync_adv_update
  PROVE  LatencyInv'
<1>1. Due = 1 /\ Due' = 0 /\ UNCHANGED <<pkt, issued>>
  BY DEF sync_adv_update, Due
<1>2. SUFFICES ASSUME NEW i \in 1 .. Len(cmd_queue')
               PROVE  pkt - issued[cmd_queue'[i]].at <= QueueSize - i
  BY <1>1, SyncAssumption DEF LatencyInv
<1>3. CASE Takes
  <2>1. cmd_queue # <<>> /\ cmd_queue' = Tail(cmd_queue)
    BY <1>3 DEF sync_adv_update, Takes
  <2>2. cmd_queue'[i] = cmd_queue[i + 1] /\ i + 1 \in 1 .. Len(cmd_queue)
    BY <2>1, QueueTypes
  <2>3. pkt - issued[cmd_queue[i + 1]].at <= QueueSize + 1 - (i + 1)
    BY <1>1, <2>2 DEF LatencyInv
  <2>4. QED
    BY <2>2, <2>3, SyncAssumption
<1>4. CASE ~Takes
  <2>1. cmd_queue = <<>> /\ cmd_queue' = cmd_queue
    BY <1>4 DEF sync_adv_update, Takes
  <2>2. QED
    BY <2>1
<1>5. QED
  BY <1>3, <1>4

LEMMA LatencyInvStep ==
  ASSUME Timely, TypeOK, LatencyInv, [Next]_vars
  PROVE  LatencyInv'
<1>1. CASE UNCHANGED <<syncVars, before>>
  BY <1>1 DEF syncVars, LatencyInv, Due
<1>2. CASE Reboot
  <2>1. cmd_queue' = <<>>
    BY <1>2 DEF Reboot, SyncReboot
  <2>2. QED
    BY <2>1 DEF LatencyInv
<1>3. QED
  BY <1>1, <1>2, Steps, PutKeepsLatency, PacketKeepsLatency, UpdateKeepsLatency

\* One command leaves the queue with every packet, whatever is on the air: as
\* long as the work queue keeps up none waits for more packets than the queue
\* has slots (sync.c:25, 60-75).
THEOREM CommandsWaitTheirTurn == Timely => (Spec => []QueueLatency)
<1> SUFFICES ASSUME Timely PROVE Spec => []QueueLatency
  OBVIOUS
<1>1. Init => LatencyInv
  BY DEF Init, SyncInit, SyncBoot, LatencyInv
<1>2. TypeOK /\ LatencyInv /\ [Next]_vars => LatencyInv'
  BY LatencyInvStep
<1>3. TypeOK /\ LatencyInv => QueueLatency
  <2> SUFFICES ASSUME TypeOK, LatencyInv, NEW i \in 1 .. Len(cmd_queue)
               PROVE  pkt - issued[cmd_queue[i]].at <= QueueSize + 1 - i
    BY DEF QueueLatency
  <2>1. pkt - issued[cmd_queue[i]].at <= QueueSize + Due - i
    BY DEF LatencyInv
  <2>2. pkt - issued[cmd_queue[i]].at \in Int
    BY AtTypes
  <2>3. QED
    BY <2>1, <2>2, DueType, SyncAssumption
<1>4. QED
  BY <1>1, <1>2, <1>3, CentralTypeCorrect, PTL DEF Spec

-----------------------------------------------------------------------------
(***************************************************************************)
(* The times of a START.                                                   *)
(***************************************************************************)

\* The delay is longer than the queue, and the timer tells twice the delay
\* from the times to come.
DelayFits == QueueSize < StartDelay /\ 2 * (StartDelay + 1) <= TimeMod

\* The times of the timer are those of the packets, modulo its range.
Wrapped(t, u) == t = u \/ t = u + TimeMod \/ t = u - TimeMod

\* Command k, if it is a START, was given at most `limit' packets ago.
AgeAtMost(k, limit) ==
  IsStart(k) =>
    \E age \in 0 .. limit :
      /\ pkt - issued[k].at <= age
      /\ Wrapped(issued[k].time, timer - age + StartDelay)

\* A START is advertised for twice the delay, and one packet more while the
\* update that will clear it is due.
AgeInv ==
  /\ last_pkt_time = timer
  /\ \A i \in 1 .. Len(cmd_queue) : AgeAtMost(cmd_queue[i], QueueSize + Due - i)
  /\ AgeAtMost(cmd, 2 * StartDelay + Due)
  /\ air.cmd = cmd

\* A sum of times wraps at most once.
LEMMA ModNear ==
  ASSUME NEW z \in Int, -TimeMod <= z, z < 2 * TimeMod
  PROVE  z % TimeMod = IF z < 0 THEN z + TimeMod
                       ELSE IF z < TimeMod THEN z ELSE z - TimeMod
BY SyncAssumption

\* The timer wraps after its last value.
LEMMA NextTime ==
  ASSUME NEW t \in 0 .. TimeMod - 1
  PROVE  /\ t = TimeMod - 1 => (t + 1) % TimeMod = t + 1 - TimeMod
         /\ t # TimeMod - 1 => (t + 1) % TimeMod = t + 1
<1>1. TimeMod \in Nat \ {0} /\ t \in Int /\ 0 <= t /\ t <= TimeMod - 1
  BY SyncAssumption
<1>2. CASE t = TimeMod - 1
  BY <1>1, <1>2
<1>3. CASE t # TimeMod - 1
  <2>1. t + 1 \in 0 .. TimeMod - 1
    BY <1>1, <1>3
  <2>2. QED
    BY <1>1, <1>3, <2>1
<1>4. QED
  BY <1>2, <1>3

\* sync_time_diff() is the distance of two times that are near each other.
LEMMA DiffIsDistance ==
  ASSUME NEW a \in Time, NEW b \in Time, NEW w \in Int,
         -TimeMod <= 2 * w, 2 * w < TimeMod, Wrapped(a, b + w)
  PROVE  sync_time_diff(a, b) = w
<1>1. /\ TimeMod \in Nat \ {0} /\ a \in Int /\ b \in Int /\ a - b \in Int
      /\ -TimeMod < a - b /\ a - b < TimeMod
  BY SyncAssumption DEF Time
<1>2. (a - b) % TimeMod = IF a - b < 0 THEN a - b + TimeMod ELSE a - b
  BY <1>1, ModNear
<1>3. (a - b) % TimeMod = IF w < 0 THEN w + TimeMod ELSE w
  BY <1>1, <1>2 DEF Wrapped
<1>4. QED
  BY <1>1, <1>3 DEF sync_time_diff

\* A packet makes every command one older.
LEMMA PacketAges ==
  ASSUME Timely, TypeOK, packet_sent, NEW k, NEW limit \in Nat, limit < TimeMod,
         k \in 1 .. Len(issued) \/ ~IsStart(k), AgeAtMost(k, limit)
  PROVE  AgeAtMost(k, limit + 1)'
<1>1. issued' = issued /\ pkt' \in Nat /\ pkt' <= pkt + 1
  BY DEF packet_sent, TypeOK, SyncTypeOK
<1>2. SUFFICES ASSUME IsStart(k)
               PROVE  \E age \in 0 .. limit + 1 :
                        /\ pkt' - issued[k].at <= age
                        /\ Wrapped(issued[k].time, timer' - age + StartDelay)
  BY <1>1 DEF AgeAtMost, IsStart, Wrapped
<1>3. PICK age \in 0 .. limit :
        /\ pkt - issued[k].at <= age
        /\ Wrapped(issued[k].time, timer - age + StartDelay)
  BY <1>2 DEF AgeAtMost
<1>4. pkt \in Nat /\ issued[k].at \in Nat /\ issued[k].time \in 0 .. TimeMod - 1
  BY <1>2, AtTypes DEF Time
<1>5. timer \in 0 .. TimeMod - 1 /\ TimeMod \in Nat \ {0} /\ StartDelay \in Nat
  BY SyncAssumption DEF TypeOK, SyncTypeOK, Time
<1>6. timer' = timer + 1 \/ (timer' = timer + 1 - TimeMod /\ timer = TimeMod - 1)
  BY <1>5, NextTime DEF packet_sent
<1>7. pkt' - issued[k].at <= age + 1 /\ age + 1 \in 0 .. limit + 1
  BY <1>1, <1>3, <1>4
<1>8. Wrapped(issued[k].time, timer' - (age + 1) + StartDelay)
  <2>1. CASE timer' = timer + 1
    BY <1>3, <1>4, <1>5, <2>1 DEF Wrapped
  <2>2. CASE timer' = timer + 1 - TimeMod /\ timer = TimeMod - 1
    BY <1>3, <1>4, <1>5, <2>2 DEF Wrapped
  <2>3. QED
    BY <1>6, <2>1, <2>2
<1>9. QED
  BY <1>7, <1>8

\* A START that is not too old says in how many packets it begins.
LEMMA WaitingIsAge ==
  ASSUME DelayFits, TypeOK, NEW k \in 1 .. Len(issued), IsStart(k),
         NEW limit \in Nat, limit <= 2 * StartDelay + 1, AgeAtMost(k, limit)
  PROVE  \E age \in 0 .. limit :
           /\ pkt - issued[k].at <= age
           /\ Wrapped(issued[k].time, timer - age + StartDelay)
           /\ sync_time_diff(issued[k].time, timer) = StartDelay - age
<1>1. PICK age \in 0 .. limit :
        /\ pkt - issued[k].at <= age
        /\ Wrapped(issued[k].time, timer - age + StartDelay)
  BY DEF AgeAtMost
<1>2. issued[k].time \in Time /\ timer \in Time /\ timer \in Int
  BY AtTypes DEF TypeOK, SyncTypeOK, Time
<1>3. /\ StartDelay - age \in Int /\ -TimeMod <= 2 * (StartDelay - age)
      /\ 2 * (StartDelay - age) < TimeMod
      /\ timer - age + StartDelay = timer + (StartDelay - age)
  BY <1>2, SyncAssumption DEF DelayFits
<1>4. sync_time_diff(issued[k].time, timer) = StartDelay - age
  BY <1>1, <1>2, <1>3, DiffIsDistance
<1>5. QED
  BY <1>1, <1>4

\* The ages are bounded by what the timer can tell apart.
LEMMA Limits ==
  ASSUME DelayFits, TypeOK
  PROVE  /\ \A i \in 1 .. Len(cmd_queue) :
              /\ i <= QueueSize
              /\ QueueSize + Due - i \in Nat /\ QueueSize + Due - i < 2 * StartDelay + 1
         /\ 2 * StartDelay + Due \in Nat /\ 2 * StartDelay + 1 < TimeMod
<1>1. QueueSize \in Nat /\ StartDelay \in Nat /\ TimeMod \in Nat
  BY SyncAssumption
<1>2. Due \in {0, 1} /\ Len(cmd_queue) <= QueueSize /\ Len(cmd_queue) \in Nat
  BY DueType, QueueTypes DEF TypeOK, SyncTypeOK
<1>3. QED
  BY <1>1, <1>2 DEF DelayFits

\* An age within a limit is within a greater one.
LEMMA AgeWeakens ==
  ASSUME NEW k, NEW m \in Int, NEW n \in Int, m <= n, AgeAtMost(k, m)
  PROVE  AgeAtMost(k, n)
BY DEF AgeAtMost

\* A new START is of age 0, and the others stay what they are.
LEMMA PutKeepsAges ==
  ASSUME DelayFits, TypeOK, AgeInv, sync_cmd_start \/ sync_cmd_stop
  PROVE  AgeInv'
<1>1. PICK c \in Command :
        Put(c) /\ c.at = pkt /\ (c.id = "START" => c.time = StartTime)
  BY CommandTypes DEF sync_cmd_start, sync_cmd_stop, TypeOK
<1>2. /\ UNCHANGED <<pkt, timer, last_pkt_time, cmd, air>> /\ Due' = Due
  BY DEF sync_cmd_start, sync_cmd_stop, Due
<1>3. /\ Len(issued') = Len(issued) + 1 /\ Len(cmd_queue') = Len(cmd_queue) + 1
      /\ issued'[Len(issued) + 1] = c /\ Len(cmd_queue) < QueueSize
      /\ cmd_queue'[Len(cmd_queue) + 1] = Len(issued) + 1
      /\ \A k \in 1 .. Len(issued) : issued'[k] = issued[k]
      /\ \A j \in 1 .. Len(cmd_queue) : cmd_queue'[j] = cmd_queue[j]
  BY <1>1, PutEffect DEF TypeOK
<1>4. ASSUME NEW k \in 0 .. Len(issued), NEW limit, AgeAtMost(k, limit)
      PROVE  AgeAtMost(k, limit)'
  <2>1. CASE k = 0
    BY <2>1 DEF AgeAtMost, IsStart
  <2>2. CASE k # 0
    <3>1. issued'[k] = issued[k]
      BY <1>3, <2>2, QueueTypes
    <3>2. QED
      BY <1>2, <1>4, <3>1 DEF AgeAtMost, IsStart, Wrapped
  <2>3. QED
    BY <2>1, <2>2
<1>5. ASSUME NEW i \in 1 .. Len(cmd_queue'), NEW k, k = cmd_queue'[i],
             NEW limit, limit = QueueSize + Due - i
      PROVE  AgeAtMost(k, limit)'
  <2>1. CASE i \in 1 .. Len(cmd_queue)
    <3>1. k = cmd_queue[i]
      BY <1>3, <1>5, <2>1
    <3>2. k \in 0 .. Len(issued)
      BY <2>1, <3>1, AtTypes
    <3>3. AgeAtMost(k, limit)
      BY <1>5, <2>1, <3>1 DEF AgeInv
    <3>4. QED
      BY <1>4, <3>2, <3>3
  <2>2. CASE i = Len(cmd_queue) + 1
    <3>1. k = Len(issued) + 1 /\ issued'[k] = c
      BY <1>3, <1>5, <2>2
    <3>2. 0 \in 0 .. limit
      BY <1>3, <1>5, <2>2, DueType, QueueTypes, SyncAssumption
    <3>3. c.id = "START" => Wrapped(c.time, timer - 0 + StartDelay)
      <4>1. /\ timer \in 0 .. TimeMod - 1 /\ StartDelay \in Nat /\ TimeMod \in Nat
            /\ StartDelay < TimeMod
        BY SyncAssumption DEF TypeOK, SyncTypeOK, Time, DelayFits
      <4>2. /\ timer + StartDelay \in Int /\ -TimeMod <= timer + StartDelay
            /\ timer + StartDelay < 2 * TimeMod
        BY <4>1
      <4>3. (timer + StartDelay) % TimeMod
              \in {timer + StartDelay, timer + StartDelay - TimeMod}
        BY <4>1, <4>2, ModNear
      <4>4. StartTime = (timer + StartDelay) % TimeMod
        BY DEF StartTime, AgeInv
      <4>5. QED
        BY <1>1, <4>1, <4>3, <4>4 DEF Wrapped
    <3>4. pkt - c.at <= 0
      BY <1>1, AtTypes
    <3>5. QED
      BY <1>2, <3>1, <3>2, <3>3, <3>4 DEF AgeAtMost, IsStart, Wrapped
  <2>3. i \in 1 .. Len(cmd_queue) \/ i = Len(cmd_queue) + 1
    BY <1>3, QueueTypes
  <2>4. QED
    BY <2>1, <2>2, <2>3
<1>6. AgeAtMost(cmd, 2 * StartDelay + Due)'
  <2>1. AgeAtMost(cmd, 2 * StartDelay + Due)
    BY DEF AgeInv
  <2>2. ASSUME NEW k, k = cmd, NEW limit, limit = 2 * StartDelay + Due
        PROVE  AgeAtMost(k, limit)'
    BY <1>4, <2>1, <2>2, QueueTypes
  <2>3. QED
    BY <1>2, <2>2 DEF AgeAtMost
<1>7. ASSUME NEW i \in 1 .. Len(cmd_queue')
      PROVE  AgeAtMost(cmd_queue[i], QueueSize + Due - i)'
  BY <1>2, <1>5 DEF AgeAtMost
<1>8. QED
  BY <1>2, <1>6, <1>7 DEF AgeInv

LEMMA PacketKeepsAges ==
  ASSUME Timely, DelayFits, TypeOK, AgeInv, packet_sent
  PROVE  AgeInv'
<1>1. /\ Due = 0 /\ Due' = 1 /\ UNCHANGED <<cmd_queue, issued, cmd, air>>
      /\ last_pkt_time' = timer'
  BY DEF Timely, packet_sent, Due
<1>2. ASSUME NEW i \in 1 .. Len(cmd_queue)
      PROVE  AgeAtMost(cmd_queue[i], QueueSize + 1 - i)'
  <2>1. AgeAtMost(cmd_queue[i], QueueSize - i)
    BY <1>1, SyncAssumption DEF AgeInv
  <2>2. QueueSize - i \in Nat /\ QueueSize - i < TimeMod /\ QueueSize - i + 1 = QueueSize + 1 - i
    BY <1>1, Limits, SyncAssumption
  <2>3. cmd_queue[i] \in 1 .. Len(issued)
    BY AtTypes
  <2>4. AgeAtMost(cmd_queue[i], QueueSize - i + 1)'
    BY <1>1, <2>1, <2>2, <2>3, PacketAges
  <2>5. QED
    BY <2>2, <2>4
<1>3. AgeAtMost(cmd, 2 * StartDelay + 1)'
  <2>1. AgeAtMost(cmd, 2 * StartDelay)
    BY <1>1, SyncAssumption DEF AgeInv
  <2>2. 2 * StartDelay \in Nat /\ 2 * StartDelay < TimeMod
    BY Limits, SyncAssumption
  <2>3. cmd \in 1 .. Len(issued) \/ ~IsStart(cmd)
    BY QueueTypes DEF IsStart
  <2>4. QED
    BY <1>1, <2>1, <2>2, <2>3, PacketAges
<1>4. QED
  BY <1>1, <1>2, <1>3 DEF AgeInv

\* The update's command is young enough for its time to be told, and in the
\* queue younger than the delay.
LEMMA CurrentAge ==
  ASSUME DelayFits, TypeOK, AgeInv, update_work, IsStart(Current)
  PROVE  /\ Current \in 1 .. Len(issued)
         /\ \E age \in 0 .. 2 * StartDelay + 1 :
              /\ pkt - issued[Current].at <= age
              /\ Wrapped(issued[Current].time, timer - age + StartDelay)
              /\ WaitingTime(Current) = StartDelay - age
              /\ Takes => age <= QueueSize
<1>1. Due = 1 /\ last_pkt_time = timer
  BY DEF Due, AgeInv
<1>2. Current \in 1 .. Len(issued)
  BY CurrentType DEF TypeOK, Ordinal, IsStart
<1>3. CASE Takes
  <2>1. cmd_queue # <<>> /\ Current = cmd_queue[1] /\ 1 \in 1 .. Len(cmd_queue)
    BY <1>3, QueueTypes DEF Takes, Current
  <2>2. AgeAtMost(Current, QueueSize)
    BY <1>1, <2>1, SyncAssumption DEF AgeInv
  <2>3. QueueSize \in Nat /\ QueueSize <= 2 * StartDelay + 1
    BY SyncAssumption DEF DelayFits
  <2>4. \E age \in 0 .. QueueSize :
           /\ pkt - issued[Current].at <= age
           /\ Wrapped(issued[Current].time, timer - age + StartDelay)
           /\ sync_time_diff(issued[Current].time, timer) = StartDelay - age
    BY <1>2, <2>2, <2>3, WaitingIsAge
  <2>5. QED
    BY <1>1, <1>2, <2>3, <2>4, SyncAssumption DEF WaitingTime
<1>4. CASE ~Takes
  <2>1. AgeAtMost(Current, 2 * StartDelay + 1)
    BY <1>1, <1>4 DEF AgeInv, Current
  <2>2. 2 * StartDelay + 1 \in Nat
    BY SyncAssumption
  <2>3. \E age \in 0 .. 2 * StartDelay + 1 :
           /\ pkt - issued[Current].at <= age
           /\ Wrapped(issued[Current].time, timer - age + StartDelay)
           /\ sync_time_diff(issued[Current].time, timer) = StartDelay - age
    BY <1>2, <2>1, <2>2, WaitingIsAge
  <2>4. QED
    BY <1>1, <1>2, <1>4, <2>3 DEF WaitingTime
<1>5. QED
  BY <1>3, <1>4

\* The update clears a START older than twice the delay.
LEMMA UpdateKeepsAges ==
  ASSUME "set" \notin Faults, DelayFits, TypeOK, AgeInv, sync_adv_update
  PROVE  AgeInv'
<1>1. /\ Due = 1 /\ Due' = 0 /\ UNCHANGED <<issued, pkt, timer, last_pkt_time>>
      /\ air'.cmd = cmd' /\ update_work
  BY DEF sync_adv_update, Due
<1>2. ASSUME NEW i \in 1 .. Len(cmd_queue')
      PROVE  AgeAtMost(cmd_queue[i], QueueSize + Due - i)'
  <2>1. CASE Takes
    <3>1. cmd_queue # <<>> /\ cmd_queue' = Tail(cmd_queue)
      BY <2>1 DEF sync_adv_update, Takes
    <3>2. cmd_queue'[i] = cmd_queue[i + 1] /\ i + 1 \in 1 .. Len(cmd_queue)
      BY <3>1, QueueTypes
    <3>3. AgeAtMost(cmd_queue[i + 1], QueueSize + 1 - (i + 1))
      BY <1>1, <3>2 DEF AgeInv
    <3>4. QueueSize + 1 - (i + 1) = QueueSize + 0 - i
      BY SyncAssumption
    <3>5. QED
      BY <1>1, <3>2, <3>3, <3>4 DEF AgeAtMost, IsStart, Wrapped
  <2>2. CASE ~Takes
    <3>1. cmd_queue' = <<>>
      BY <2>2 DEF sync_adv_update, Takes
    <3>2. QED
      BY <3>1
  <2>3. QED
    BY <2>1, <2>2
<1>3. AgeAtMost(cmd, 2 * StartDelay + Due)'
  <2>1. CASE Expires \/ ~IsStart(Current)
    <3>1. ~IsStart(cmd)'
      BY <1>1, <2>1 DEF sync_adv_update, IsStart, Expires
    <3>2. QED
      BY <3>1 DEF AgeAtMost
  <2>2. CASE ~Expires /\ IsStart(Current)
    <3>1. cmd' = Current
      BY <2>2 DEF sync_adv_update
    <3>2. PICK age \in 0 .. 2 * StartDelay + 1 :
            /\ pkt - issued[Current].at <= age
            /\ Wrapped(issued[Current].time, timer - age + StartDelay)
            /\ WaitingTime(Current) = StartDelay - age
      BY <1>1, <2>2, CurrentAge
    <3>3. age \in 0 .. 2 * StartDelay + 0
      BY <2>2, <3>2, SyncAssumption DEF Expires
    <3>4. QED
      BY <1>1, <3>1, <3>2, <3>3 DEF AgeAtMost, Wrapped
  <2>3. QED
    BY <2>1, <2>2
<1>4. QED
  BY <1>1, <1>2, <1>3 DEF AgeInv

LEMMA AgeInvStep ==
  ASSUME Timely, "set" \notin Faults, DelayFits, TypeOK, AgeInv, [Next]_vars
  PROVE  AgeInv'
<1>1. CASE UNCHANGED <<syncVars, before>>
  BY <1>1 DEF syncVars, AgeInv, AgeAtMost, Wrapped, IsStart, Due
<1>2. CASE Reboot
  <2>1. /\ cmd_queue' = <<>> /\ cmd' = 0 /\ last_pkt_time' = 0 /\ timer' = 0
        /\ air'.cmd = 0
    BY <1>2 DEF Reboot, SyncReboot, NoData
  <2>2. QED
    BY <2>1 DEF AgeInv, AgeAtMost, IsStart
<1>3. QED
  BY <1>1, <1>2, Steps, PutKeepsAges, PacketKeepsAges, UpdateKeepsAges

LEMMA AgeInvAlways ==
  ASSUME Timely, "set" \notin Faults, DelayFits
  PROVE  Spec => []AgeInv
<1>1. Init => AgeInv
  BY DEF Init, SyncInit, SyncBoot, NoData, AgeInv, AgeAtMost, IsStart
<1>2. TypeOK /\ AgeInv /\ [Next]_vars => AgeInv'
  BY AgeInvStep
<1>3. QED
  BY <1>1, <1>2, CentralTypeCorrect, PTL DEF Spec

\* A START is cleared from the air within twice the delay: a node that comes
\* back later finds none, and begins no recording of its own (sync.c:77-86).
THEOREM OldStartIsCleared ==
  Timely /\ "set" \notin Faults /\ DelayFits => (Spec => []StartExpires)
<1> SUFFICES ASSUME Timely, "set" \notin Faults, DelayFits PROVE Spec => []StartExpires
  OBVIOUS
<1>1. TypeOK /\ AgeInv => StartExpires
  <2> SUFFICES ASSUME TypeOK, AgeInv, IsStart(air.cmd)
               PROVE  pkt <= issued[air.cmd].at + 2 * StartDelay + 2
    BY DEF StartExpires
  <2>1. air.cmd = cmd /\ cmd \in 1 .. Len(issued)
    BY QueueTypes DEF AgeInv, IsStart
  <2>2. PICK age \in 0 .. 2 * StartDelay + Due : pkt - issued[cmd].at <= age
    BY <2>1 DEF AgeInv, AgeAtMost
  <2>3. /\ pkt \in Nat /\ issued[cmd].at \in Nat /\ Due \in {0, 1} /\ StartDelay \in Nat
    BY <2>1, AtTypes, DueType, SyncAssumption
  <2>4. QED
    BY <2>1, <2>2, <2>3
<1>2. QED
  BY <1>1, CentralTypeCorrect, AgeInvAlways, PTL

\* A START that goes on the air has just left the queue, and its time is still
\* to come.
LEMMA AnnouncedStep ==
  ASSUME "set" \notin Faults, DelayFits, TypeOK, AgeInv, [Next]_vars,
         air'.cmd # air.cmd, IsStart(air.cmd)'
  PROVE  sync_time_diff(issued[air'.cmd].time, timer) > 0
<1>1. ~Reboot
  BY DEF Reboot, SyncReboot, NoData, IsStart
<1>2. sync_adv_update
  BY <1>1, Steps DEF syncVars, sync_cmd_start, sync_cmd_stop, packet_sent
<1>3. air'.cmd = cmd' /\ air.cmd = cmd /\ issued' = issued /\ update_work
  BY <1>2 DEF sync_adv_update, AgeInv
<1>4. cmd' = Current /\ Takes /\ IsStart(Current)
  BY <1>2, <1>3 DEF sync_adv_update, IsStart, Current
<1>5. PICK age \in 0 .. 2 * StartDelay + 1 :
        WaitingTime(Current) = StartDelay - age /\ age <= QueueSize
  BY <1>3, <1>4, CurrentAge
<1>6. WaitingTime(Current) > 0
  BY <1>5, SyncAssumption DEF DelayFits
<1>7. QED
  BY <1>3, <1>4, <1>6 DEF WaitingTime, AgeInv

\* Every START is on the air before the recording it announces begins, so that
\* all nodes can begin it together (sync.c:16-20).
THEOREM StartsAreAhead ==
  Timely /\ "set" \notin Faults /\ DelayFits => (Spec => StartAnnouncedAhead)
<1> SUFFICES ASSUME Timely, "set" \notin Faults, DelayFits PROVE Spec => StartAnnouncedAhead
  OBVIOUS
<1>1. TypeOK /\ AgeInv /\ [Next]_vars =>
        [air'.cmd # air.cmd /\ (IsStart(air.cmd))' =>
           sync_time_diff(issued[air'.cmd].time, timer) > 0]_syncVars
  BY AnnouncedStep
<1>2. QED
  BY <1>1, CentralTypeCorrect, AgeInvAlways, PTL DEF Spec, StartAnnouncedAhead

=============================================================================
