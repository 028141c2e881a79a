------------------------- MODULE DistributionProofs -------------------------
(***************************************************************************)
(* Proofs about Distribution: its types, that it implements Broadcast, for *)
(* any number of nodes and commands, any queue, any modulus of the         *)
(* sequence numbers and every combination of faults, and that no command   *)
(* that is heard is ignored while the numbers last.                        *)
(*                                                                         *)
(* Commands only move forward: queued ones are later than the advertised   *)
(* one, which is later than or equal to what is on the air, and no node    *)
(* has acted on a later one.  A node may have acted on the one on the air; *)
(* then it remembers its number.  That is why it is enough that nodes      *)
(* compare numbers for equality.                                           *)
(***************************************************************************)
EXTENDS Distribution, SequenceTheorems, TLAPS

Latest(n) == Promise!Newest(acted[n])

QueueOrdered ==
  \A i, j \in 1 .. Len(cmd_queue) : i < j => cmd_queue[i] < cmd_queue[j]

QueueAhead ==
  \A i \in 1 .. Len(cmd_queue) :
    /\ cmd < cmd_queue[i] /\ air.cmd < cmd_queue[i]
    /\ \A n \in Node : Latest(n) < cmd_queue[i]

AirBehind ==
  /\ air.cmd # 0 /\ cmd # 0 => air.cmd <= cmd
  /\ air.cmd = cmd /\ cmd # 0 => air.seq = cmd_seq

NodesBehind ==
  \A n \in Node :
    /\ cmd # 0 => Latest(n) <= cmd
    /\ air.cmd # 0 => Latest(n) <= air.cmd

NodesRemember ==
  \A n \in Node :
    /\ air.cmd # 0 /\ Latest(n) = air.cmd => last_cmd_seq[n] = air.seq
    /\ cmd # 0 /\ Latest(n) = cmd => air.cmd = cmd

OrderInv ==
  QueueOrdered /\ QueueAhead /\ AirBehind /\ NodesBehind /\ NodesRemember

-----------------------------------------------------------------------------
(***************************************************************************)
(* Type correctness.                                                       *)
(***************************************************************************)
LEMMA ModTypes ==
  /\ \A a \in Int : a % TimeMod \in Time
  /\ \A a \in Int : a % CmdSeqMod \in Seq16
  /\ 0 \in Time /\ 0 \in Seq16
  BY SyncAssumption DEF Time, Seq16

LEMMA InitType == Init => TypeOK
<1> SUFFICES ASSUME Init PROVE TypeOK
  OBVIOUS
<1>1. issued = <<>> /\ Len(issued) = 0
  BY DEF Init, SyncInit
<1>2. /\ <<>> \in Seq(Command) /\ <<>> \in Seq(1 .. Len(issued))
      /\ Len(<<>>) <= QueueSize
  BY SyncAssumption
<1>3. 0 \in Ordinal
  BY <1>1 DEF Ordinal
<1> QED
  BY <1>1, <1>2, <1>3, ModTypes
  DEF Init, SyncInit, SyncBoot, NoData, TypeOK, SyncTypeOK

\* A command put into the queue takes the next position of the history.
LEMMA PutType ==
  ASSUME TypeOK, NEW c \in Command, Put(c)
  PROVE  /\ issued' \in Seq(Command) /\ Len(issued') = Len(issued) + 1
         /\ cmd_queue' \in Seq(1 .. Len(issued')) /\ Len(cmd_queue') <= QueueSize
         /\ Ordinal \subseteq Ordinal'
         /\ \A s \in Seq(1 .. Len(issued)) : s \in Seq(1 .. Len(issued'))
<1> USE DEF TypeOK, SyncTypeOK
<1>1. issued' \in Seq(Command) /\ Len(issued') = Len(issued) + 1
  BY DEF Put
<1>2. Len(issued) \in Nat /\ 1 .. Len(issued) \subseteq 1 .. Len(issued')
  BY <1>1
<1>3. \A s \in Seq(1 .. Len(issued)) : s \in Seq(1 .. Len(issued'))
  BY <1>2, SeqMonotonic
<1>4. cmd_queue \in Seq(1 .. Len(issued')) /\ Len(issued) + 1 \in 1 .. Len(issued')
  BY <1>1, <1>2, <1>3
<1>5. cmd_queue' \in Seq(1 .. Len(issued')) /\ Len(cmd_queue') = Len(cmd_queue) + 1
  <2> DEFINE S == 1 .. Len(issued')
  <2> HIDE DEF S
  <2> QED
    BY <1>4 DEF Put, S
<1>6. Ordinal \subseteq Ordinal'
  BY <1>1, <1>2 DEF Ordinal
<1> QED
  BY <1>1, <1>3, <1>5, <1>6, SyncAssumption DEF Put

LEMMA IssueType == TypeOK /\ Issue => TypeOK'
<1> SUFFICES ASSUME TypeOK, Issue PROVE TypeOK'
  OBVIOUS
<1>1. PICK c \in Command : Put(c)
  <2>1. [id |-> "START", time |-> StartTime, at |-> pkt] \in Command
    <3>1. last_pkt_time + StartDelay \in Int
      BY SyncAssumption DEF TypeOK, SyncTypeOK, Time
    <3>2. StartTime \in Time
      BY <3>1, ModTypes DEF StartTime
    <3> QED
      BY <3>2 DEF Command, TypeOK, SyncTypeOK
  <2>2. [id |-> "STOP", time |-> 0, at |-> pkt] \in Command
    BY ModTypes DEF Command, TypeOK, SyncTypeOK
  <2> QED
    BY <2>1, <2>2 DEF Issue, sync_cmd_start, sync_cmd_stop
<1>2. UNCHANGED <<cmd, cmd_seq, last_pkt_time, update_work, air, light, timer,
                  pkt, nodeVars>>
  BY DEF Issue, sync_cmd_start, sync_cmd_stop
<1>3. SyncTypeOK'
  BY <1>1, <1>2, PutType DEF TypeOK, SyncTypeOK, Time, Seq16, Command
<1>4. acted' \in [Node -> Seq(1 .. Len(issued'))]
  BY <1>1, <1>2, PutType DEF TypeOK, nodeVars
<1> QED
  BY <1>1, <1>2, <1>3, <1>4, PutType DEF TypeOK, nodeVars, Seq16

\* What the handler does to the queue: it takes nothing, or the head.
LEMMA UpdateType == TypeOK /\ Update => TypeOK'
<1> SUFFICES ASSUME TypeOK, Update PROVE TypeOK'
  OBVIOUS
<1> USE DEF TypeOK, SyncTypeOK
<1>1. UNCHANGED <<issued, last_pkt_time, timer, pkt, nodeVars>>
  BY DEF Update, sync_adv_update
<1>2. Ordinal' = Ordinal /\ 0 \in Ordinal /\ 1 .. Len(issued) \subseteq Ordinal
  BY <1>1 DEF Ordinal
<1>3. Current \in Ordinal
  <2>1. CASE cmd_queue = <<>>
    BY <2>1 DEF Current, Takes
  <2>2. CASE cmd_queue # <<>>
    <3>1. Head(cmd_queue) \in 1 .. Len(issued)
      <4> DEFINE S == 1 .. Len(issued)
      <4>1. cmd_queue \in Seq(S)
        OBVIOUS
      <4> HIDE DEF S
      <4>2. Head(cmd_queue) \in S
        BY <2>2, <4>1, HeadTailProperties
      <4> QED
        BY <4>2 DEF S
    <3> QED
      BY <1>2, <2>2, <3>1 DEF Current, Takes
  <2> QED
    BY <2>1, <2>2
<1>4. cmd_queue' \in Seq(1 .. Len(issued')) /\ Len(cmd_queue') <= QueueSize
  <2> DEFINE S == 1 .. Len(issued)
  <2>1. cmd_queue \in Seq(S) /\ Len(cmd_queue) <= QueueSize
    OBVIOUS
  <2> HIDE DEF S
  <2>2. cmd_queue' \in Seq(S) /\ Len(cmd_queue') <= QueueSize
    <3>1. CASE cmd_queue = <<>>
      BY <2>1, <3>1 DEF Update, sync_adv_update, Takes
    <3>2. CASE cmd_queue # <<>>
      <4>1. Tail(cmd_queue) \in Seq(S)
            /\ Len(Tail(cmd_queue)) = Len(cmd_queue) - 1
        BY <2>1, <3>2, HeadTailProperties
      <4>2. Len(cmd_queue) \in Nat
        BY <2>1, LenProperties
      <4> QED
        BY <2>1, <3>2, <4>1, <4>2, SyncAssumption
        DEF Update, sync_adv_update, Takes
    <3> QED
      BY <3>1, <3>2
  <2> QED
    BY <1>1, <2>2 DEF S
<1>5. cmd' \in Ordinal
  BY <1>2, <1>3 DEF Update, sync_adv_update
<1>6. cmd_seq' \in Seq16
  <2>1. cmd_seq + 1 \in Int
    BY DEF Seq16
  <2> QED
    BY <2>1, ModTypes DEF Update, sync_adv_update, NextSeq
<1>7. air' \in [valid : BOOLEAN, seq : Seq16, cmd : Ordinal]
  <2>1. \/ air' = [valid |-> TRUE, seq |-> cmd_seq', cmd |-> cmd']
        \/ air' = air
    BY DEF Update, sync_adv_update
  <2>2. [valid |-> TRUE, seq |-> cmd_seq', cmd |-> cmd']
          \in [valid : BOOLEAN, seq : Seq16, cmd : Ordinal]
    BY <1>5, <1>6
  <2> QED
    BY <2>1, <2>2
<1>8. light' \in {"none", "waiting", "started", "stopped"}
                 /\ update_work' \in BOOLEAN
  BY DEF Update, sync_adv_update, Shown
<1>9. Seq16' = Seq16 /\ Time' = Time /\ Command' = Command
  BY DEF Seq16, Time, Command
<1> QED
  BY <1>1, <1>2, <1>4, <1>5, <1>6, <1>7, <1>8, <1>9 DEF nodeVars

\* What a packet does to the central.
LEMMA PacketSyncType ==
  ASSUME TypeOK, packet_sent
  PROVE  SyncTypeOK' /\ issued' = issued /\ Ordinal' = Ordinal
<1> USE DEF TypeOK, SyncTypeOK
<1>1. timer + 1 \in Int
  BY DEF Time
<1>2. timer' \in Time
  BY <1>1, ModTypes DEF packet_sent
<1>3. UNCHANGED <<cmd_queue, cmd, cmd_seq, air, light, issued>>
  BY DEF packet_sent
<1>4. pkt' \in Nat
  BY DEF packet_sent
<1>5. \/ last_pkt_time' = timer' /\ update_work' = TRUE
      \/ last_pkt_time' = last_pkt_time /\ update_work' = update_work
  BY DEF packet_sent
<1>6. last_pkt_time' \in Time /\ update_work' \in BOOLEAN
  BY <1>2, <1>5
<1>7. Ordinal' = Ordinal
  BY <1>3 DEF Ordinal
<1> QED
  BY <1>2, <1>3, <1>4, <1>6, <1>7 DEF Seq16, Time, Command

\* A command on the air is one of the history.
LEMMA AirCommand ==
  ASSUME TypeOK, air.cmd # 0
  PROVE  air.cmd \in 1 .. Len(issued)
  BY DEF TypeOK, SyncTypeOK, Ordinal

LEMMA PacketType ==
  ASSUME TypeOK, NEW R \in SUBSET synced, Packet(R)
  PROVE  TypeOK'
<1>1. SyncTypeOK' /\ issued' = issued /\ Ordinal' = Ordinal
  BY PacketSyncType DEF Packet
<1>2. CASE Handle(R)
  <2>1. acted' \in [Node -> Seq(1 .. Len(issued))]
    <3> SUFFICES ASSUME NEW n \in Node
                 PROVE  (IF n \in R /\ Acts(n) THEN Append(acted[n], air.cmd)
                                              ELSE acted[n])
                          \in Seq(1 .. Len(issued))
      BY <1>2 DEF Handle
    <3> DEFINE S == 1 .. Len(issued)
    <3>1. acted[n] \in Seq(S)
      BY DEF TypeOK
    <3>2. Acts(n) => air.cmd \in S
      BY AirCommand DEF Acts
    <3> HIDE DEF S
    <3>3. Acts(n) => Append(acted[n], air.cmd) \in Seq(S)
      BY <3>1, <3>2, AppendProperties
    <3> QED
      BY <3>1, <3>3 DEF S
  <2>2. last_cmd_seq' \in [Node -> Seq16]
    BY <1>2 DEF Handle, SeqOfPacket, TypeOK, SyncTypeOK
  <2>3. heard' \in [Node -> Ordinal]
    BY <1>2 DEF Handle, TypeOK, SyncTypeOK
  <2>4. UNCHANGED <<synced, restarted>> /\ recording' \in [Node -> Ordinal]
    BY <1>2 DEF Handle
  <2> QED
    BY <1>1, <2>1, <2>2, <2>3, <2>4 DEF TypeOK, Seq16
<1>3. CASE UNCHANGED nodeVars
  BY <1>1, <1>3 DEF TypeOK, nodeVars, Seq16
<1> QED
  BY <1>2, <1>3 DEF Packet

LEMMA NextType == TypeOK /\ [Next]_vars => TypeOK'
<1> SUFFICES ASSUME TypeOK, [Next]_vars PROVE TypeOK'
  OBVIOUS
<1>1. CASE Issue
  BY <1>1, IssueType
<1>2. CASE Update
  BY <1>2, UpdateType
<1>3. CASE PacketSome
  BY <1>3, PacketType DEF PacketSome
<1>4. ASSUME NEW n \in Node, SyncStarted(n) \/ SyncTerminated(n)
      PROVE  TypeOK'
  BY <1>4 DEF SyncStarted, SyncTerminated, TypeOK, SyncTypeOK, syncVars,
              Ordinal, Seq16, Time, Command
<1>5. ASSUME NEW n \in Node, NodeReboot(n)
      PROVE  TypeOK'
  <2>1. UNCHANGED <<syncVars, restarted>> /\ synced' \subseteq Node
    BY <1>5 DEF NodeReboot, TypeOK
  <2>2. SyncTypeOK' /\ issued' = issued /\ Ordinal' = Ordinal
    BY <2>1 DEF TypeOK, SyncTypeOK, syncVars, Ordinal, Seq16, Time, Command
  <2>3. acted' \in [Node -> Seq(1 .. Len(issued'))]
    <3> DEFINE S == Seq(1 .. Len(issued))
    <3>1. acted \in [Node -> S] /\ <<>> \in S
      BY DEF TypeOK
    <3> HIDE DEF S
    <3>2. acted' \in [Node -> S]
      BY <1>5, <3>1 DEF NodeReboot
    <3> QED
      BY <2>2, <3>2 DEF S
  <2>4. 0 \in Ordinal
    BY DEF TypeOK, SyncTypeOK, Ordinal
  <2> QED
    BY <1>5, <2>1, <2>2, <2>3, <2>4, ModTypes DEF NodeReboot, TypeOK, Seq16
<1>6. CASE CentralReboot
  <2>1. UNCHANGED <<issued, pkt, last_cmd_seq, acted, recording, heard>>
    BY <1>6 DEF CentralReboot, SyncReboot
  <2>2. Ordinal' = Ordinal /\ 0 \in Ordinal
    BY <2>1 DEF TypeOK, SyncTypeOK, Ordinal
  <2>3. cmd_queue' \in Seq(1 .. Len(issued')) /\ Len(cmd_queue') <= QueueSize
    BY <1>6, SyncAssumption DEF CentralReboot, SyncReboot
  <2> QED
    BY <1>6, <2>1, <2>2, <2>3, ModTypes
    DEF CentralReboot, SyncReboot, NoData, TypeOK, SyncTypeOK, Seq16, Time,
        Command
<1>7. CASE UNCHANGED vars
  BY <1>7 DEF vars, syncVars, nodeVars, TypeOK, SyncTypeOK, Ordinal, Seq16,
              Time, Command
<1> QED
  BY <1>1, <1>2, <1>3, <1>4, <1>5, <1>6, <1>7 DEF Next

\* The distribution keeps its types: the numbers stay within 16 bits, the
\* queue within its size, and nodes only act on commands that were issued.
THEOREM DistributionTypeCorrect == Spec => []TypeOK
<1> QED
  BY InitType, NextType, PTL DEF Spec

-----------------------------------------------------------------------------
(***************************************************************************)
(* The order of commands.                                                  *)
(***************************************************************************)
LEMMA NewestOfAppend ==
  ASSUME NEW S, NEW s \in Seq(S), NEW k \in S
  PROVE  Promise!Newest(Append(s, k)) = k
<1>1. /\ Append(s, k) # <<>> /\ Len(Append(s, k)) = Len(s) + 1
      /\ Append(s, k)[Len(s) + 1] = k
  BY AppendProperties
<1> QED
  BY <1>1 DEF Promise!Newest

LEMMA LatestType ==
  ASSUME TypeOK, NEW n \in Node
  PROVE  Latest(n) \in Nat /\ Latest(n) <= Len(issued)
<1>1. acted[n] \in Seq(1 .. Len(issued)) /\ Len(issued) \in Nat
  BY DEF TypeOK, SyncTypeOK
<1>2. CASE acted[n] = <<>>
  BY <1>1, <1>2 DEF Latest, Promise!Newest
<1>3. CASE acted[n] # <<>>
  <2> DEFINE S == 1 .. Len(issued)
  <2>1. acted[n] \in Seq(S)
    BY <1>1
  <2> HIDE DEF S
  <2>2. Len(acted[n]) \in Nat \ {0}
    BY <1>3, <2>1, EmptySeq
  <2>3. acted[n][Len(acted[n])] \in S
    BY <2>1, <2>2, ElementOfSeq
  <2> QED
    BY <1>1, <1>3, <2>3 DEF Latest, Promise!Newest, S
<1> QED
  BY <1>2, <1>3

\* The types that the comparisons below are about.
LEMMA OrderTypes ==
  ASSUME TypeOK
  PROVE  /\ cmd \in Nat /\ cmd <= Len(issued)
         /\ air.cmd \in Nat /\ air.cmd <= Len(issued)
         /\ Len(issued) \in Nat /\ Len(cmd_queue) \in Nat
         /\ \A i \in 1 .. Len(cmd_queue) : cmd_queue[i] \in 1 .. Len(issued)
<1> USE DEF TypeOK, SyncTypeOK
<1>1. Len(issued) \in Nat /\ Len(cmd_queue) \in Nat
  OBVIOUS
<1>2. cmd \in Ordinal /\ air.cmd \in Ordinal
  OBVIOUS
<1>3. \A i \in 1 .. Len(cmd_queue) : cmd_queue[i] \in 1 .. Len(issued)
  <2> DEFINE S == 1 .. Len(issued)
  <2>1. cmd_queue \in Seq(S)
    OBVIOUS
  <2> HIDE DEF S
  <2>2. \A i \in 1 .. Len(cmd_queue) : cmd_queue[i] \in S
    BY <2>1, ElementOfSeq
  <2> QED
    BY <2>2 DEF S
<1> QED
  BY <1>1, <1>2, <1>3 DEF Ordinal

LEMMA InitOrder == Init => OrderInv
<1> SUFFICES ASSUME Init PROVE OrderInv
  OBVIOUS
<1>1. cmd_queue = <<>> /\ cmd = 0 /\ air.cmd = 0
  BY DEF Init, SyncInit, SyncBoot, NoData
<1> QED
  BY <1>1 DEF OrderInv, QueueOrdered, QueueAhead, AirBehind, NodesBehind,
              NodesRemember

\* A step in which no command moves.
LEMMA KeepOrder ==
  ASSUME OrderInv,
         UNCHANGED <<cmd_queue, cmd, cmd_seq, air, acted, last_cmd_seq>>
  PROVE  OrderInv'
  BY DEF OrderInv, QueueOrdered, QueueAhead, AirBehind, NodesBehind,
         NodesRemember, Latest

\* A new command is later than everything that moves already.
LEMMA IssueOrder ==
  ASSUME TypeOK, OrderInv, Issue
  PROVE  OrderInv'
<1>1. UNCHANGED <<cmd, cmd_seq, air, acted, last_cmd_seq>>
  BY DEF Issue, sync_cmd_start, sync_cmd_stop, nodeVars
<1>2. cmd_queue' = Append(cmd_queue, Len(issued) + 1)
  BY DEF Issue, sync_cmd_start, sync_cmd_stop, Put
<1>3. /\ Len(cmd_queue') = Len(cmd_queue) + 1
      /\ \A i \in 1 .. Len(cmd_queue) : cmd_queue'[i] = cmd_queue[i]
      /\ cmd_queue'[Len(cmd_queue) + 1] = Len(issued) + 1
  <2>1. cmd_queue \in Seq(Nat) /\ Len(issued) + 1 \in Nat
    BY OrderTypes, SeqMonotonic DEF TypeOK, SyncTypeOK
  <2> QED
    BY <1>2, <2>1, AppendProperties
<1>4. QueueOrdered'
  <2>1. \A i \in 1 .. Len(cmd_queue) : cmd_queue[i] < Len(issued) + 1
    BY OrderTypes
  <2>2. ASSUME NEW i \in 1 .. Len(cmd_queue'), NEW j \in 1 .. Len(cmd_queue'),
               i < j
        PROVE  cmd_queue'[i] < cmd_queue'[j]
    <3>1. i \in 1 .. Len(cmd_queue)
      BY <1>3, <2>2, OrderTypes
    <3>2. CASE j \in 1 .. Len(cmd_queue)
      BY <1>3, <2>2, <3>1, <3>2 DEF OrderInv, QueueOrdered
    <3>3. CASE j = Len(cmd_queue) + 1
      BY <1>3, <2>1, <3>1, <3>3
    <3> QED
      BY <1>3, <3>2, <3>3, OrderTypes
  <2> QED
    BY <2>2 DEF QueueOrdered
<1>5. \A n \in Node : Latest(n)' = Latest(n)
  BY <1>1 DEF Latest
<1>6. QueueAhead'
  <2> SUFFICES ASSUME NEW i \in 1 .. Len(cmd_queue')
               PROVE  /\ cmd < cmd_queue'[i] /\ air.cmd < cmd_queue'[i]
                      /\ \A n \in Node : Latest(n) < cmd_queue'[i]
    BY <1>1, <1>5 DEF QueueAhead
  <2>1. CASE i \in 1 .. Len(cmd_queue)
    BY <1>3, <2>1 DEF OrderInv, QueueAhead
  <2>2. CASE i = Len(cmd_queue) + 1
    BY <1>3, <2>2, OrderTypes, LatestType
  <2> QED
    BY <1>3, <2>1, <2>2, OrderTypes
<1> QED
  BY <1>1, <1>4, <1>5, <1>6
  DEF OrderInv, AirBehind, NodesBehind, NodesRemember

\* The handler takes the head of the queue, which is later than all that is
\* out; or it clears a START, or keeps the command; and gives the result to the
\* controller, or fails to.
LEMMA UpdateOrder ==
  ASSUME TypeOK, OrderInv, Update
  PROVE  OrderInv'
<1>1. UNCHANGED <<acted, last_cmd_seq>> /\ \A n \in Node : Latest(n)' = Latest(n)
  BY DEF Update, nodeVars, Latest
<1>2. \/ air' = [valid |-> TRUE, seq |-> cmd_seq', cmd |-> cmd']
      \/ air' = air
  BY DEF Update, sync_adv_update
<1>3. CASE cmd_queue # <<>>
  <2>1. /\ Len(cmd_queue) \in Nat \ {0}
        /\ Len(cmd_queue') = Len(cmd_queue) - 1
        /\ \A i \in 1 .. Len(cmd_queue') : cmd_queue'[i] = cmd_queue[i + 1]
    <3> DEFINE S == 1 .. Len(issued)
    <3>1. cmd_queue \in Seq(S)
      BY DEF TypeOK, SyncTypeOK
    <3> HIDE DEF S
    <3>2. cmd_queue' = Tail(cmd_queue)
      BY <1>3 DEF Update, sync_adv_update, Takes
    <3>3. Len(cmd_queue) \in Nat \ {0}
      BY <1>3, <3>1, EmptySeq
    <3> QED
      BY <1>3, <3>1, <3>2, <3>3, HeadTailProperties
  <2>2. cmd' = cmd_queue[1] \/ cmd' = 0
    BY <1>3 DEF Update, sync_adv_update, Takes, Current
  <2>3. \A i \in 1 .. Len(cmd_queue') :
          /\ i + 1 \in 1 .. Len(cmd_queue) /\ 1 < i + 1
          /\ cmd_queue[1] < cmd_queue'[i]
    BY <2>1 DEF OrderInv, QueueOrdered
  <2>4. /\ cmd_queue[1] \in Nat \ {0} /\ air.cmd < cmd_queue[1]
        /\ \A n \in Node : Latest(n) < cmd_queue[1]
    BY <2>1, OrderTypes DEF OrderInv, QueueAhead
  <2>5. QueueOrdered'
    BY <2>1 DEF OrderInv, QueueOrdered
  <2>6. /\ \A i \in 1 .. Len(cmd_queue') :
             /\ cmd_queue'[i] \in Nat /\ cmd_queue'[i] > 0
             /\ cmd' < cmd_queue'[i] /\ air.cmd < cmd_queue'[i]
             /\ \A n \in Node : Latest(n) < cmd_queue'[i]
    BY <2>1, <2>2, <2>3, <2>4, OrderTypes DEF OrderInv, QueueAhead
  <2>7. QueueAhead'
    BY <1>1, <1>2, <2>6 DEF QueueAhead
  <2>8. AirBehind'
    BY <1>2, <2>2, <2>4, OrderTypes DEF AirBehind
  <2>9. NodesBehind'
    <3> SUFFICES ASSUME NEW n \in Node
                 PROVE  /\ cmd' # 0 => Latest(n) <= cmd'
                        /\ air'.cmd # 0 => Latest(n) <= air'.cmd
      BY <1>1 DEF NodesBehind
    <3>1. Latest(n) \in Nat /\ Latest(n) < cmd_queue[1]
      BY <2>4, LatestType
    <3>2. cmd' # 0 => Latest(n) <= cmd'
      BY <2>2, <2>4, <3>1
    <3>3. air.cmd # 0 => Latest(n) <= air.cmd
      BY DEF OrderInv, NodesBehind
    <3> QED
      BY <1>2, <3>2, <3>3
  <2>10. NodesRemember'
    <3> SUFFICES ASSUME NEW n \in Node
                 PROVE  /\ air'.cmd # 0 /\ Latest(n) = air'.cmd
                             => last_cmd_seq[n] = air'.seq
                        /\ cmd' # 0 /\ Latest(n) = cmd' => air'.cmd = cmd'
      BY <1>1 DEF NodesRemember
    <3>1. Latest(n) # cmd_queue[1]
      BY <2>4, LatestType
    <3>2. air.cmd # 0 /\ Latest(n) = air.cmd => last_cmd_seq[n] = air.seq
      BY DEF OrderInv, NodesRemember
    <3> QED
      BY <1>2, <2>2, <3>1, <3>2
  <2> QED
    BY <2>5, <2>7, <2>8, <2>9, <2>10 DEF OrderInv
<1>4. CASE cmd_queue = <<>>
  <2>1. /\ cmd_queue' = <<>>
        /\ cmd' = 0 \/ (cmd' = cmd /\ cmd_seq' = cmd_seq)
    BY <1>4 DEF Update, sync_adv_update, Takes, Current, NewCmd
  <2>2. QueueOrdered' /\ QueueAhead'
    BY <2>1 DEF QueueOrdered, QueueAhead
  <2>3. AirBehind'
    BY <1>2, <2>1, OrderTypes DEF OrderInv, AirBehind
  <2>4. NodesBehind'
    BY <1>1, <1>2, <2>1 DEF OrderInv, NodesBehind
  <2>5. NodesRemember'
    BY <1>1, <1>2, <2>1 DEF OrderInv, NodesRemember, AirBehind
  <2> QED
    BY <2>2, <2>3, <2>4, <2>5 DEF OrderInv
<1> QED
  BY <1>3, <1>4

\* What a packet does to one node: it acts on the command on the air and
\* remembers its number, or its latest command stays.
LEMMA PacketOfNode ==
  ASSUME TypeOK, NEW R \in SUBSET synced, Packet(R), NEW n \in Node
  PROVE  \/ /\ n \in R /\ Acts(n) /\ air.valid
            /\ Latest(n)' = air.cmd /\ last_cmd_seq'[n] = air.seq
            /\ acted'[n] = Append(acted[n], air.cmd)
            /\ recording'[n] \in NodeRecords(n)
         \/ /\ acted'[n] = acted[n] /\ Latest(n)' = Latest(n)
            /\ recording'[n] = recording[n]
            /\ last_cmd_seq'[n] = last_cmd_seq[n] \/ air.cmd = 0
<1>1. CASE UNCHANGED nodeVars
  BY <1>1 DEF nodeVars, Latest
<1>2. CASE Handle(R) /\ air.valid
  <2>1. CASE n \in R /\ Acts(n)
    <3> DEFINE S == 1 .. Len(issued)
    <3>1. acted'[n] = Append(acted[n], air.cmd)
      BY <1>2, <2>1 DEF Handle
    <3>2. acted[n] \in Seq(S) /\ air.cmd \in S
      BY <2>1, AirCommand DEF TypeOK, Acts
    <3> HIDE DEF S
    <3>3. Latest(n)' = air.cmd
      BY <3>1, <3>2, NewestOfAppend DEF Latest
    <3>4. last_cmd_seq'[n] = air.seq
      BY <1>2, <2>1 DEF Handle, Acts, SeqOfPacket
    <3>5. recording'[n] \in NodeRecords(n)
      BY <1>2, <2>1 DEF Handle
    <3> QED
      BY <1>2, <2>1, <3>1, <3>3, <3>4, <3>5
  <2>2. CASE ~(n \in R /\ Acts(n))
    <3>1. acted'[n] = acted[n]
      BY <1>2, <2>2 DEF Handle
    <3>2. recording'[n] = recording[n]
      BY <1>2, <2>2 DEF Handle, NodeRecords
    <3>3. last_cmd_seq'[n] = last_cmd_seq[n] \/ air.cmd = 0
      BY <1>2, <2>2 DEF Handle, Acts
    <3> QED
      BY <3>1, <3>2, <3>3 DEF Latest
  <2> QED
    BY <2>1, <2>2
<1> QED
  BY <1>1, <1>2 DEF Packet

LEMMA PacketOrder ==
  ASSUME TypeOK, OrderInv, NEW R \in SUBSET synced, Packet(R)
  PROVE  OrderInv'
<1>1. UNCHANGED <<cmd_queue, cmd, cmd_seq, air>>
  BY DEF Packet, packet_sent
<1>2. ASSUME NEW n \in Node
      PROVE  \/ /\ Latest(n)' = air.cmd /\ last_cmd_seq'[n] = air.seq
                /\ air.cmd # 0
             \/ /\ Latest(n)' = Latest(n)
                /\ last_cmd_seq'[n] = last_cmd_seq[n] \/ air.cmd = 0
  BY PacketOfNode DEF Acts
<1>3. QueueOrdered' /\ AirBehind'
  BY <1>1 DEF OrderInv, QueueOrdered, AirBehind
<1>4. QueueAhead'
  BY <1>1, <1>2 DEF OrderInv, QueueAhead
<1>5. NodesBehind'
  <2> SUFFICES ASSUME NEW n \in Node
               PROVE  /\ cmd # 0 => Latest(n)' <= cmd
                      /\ air.cmd # 0 => Latest(n)' <= air.cmd
    BY <1>1 DEF NodesBehind
  <2> QED
    BY <1>2, OrderTypes DEF OrderInv, AirBehind, NodesBehind
<1>6. NodesRemember'
  <2> SUFFICES ASSUME NEW n \in Node
               PROVE  /\ air.cmd # 0 /\ Latest(n)' = air.cmd
                           => last_cmd_seq'[n] = air.seq
                      /\ cmd # 0 /\ Latest(n)' = cmd => air.cmd = cmd
    BY <1>1 DEF NodesRemember
  <2> QED
    BY <1>2 DEF OrderInv, NodesRemember
<1> QED
  BY <1>3, <1>4, <1>5, <1>6 DEF OrderInv

LEMMA NextOrder == TypeOK /\ OrderInv /\ [Next]_vars => OrderInv'
<1> SUFFICES ASSUME TypeOK, OrderInv, [Next]_vars PROVE OrderInv'
  OBVIOUS
<1>1. CASE Issue
  BY <1>1, IssueOrder
<1>2. CASE Update
  BY <1>2, UpdateOrder
<1>3. CASE PacketSome
  BY <1>3, PacketOrder DEF PacketSome
<1>4. ASSUME NEW n \in Node, SyncStarted(n) \/ SyncTerminated(n)
      PROVE  OrderInv'
  BY <1>4, KeepOrder DEF SyncStarted, SyncTerminated, syncVars
<1>5. ASSUME NEW n \in Node, NodeReboot(n)
      PROVE  OrderInv'
  <2>1. UNCHANGED <<cmd_queue, cmd, cmd_seq, air>>
    BY <1>5 DEF NodeReboot, syncVars
  <2>2. ASSUME NEW m \in Node
        PROVE  \/ Latest(m)' = 0
               \/ /\ Latest(m)' = Latest(m)
                  /\ last_cmd_seq'[m] = last_cmd_seq[m]
    <3>1. CASE m = n
      <4>1. acted'[m] = <<>>
        BY <1>5, <3>1 DEF NodeReboot, TypeOK
      <4> QED
        BY <4>1 DEF Latest, Promise!Newest
    <3>2. CASE m # n
      BY <1>5, <3>2 DEF NodeReboot, TypeOK, Latest
    <3> QED
      BY <3>1, <3>2
  <2>3. QueueOrdered' /\ AirBehind'
    BY <2>1 DEF OrderInv, QueueOrdered, AirBehind
  <2>4. QueueAhead'
    BY <2>1, <2>2, OrderTypes DEF OrderInv, QueueAhead
  <2>5. NodesBehind'
    BY <2>1, <2>2, OrderTypes DEF OrderInv, NodesBehind
  <2>6. NodesRemember'
    BY <2>1, <2>2 DEF OrderInv, NodesRemember
  <2> QED
    BY <2>3, <2>4, <2>5, <2>6 DEF OrderInv
<1>6. CASE CentralReboot
  <2>1. cmd_queue' = <<>> /\ cmd' = 0 /\ air'.cmd = 0
    BY <1>6 DEF CentralReboot, SyncReboot, NoData
  <2> QED
    BY <2>1 DEF OrderInv, QueueOrdered, QueueAhead, AirBehind, NodesBehind,
                NodesRemember
<1>7. CASE UNCHANGED vars
  BY <1>7, KeepOrder DEF vars, syncVars, nodeVars
<1> QED
  BY <1>1, <1>2, <1>3, <1>4, <1>5, <1>6, <1>7 DEF Next

\* Commands move forward only, and who acted on the one on the air remembers
\* its number.
LEMMA OrderInvariant == Spec => [](TypeOK /\ OrderInv)
<1>1. Init => TypeOK /\ OrderInv
  BY InitType, InitOrder
<1>2. TypeOK /\ OrderInv /\ [Next]_vars => (TypeOK /\ OrderInv)'
  BY NextType, NextOrder
<1> QED
  BY <1>1, <1>2, PTL DEF Spec

-----------------------------------------------------------------------------
(***************************************************************************)
(* The distribution implements Broadcast.                                  *)
(***************************************************************************)

\* What the commands issued so far are to Broadcast.
Ids == [k \in 1 .. Len(issued) |-> issued[k].id]

\* Ids, in step with the history.
LEMMA IdsType ==
  ASSUME TypeOK
  PROVE  /\ Ids \in Seq({"START", "STOP"}) /\ Len(Ids) = Len(issued)
         /\ \A k \in 1 .. Len(issued) :
              Ids[k] = issued[k].id /\ Ids[k] \in {"START", "STOP"}
<1>1. Len(issued) \in Nat
  BY DEF TypeOK, SyncTypeOK
<1>2. \A k \in 1 .. Len(issued) : issued[k].id \in {"START", "STOP"}
  <2>1. \A k \in 1 .. Len(issued) : issued[k] \in Command
    BY ElementOfSeq DEF TypeOK, SyncTypeOK
  <2> QED
    BY <2>1 DEF Command
<1>3. Ids \in [1 .. Len(issued) -> {"START", "STOP"}]
  BY <1>2 DEF Ids
<1>4. Ids \in Seq({"START", "STOP"}) /\ Len(Ids) = Len(issued)
  BY <1>1, <1>3, SeqDef, LenProperties
<1> QED
  BY <1>2, <1>4 DEF Ids

\* Issuing a command appends it.
LEMMA IssueIds ==
  ASSUME TypeOK, Issue
  PROVE  \E c \in {"START", "STOP"} : Ids' = Append(Ids, c)
<1>1. PICK c \in Command : issued' = Append(issued, c)
  <2>1. last_pkt_time + StartDelay \in Int
    BY SyncAssumption DEF TypeOK, SyncTypeOK, Time
  <2>2. StartTime \in Time /\ 0 \in Time
    BY <2>1, ModTypes DEF StartTime
  <2>3. /\ [id |-> "START", time |-> StartTime, at |-> pkt] \in Command
        /\ [id |-> "STOP", time |-> 0, at |-> pkt] \in Command
    BY <2>2 DEF Command, TypeOK, SyncTypeOK
  <2> QED
    BY <2>3 DEF Issue, sync_cmd_start, sync_cmd_stop, Put
<1>2. /\ issued' \in Seq(Command) /\ Len(issued') = Len(issued) + 1
      /\ \A k \in 1 .. Len(issued) : issued'[k] = issued[k]
      /\ issued'[Len(issued) + 1] = c
      /\ Len(issued) \in Nat
  BY <1>1, AppendProperties DEF TypeOK, SyncTypeOK
<1>3. c.id \in {"START", "STOP"}
  BY DEF Command
<1>4. /\ Ids \in Seq({"START", "STOP"}) /\ Len(Ids) = Len(issued)
      /\ \A k \in 1 .. Len(issued) : Ids[k] = issued[k].id
  BY IdsType
<1>5. /\ Append(Ids, c.id) \in Seq({"START", "STOP"})
      /\ Len(Append(Ids, c.id)) = Len(issued) + 1
      /\ \A k \in 1 .. Len(issued) : Append(Ids, c.id)[k] = issued[k].id
      /\ Append(Ids, c.id)[Len(issued) + 1] = c.id
  BY <1>3, <1>4, AppendProperties
<1>6. Append(Ids, c.id) = [k \in 1 .. Len(issued) + 1 |-> issued'[k].id]
  <2>1. Append(Ids, c.id) \in [1 .. Len(issued) + 1 -> {"START", "STOP"}]
    BY <1>5, LenProperties
  <2>2. \A k \in 1 .. Len(issued) + 1 : Append(Ids, c.id)[k] = issued'[k].id
    BY <1>2, <1>5
  <2> QED
    BY <2>1, <2>2
<1>7. Ids' = [k \in 1 .. Len(issued) + 1 |-> issued'[k].id]
  BY <1>2 DEF Ids
<1> QED
  BY <1>3, <1>6, <1>7

\* A node that acts on a packet takes a command it has not seen: had it acted
\* on it or on a later one, it would remember its number.
LEMMA PacketTakes ==
  ASSUME TypeOK, OrderInv, NEW R \in SUBSET synced, Packet(R), NEW n \in Node
  PROVE  Promise!Takes(n) \/ Promise!Stays(n)
<1>1. CASE acted'[n] = acted[n] /\ recording'[n] = recording[n]
  BY <1>1 DEF Promise!Stays
<1>2. CASE /\ Acts(n) /\ acted'[n] = Append(acted[n], air.cmd)
           /\ recording'[n] \in NodeRecords(n)
  <2>1. air.cmd # 0 /\ air.seq # last_cmd_seq[n]
    BY <1>2 DEF Acts, IsNew
  <2>2. Latest(n) < air.cmd
    BY <2>1, OrderTypes, LatestType DEF OrderInv, NodesBehind, NodesRemember
  <2>3. air.cmd \in Latest(n) + 1 .. Len(Ids)
    BY <2>2, OrderTypes, LatestType, IdsType
  <2>4. Ids[air.cmd] = issued[air.cmd].id /\ Ids[air.cmd] \in {"START", "STOP"}
    BY <2>1, AirCommand, IdsType
  <2>5. \/ Ids[air.cmd] = "START" /\ recording'[n] \in {air.cmd, recording[n]}
        \/ Ids[air.cmd] = "STOP" /\ recording'[n] = 0
    <3>1. CASE IsStop(air.cmd)
      BY <1>2, <2>4, <3>1 DEF IsStop, NodeRecords
    <3>2. CASE ~IsStop(air.cmd)
      BY <1>2, <2>1, <2>4, <3>2 DEF IsStop, NodeRecords
    <3> QED
      BY <3>1, <3>2
  <2> QED
    BY <1>2, <2>3, <2>5 DEF Promise!Takes, Latest, Ids
<1> QED
  BY <1>1, <1>2, PacketOfNode

LEMMA StepKeepsPromise ==
  TypeOK /\ TypeOK' /\ OrderInv /\ [Next]_vars => [Promise!Next]_(Promise!vars)
<1> SUFFICES ASSUME TypeOK, TypeOK', OrderInv, [Next]_vars
             PROVE  Promise!Next \/ UNCHANGED <<issued, acted, recording>>
  BY DEF Promise!vars
<1>1. CASE Issue
  <2>1. PICK c \in {"START", "STOP"} : Ids' = Append(Ids, c)
    BY <1>1, IssueIds
  <2>2. UNCHANGED <<acted, recording>>
    BY <1>1 DEF Issue, nodeVars
  <2> QED
    BY <2>1, <2>2 DEF Promise!Next, Promise!Issue, Ids
<1>2. CASE Update
  BY <1>2 DEF Update, sync_adv_update, nodeVars
<1>3. CASE PacketSome
  <2>1. PICK R \in SUBSET synced : Packet(R)
    BY <1>3 DEF PacketSome
  <2>2. issued' = issued
    BY <2>1 DEF Packet, packet_sent
  <2>3. acted' \in [Node -> Seq(1 .. Len(Ids))]
        /\ recording' \in [Node -> 0 .. Len(Ids)]
    BY <2>2, IdsType DEF TypeOK, Ordinal
  <2>4. \A n \in Node : Promise!Takes(n) \/ Promise!Stays(n)
    BY <2>1, PacketTakes
  <2> QED
    BY <2>2, <2>3, <2>4 DEF Promise!Next, Promise!Deliver, Ids
<1>4. ASSUME NEW n \in Node, SyncStarted(n) \/ SyncTerminated(n)
      PROVE  UNCHANGED <<issued, acted, recording>>
  BY <1>4 DEF SyncStarted, SyncTerminated, syncVars
<1>5. ASSUME NEW n \in Node, NodeReboot(n)
      PROVE  Promise!Next
  BY <1>5 DEF NodeReboot, syncVars, Promise!Next, Promise!Restart
<1>6. CASE CentralReboot
  BY <1>6 DEF CentralReboot, SyncReboot
<1>7. CASE UNCHANGED vars
  BY <1>7 DEF vars, syncVars, nodeVars
<1> QED
  BY <1>1, <1>2, <1>3, <1>4, <1>5, <1>6, <1>7 DEF Next

LEMMA InitKeepsPromise == Init => Promise!Init
<1> SUFFICES ASSUME Init PROVE Promise!Init
  OBVIOUS
<1>1. issued = <<>> /\ Len(issued) = 0
  BY DEF Init, SyncInit
<1>2. Ids = <<>>
  <2>1. Ids = [k \in 1 .. 0 |-> issued[k].id]
    BY <1>1 DEF Ids
  <2>2. Ids \in [1 .. 0 -> {}]
    BY <2>1
  <2>3. Ids \in Seq({}) /\ Len(Ids) = 0
    BY <2>2, SeqDef, LenProperties
  <2> QED
    BY <2>3, EmptySeq
<1> QED
  BY <1>2 DEF Init, Promise!Init, Ids

\* Whatever is lost, repeated, restarted or late, no node acts on a command
\* twice or after a later one, and each records for the START it took last,
\* unless a STOP came after it.
THEOREM DistributionImplementsBroadcast == Spec => KeepsPromise
<1>1. Init => Promise!Init
  BY InitKeepsPromise
<1>2. TypeOK /\ TypeOK' /\ OrderInv /\ [Next]_vars
        => [Promise!Next]_(Promise!vars)
  BY StepKeepsPromise
<1> QED
  BY <1>1, <1>2, OrderInvariant, PTL DEF Spec, KeepsPromise, Promise!Spec


-----------------------------------------------------------------------------
(***************************************************************************)
(* What is heard is taken.  While the central runs its numbers only grow,  *)
(* so that a number that a node remembers is that of the command it took.  *)
(***************************************************************************)

\* A command takes a number when it is taken from the queue and, if it is a START,
\* another when it expires: there are enough of them for all commands of a run
\* of the central (2^16 in the code).
EnoughNumbers == 2 * MaxCmds <= CmdSeqMod

\* The number that a command on the air may still cost
Expiry == IF cmd # 0 THEN 1 ELSE 0

\* The last START has expired with the last number, and the next is 0 again.
Spent == cmd = 0 /\ cmd_queue = <<>> /\ Len(issued) >= MaxCmds

\* The numbers used and to be used, and those seen; 0 is no command's.
NumbersGrow ==
  /\ cmd_seq + 2 * Len(cmd_queue) + Expiry <= 2 * Len(issued)
  /\ Len(issued) <= MaxCmds
  /\ Spent \/ (air.seq <= cmd_seq /\ \A n \in Node : last_cmd_seq[n] <= cmd_seq)
  /\ cmd # 0 => cmd_seq # 0
  /\ air.cmd # 0 => air.seq # 0

\* A number stands for one command: on the air and in the nodes.
NumbersName ==
  /\ air.seq = cmd_seq => air.cmd = cmd
  /\ \A n \in Node :
       /\ cmd # 0 /\ last_cmd_seq[n] = cmd_seq => Latest(n) = cmd
       /\ air.cmd # 0 /\ last_cmd_seq[n] = air.seq => Latest(n) = air.cmd

HeardInv ==
  restarted = TRUE \/ (NumbersGrow /\ NumbersName /\ \A n \in Node : heard[n] = Latest(n))

\* The number after this one
LEMMA NextNumber ==
  ASSUME TypeOK
  PROVE  /\ cmd_seq \in Nat /\ CmdSeqMod \in Nat
         /\ cmd_seq + 1 < CmdSeqMod => NextSeq = cmd_seq + 1
         /\ cmd_seq + 1 >= CmdSeqMod => NextSeq = 0 /\ cmd_seq + 1 = CmdSeqMod
<1>1. PICK m \in Nat \ {0} : m = CmdSeqMod
  BY SyncAssumption
<1>2. PICK a \in 0 .. m - 1 : a = cmd_seq
  BY <1>1 DEF TypeOK, SyncTypeOK, Seq16
<1>3. (a + 1) % m = IF a + 1 < m THEN a + 1 ELSE 0
  OBVIOUS
<1>4. QED
  BY <1>1, <1>2, <1>3 DEF NextSeq

\* What a packet does to one node: the command on the air is taken, or was taken
\* before, or there is none.
LEMMA PacketHeard ==
  ASSUME TypeOK, NEW R \in SUBSET synced, Packet(R), NEW n \in Node
  PROVE  \/ /\ air.cmd # 0 /\ heard'[n] = air.cmd
            /\ Latest(n)' = air.cmd /\ last_cmd_seq'[n] = air.seq
         \/ /\ air.cmd # 0 /\ heard'[n] = air.cmd /\ last_cmd_seq[n] = air.seq
            /\ Latest(n)' = Latest(n) /\ last_cmd_seq'[n] = last_cmd_seq[n]
         \/ /\ heard'[n] = heard[n] /\ Latest(n)' = Latest(n)
            /\ \/ last_cmd_seq'[n] = last_cmd_seq[n]
               \/ air.cmd = 0 /\ last_cmd_seq'[n] = air.seq
<1>1. CASE UNCHANGED nodeVars
  BY <1>1 DEF nodeVars, Latest
<1>2. CASE Handle(R) /\ air.valid
  <2>1. CASE n \in R /\ Acts(n)
    <3>1. heard'[n] = air.cmd /\ air.cmd # 0 /\ last_cmd_seq'[n] = air.seq
      BY <1>2, <2>1 DEF Handle, Acts, SeqOfPacket
    <3>2. acted'[n] # acted[n]
      <4>1. acted'[n] = Append(acted[n], air.cmd) /\ acted[n] \in Seq(1 .. Len(issued))
        BY <1>2, <2>1 DEF Handle, TypeOK
      <4> DEFINE S == 1 .. Len(issued)
      <4>2. air.cmd \in S /\ acted[n] \in Seq(S)
        BY <2>1, <4>1, AirCommand DEF Acts
      <4> HIDE DEF S
      <4>3. Len(acted'[n]) = Len(acted[n]) + 1 /\ Len(acted[n]) \in Nat
        BY <4>1, <4>2, AppendProperties
      <4> QED
        BY <4>3
    <3>3. Latest(n)' = air.cmd
      BY <3>2, PacketOfNode
    <3> QED
      BY <3>1, <3>3
  <2>2. CASE ~(n \in R /\ Acts(n))
    <3>1. acted'[n] = acted[n]
      BY <1>2, <2>2 DEF Handle
    <3>2. Latest(n)' = Latest(n)
      BY <3>1 DEF Latest
    <3>3. CASE n \notin R
      BY <1>2, <3>2, <3>3 DEF Handle
    <3>4. CASE n \in R /\ air.cmd = 0
      BY <1>2, <3>2, <3>4 DEF Handle, SeqOfPacket
    <3>5. CASE n \in R /\ air.cmd # 0
      BY <1>2, <2>2, <3>2, <3>5 DEF Handle, Acts, IsNew
    <3> QED
      BY <3>3, <3>4, <3>5
  <2> QED
    BY <2>1, <2>2
<1> QED
  BY <1>1, <1>2 DEF Packet

\* A packet
LEMMA PacketHears ==
  ASSUME TypeOK, HeardInv, NEW R \in SUBSET synced, Packet(R)
  PROVE  HeardInv'
<1>1. restarted' = restarted /\ UNCHANGED <<cmd_queue, cmd, cmd_seq, air, issued>>
  BY DEF Packet, packet_sent, Handle, nodeVars
<1>2. CASE restarted = TRUE
  BY <1>1, <1>2 DEF HeardInv
<1>3. CASE restarted # TRUE
  <2>1. NumbersGrow /\ NumbersName /\ \A n \in Node : heard[n] = Latest(n)
    BY <1>3 DEF HeardInv
  <2>2. ASSUME NEW n \in Node
        PROVE  /\ Spent \/ last_cmd_seq'[n] <= cmd_seq
               /\ cmd # 0 /\ last_cmd_seq'[n] = cmd_seq => Latest(n)' = cmd
               /\ air.cmd # 0 /\ last_cmd_seq'[n] = air.seq => Latest(n)' = air.cmd
               /\ heard'[n] = Latest(n)'
    BY <2>1, PacketHeard DEF NumbersGrow, NumbersName
  <2>3. NumbersGrow'
    BY <1>1, <2>1, <2>2 DEF NumbersGrow, Spent, Expiry
  <2>4. NumbersName'
    BY <1>1, <2>1, <2>2 DEF NumbersName
  <2> QED
    BY <2>2, <2>3, <2>4 DEF HeardInv
<1> QED
  BY <1>2, <1>3

\* A command issued
LEMMA IssueHears ==
  ASSUME TypeOK, HeardInv, Issue
  PROVE  HeardInv'
<1>1. UNCHANGED <<cmd, cmd_seq, air, nodeVars>> /\ \A n \in Node : Latest(n)' = Latest(n)
  BY DEF Issue, sync_cmd_start, sync_cmd_stop, nodeVars, Latest
<1>2. /\ Len(issued) < MaxCmds /\ Len(issued') = Len(issued) + 1
      /\ Len(cmd_queue') = Len(cmd_queue) + 1
      /\ Len(issued) \in Nat /\ Len(cmd_queue) \in Nat /\ MaxCmds \in Nat
  <2>1. issued \in Seq(Command) /\ cmd_queue \in Seq(1 .. Len(issued))
    BY DEF TypeOK, SyncTypeOK
  <2>2. Len(issued) < MaxCmds /\ \E c : Put(c)
    BY DEF Issue, sync_cmd_start, sync_cmd_stop
  <2>3. PICK c : issued' = Append(issued, c) /\ cmd_queue' = Append(cmd_queue, Len(issued) + 1)
    BY <2>2 DEF Put
  <2>4. \A s, e : s \in Seq(Command) => Len(Append(s, e)) = Len(s) + 1 /\ Len(s) \in Nat
    OBVIOUS
  <2> DEFINE S == 1 .. Len(issued)
  <2>5. cmd_queue \in Seq(S)
    BY <2>1
  <2> HIDE DEF S
  <2>6. Len(cmd_queue') = Len(cmd_queue) + 1 /\ Len(cmd_queue) \in Nat
    BY <2>3, <2>5
  <2> QED
    BY <2>1, <2>2, <2>3, <2>4, <2>6, SyncAssumption
<1>3. Expiry' = Expiry /\ Expiry \in {0, 1} /\ cmd_seq \in Nat
  BY <1>1, NextNumber DEF Expiry
<1>4. ASSUME NumbersGrow PROVE NumbersGrow'
  <2>1. cmd_seq + 2 * Len(cmd_queue) + Expiry <= 2 * Len(issued)
    BY <1>4 DEF NumbersGrow
  <2>2. cmd_seq' + 2 * Len(cmd_queue') + Expiry' <= 2 * Len(issued')
    BY <1>1, <1>2, <1>3, <2>1
  <2>3. Len(issued') <= MaxCmds /\ ~Spent
    BY <1>2 DEF Spent
  <2> QED
    BY <1>1, <1>4, <2>2, <2>3 DEF NumbersGrow, nodeVars
<1>5. ASSUME NumbersName PROVE NumbersName'
  BY <1>1, <1>5 DEF NumbersName, nodeVars
<1> QED
  BY <1>1, <1>4, <1>5 DEF HeardInv, nodeVars

\* The central's update: a command that is taken gets a number that no node has
\* seen, and that is not 0.
LEMMA UpdateHears ==
  ASSUME EnoughNumbers, TypeOK, OrderInv, HeardInv, Update
  PROVE  HeardInv'
<1>1. UNCHANGED <<issued, acted, last_cmd_seq, heard, restarted>>
      /\ \A n \in Node : Latest(n)' = Latest(n)
  BY DEF Update, sync_adv_update, nodeVars, Latest
<1>2. CASE restarted = TRUE
  BY <1>1, <1>2 DEF HeardInv
<1>3. CASE restarted # TRUE
  <2>1. NumbersGrow /\ NumbersName /\ \A n \in Node : heard[n] = Latest(n)
    BY <1>3 DEF HeardInv
  <2>2. /\ Len(issued) \in Nat /\ Len(issued) <= MaxCmds /\ MaxCmds \in Nat
        /\ cmd \in Nat /\ air.cmd \in Nat /\ air.seq \in Nat
        /\ \A n \in Node : last_cmd_seq[n] \in Nat
        /\ Expiry \in {0, 1}
        /\ cmd_seq + 2 * Len(cmd_queue) + Expiry <= 2 * Len(issued)
    BY <2>1, SyncAssumption
       DEF TypeOK, SyncTypeOK, Ordinal, Seq16, NumbersGrow, Expiry
  <2>3. \/ air' = [valid |-> TRUE, seq |-> cmd_seq', cmd |-> cmd']
        \/ air' = air
    BY DEF Update, sync_adv_update
  <2>4. CASE cmd_queue # <<>>
    <3>1. Len(cmd_queue) \in Nat \ {0} /\ Len(cmd_queue') = Len(cmd_queue) - 1
      <4> DEFINE S == 1 .. Len(issued)
      <4>1. cmd_queue \in Seq(S)
        BY DEF TypeOK, SyncTypeOK
      <4> HIDE DEF S
      <4>2. cmd_queue' = Tail(cmd_queue)
        BY <2>4 DEF Update, sync_adv_update, Takes
      <4>3. Len(cmd_queue) \in Nat \ {0}
        BY <2>4, <4>1, EmptySeq
      <4> QED
        BY <2>4, <4>1, <4>2, <4>3, HeadTailProperties
    <3>2. cmd_seq' = NextSeq /\ ~Spent
      BY <2>4 DEF Update, sync_adv_update, Takes, NewCmd, Spent
    <3>3. cmd_seq + 2 <= CmdSeqMod
      BY <2>2, <3>1, NextNumber DEF EnoughNumbers
    <3>4. cmd_seq' = cmd_seq + 1 /\ cmd_seq \in Nat
      BY <3>2, <3>3, NextNumber
    <3>5. Expiry' \in {0, 1} /\ Expiry' <= 1
      BY DEF Expiry
    <3>6. cmd_seq' + 2 * Len(cmd_queue') + Expiry' <= 2 * Len(issued')
      BY <1>1, <2>2, <3>1, <3>4, <3>5
    <3>7. air.seq <= cmd_seq /\ \A n \in Node : last_cmd_seq[n] <= cmd_seq
      BY <2>1, <3>2 DEF NumbersGrow
    <3>8. /\ air'.seq <= cmd_seq' /\ \A n \in Node : last_cmd_seq[n] <= cmd_seq'
          /\ \A n \in Node : last_cmd_seq[n] # cmd_seq'
          /\ air.seq # cmd_seq' /\ cmd_seq' # 0
      BY <2>2, <2>3, <3>4, <3>7
    <3>9. NumbersGrow'
      BY <1>1, <2>1, <2>2, <2>3, <3>6, <3>8 DEF NumbersGrow
    <3>10. NumbersName'
      <4>1. air'.seq = cmd_seq' => air'.cmd = cmd'
        BY <2>3, <3>8
      <4>2. \A n \in Node : ~(cmd' # 0 /\ last_cmd_seq[n] = cmd_seq')
        BY <3>8
      <4>3. ASSUME NEW n \in Node, air'.cmd # 0, last_cmd_seq[n] = air'.seq
            PROVE  Latest(n) = air'.cmd
        BY <2>1, <2>3, <3>8, <4>3 DEF NumbersName
      <4> QED
        BY <1>1, <4>1, <4>2, <4>3 DEF NumbersName
    <3> QED
      BY <1>1, <2>1, <3>9, <3>10 DEF HeardInv
  <2>5. CASE cmd_queue = <<>> /\ Expires
    <3>1. cmd # 0 /\ cmd' = 0 /\ cmd_seq' = NextSeq /\ cmd_queue' = <<>>
      BY <2>5 DEF Expires, Current, Takes, IsStart, Update, sync_adv_update, NewCmd
    <3>2. Len(cmd_queue) = 0 /\ Len(cmd_queue') = 0 /\ Expiry = 1 /\ Expiry' = 0
      BY <2>5, <3>1 DEF Expiry
    <3>3. cmd_seq + 1 <= 2 * Len(issued) /\ cmd_seq \in Nat /\ CmdSeqMod \in Nat
      BY <2>2, <3>2, NextNumber
    <3>4. ~Spent /\ air.seq <= cmd_seq /\ \A n \in Node : last_cmd_seq[n] <= cmd_seq
      BY <2>1, <3>1 DEF NumbersGrow, Spent
    <3>5. CASE cmd_seq + 1 < CmdSeqMod
      <4>1. cmd_seq' = cmd_seq + 1
        BY <3>1, <3>5, NextNumber
      <4>2. /\ air'.seq <= cmd_seq' /\ \A n \in Node : last_cmd_seq[n] <= cmd_seq'
            /\ air.seq # cmd_seq'
        BY <2>2, <2>3, <3>3, <3>4, <4>1
      <4>3. cmd_seq' + 2 * Len(cmd_queue') + Expiry' <= 2 * Len(issued')
        BY <1>1, <2>2, <3>2, <3>3, <4>1
      <4>4. NumbersGrow'
        BY <1>1, <2>1, <2>2, <2>3, <3>1, <4>2, <4>3 DEF NumbersGrow
      <4>5. NumbersName'
        BY <1>1, <2>1, <2>3, <3>1, <4>2 DEF NumbersName
      <4> QED
        BY <1>1, <2>1, <4>4, <4>5 DEF HeardInv
    <3>6. CASE cmd_seq + 1 >= CmdSeqMod
      <4>1. cmd_seq' = 0 /\ cmd_seq + 1 = CmdSeqMod
        BY <3>1, <3>6, NextNumber
      <4>2. Len(issued) >= MaxCmds
        BY <2>2, <3>3, <4>1 DEF EnoughNumbers
      <4>3. Spent'
        BY <1>1, <3>1, <4>2 DEF Spent
      <4>4. cmd_seq' + 2 * Len(cmd_queue') + Expiry' <= 2 * Len(issued')
        BY <1>1, <2>2, <3>2, <4>1
      <4>5. air'.cmd # 0 => air'.seq # 0 /\ air' = air
        BY <2>1, <2>3, <3>1 DEF NumbersGrow
      <4>6. NumbersGrow'
        BY <1>1, <2>2, <3>1, <4>3, <4>4, <4>5 DEF NumbersGrow
      <4>7. NumbersName'
        BY <1>1, <2>1, <3>1, <4>1, <4>5 DEF NumbersName
      <4> QED
        BY <1>1, <2>1, <4>6, <4>7 DEF HeardInv
    <3> QED
      BY <3>3, <3>5, <3>6
  <2>6. CASE cmd_queue = <<>> /\ ~Expires
    <3>1. cmd' = cmd /\ cmd_seq' = cmd_seq /\ cmd_queue' = <<>>
      BY <2>6 DEF Current, Takes, Update, sync_adv_update, NewCmd
    <3>2. Expiry' = Expiry /\ Spent' = Spent /\ cmd_queue' = cmd_queue
      BY <1>1, <2>6, <3>1 DEF Expiry, Spent
    <3>3. NumbersGrow'
      BY <1>1, <2>1, <2>2, <2>3, <3>1, <3>2, NextNumber DEF NumbersGrow
    <3>4. NumbersName'
      BY <1>1, <2>1, <2>3, <3>1 DEF NumbersName
    <3> QED
      BY <1>1, <2>1, <3>3, <3>4 DEF HeardInv
  <2> QED
    BY <2>4, <2>5, <2>6
<1> QED
  BY <1>2, <1>3

\* A step that changes nothing of it
LEMMA KeepHeard ==
  ASSUME HeardInv, UNCHANGED <<cmd_queue, cmd, cmd_seq, air, issued, acted,
                               last_cmd_seq, heard, restarted>>
  PROVE  HeardInv'
<1>1. \A n \in Node : Latest(n)' = Latest(n)
  BY DEF Latest
<1> QED
  BY <1>1 DEF HeardInv, NumbersGrow, NumbersName, Spent, Expiry

\* A node that restarts remembers 0, which is no command's.
LEMMA RebootHears ==
  ASSUME TypeOK, HeardInv, NEW m \in Node, NodeReboot(m)
  PROVE  HeardInv'
<1>1. UNCHANGED <<cmd_queue, cmd, cmd_seq, air, issued, restarted>>
  BY DEF NodeReboot, syncVars
<1>2. ASSUME NEW n \in Node
      PROVE  \/ last_cmd_seq'[n] = 0 /\ heard'[n] = 0 /\ Latest(n)' = 0
             \/ /\ last_cmd_seq'[n] = last_cmd_seq[n] /\ heard'[n] = heard[n]
                /\ Latest(n)' = Latest(n)
  <2>1. CASE n = m
    <3>1. acted'[n] = <<>> /\ last_cmd_seq'[n] = 0 /\ heard'[n] = 0
      BY <2>1 DEF NodeReboot, TypeOK
    <3> QED
      BY <3>1 DEF Latest, Promise!Newest
  <2>2. CASE n # m
    BY <2>2 DEF NodeReboot, TypeOK, Latest
  <2> QED
    BY <2>1, <2>2
<1>3. ASSUME NumbersGrow PROVE NumbersGrow'
  BY <1>1, <1>2, <1>3, NextNumber DEF NumbersGrow, Spent, Expiry
<1>4. ASSUME NumbersGrow, NumbersName PROVE NumbersName'
  BY <1>1, <1>2, <1>4 DEF NumbersGrow, NumbersName
<1>5. ASSUME \A n \in Node : heard[n] = Latest(n) PROVE \A n \in Node : heard'[n] = Latest(n)'
  BY <1>2, <1>5
<1> QED
  BY <1>1, <1>3, <1>4, <1>5 DEF HeardInv

\* At first nothing is numbered and nothing heard.
LEMMA InitHears == Init => HeardInv
<1> SUFFICES ASSUME Init PROVE HeardInv
  OBVIOUS
<1>1. /\ issued = <<>> /\ cmd_queue = <<>> /\ cmd = 0 /\ cmd_seq = 0 /\ air.cmd = 0
      /\ air.seq = 0 /\ \A n \in Node : last_cmd_seq[n] = 0 /\ heard[n] = 0 /\ acted[n] = <<>>
  BY DEF Init, SyncInit, SyncBoot, NoData
<1>2. Len(issued) = 0 /\ Len(cmd_queue) = 0 /\ Expiry = 0
  BY <1>1 DEF Expiry
<1>3. \A n \in Node : Latest(n) = 0
  BY <1>1 DEF Latest, Promise!Newest
<1>4. NumbersGrow
  BY <1>1, <1>2, SyncAssumption DEF NumbersGrow
<1>5. NumbersName
  BY <1>1 DEF NumbersName
<1> QED
  BY <1>1, <1>3, <1>4, <1>5 DEF HeardInv

\* As long as the central does not restart and there are enough numbers for its
\* commands, a node ignores none that it received for the first time: what
\* mgr.cpp:569 compares is then the number of the command it took last, whatever
\* was lost and however often the node lost the train or restarted.
THEOREM NothingHeardIsIgnored == EnoughNumbers => (Spec => []HeardIsTakenUntilRestart)
<1> SUFFICES ASSUME EnoughNumbers PROVE Spec => []HeardIsTakenUntilRestart
  OBVIOUS
<1>1. TypeOK /\ OrderInv /\ HeardInv /\ [Next]_vars => HeardInv'
  <2> SUFFICES ASSUME TypeOK, OrderInv, HeardInv, [Next]_vars PROVE HeardInv'
    OBVIOUS
  <2>1. CASE Issue
    BY <2>1, IssueHears
  <2>2. CASE Update
    BY <2>2, UpdateHears
  <2>3. CASE PacketSome
    BY <2>3, PacketHears DEF PacketSome
  <2>4. ASSUME NEW n \in Node, SyncStarted(n) \/ SyncTerminated(n) PROVE HeardInv'
    BY <2>4, KeepHeard DEF SyncStarted, SyncTerminated, syncVars
  <2>5. ASSUME NEW n \in Node, NodeReboot(n) PROVE HeardInv'
    BY <2>5, RebootHears
  <2>6. CASE CentralReboot
    BY <2>6 DEF CentralReboot, HeardInv
  <2>7. CASE UNCHANGED vars
    BY <2>7, KeepHeard DEF vars, syncVars, nodeVars
  <2> QED
    BY <2>1, <2>2, <2>3, <2>4, <2>5, <2>6, <2>7 DEF Next
<1>2. HeardInv => HeardIsTakenUntilRestart
  BY DEF HeardInv, HeardIsTakenUntilRestart, HeardIsTaken, Latest
<1> QED
  BY <1>1, <1>2, InitHears, OrderInvariant, PTL DEF Spec

=============================================================================
