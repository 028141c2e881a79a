---------------------------- MODULE RecordProofs ----------------------------
(***************************************************************************)
(* Proofs about Record, for every set of handles, every block, file and    *)
(* time size and every combination of faults.                              *)
(*                                                                         *)
(* HandleInv, with the types, is inductive: the bound of the close queue,  *)
(* the fact that the recorder's file is a file whenever it owns one, and   *)
(* the two invariants on handles, each of which needs the other three.     *)
(***************************************************************************)
EXTENDS Record, FiniteSetTheorems, SequenceTheorems, TLAPS

QueueBounded == Len(closeQueue) <= 1

OwnedIsFile == Owned => file \in Handle

-----------------------------------------------------------------------------
\* The file index 0 exists whatever the number of handles.
LEMMA IndexType == Index \subseteq Nat /\ 0 \in Index
  BY ConstantsAssumption, FS_CardinalityType DEF Index

\* What record_find_next_file_index() leaves is an index.
LEMMA FindIndexType ==
  ASSUME NEW p \in Prefix, file_index \in Index, FindNextFileIndex(p)
  PROVE  file_index' \in Index
  BY DEF FindNextFileIndex, NextFree

\* The wait is a number of frames, and so are the cuts derived from it.
LEMMA CutType ==
  ASSUME TypeOK
  PROVE  /\ WaitTime \in Int
         /\ SplitOffset \in Int
         /\ file \in Handle => OldPart \in Int
<1> USE ConstantsAssumption DEF TypeOK
<1>1. ASSUME NEW a \in Int PROVE a % TimeMod \in Int
  OBVIOUS
<1>2. SDiff(start_time, now % TimeMod) \in Int
  <2>1. now % TimeMod \in Int
    BY <1>1
  <2>2. start_time - (now % TimeMod) \in Int
    BY <2>1
  <2>3. (start_time - (now % TimeMod)) % TimeMod \in Int
    BY <2>2, <1>1
  <2> QED
    BY <2>3 DEF SDiff
<1>3. WaitTime \in Int
  BY <1>2 DEF WaitTime
<1>4. SplitOffset \in Int
  BY <1>3 DEF SplitOffset
<1>5. file \in Handle => OldPart \in Int
  BY <1>4 DEF OldPart, Least, FileRecord
<1> QED
  BY <1>3, <1>4, <1>5

\* A created file is a well-formed file.
LEMMA CreatedType ==
  ASSUME TypeOK, NEW h, NEW s \in {"open", "broken"}, NEW n \in Int
  PROVE  /\ Created(h, s, n) \in FileRecord
         /\ Created(h, s, n).status = s
  BY DEF Created, FileRecord, TypeOK

\* The part of a block left for the next file is a number of frames.
LEMMA RestType == TypeOK => Rest \in Int
  BY ConstantsAssumption DEF Rest, TypeOK

-----------------------------------------------------------------------------
(***************************************************************************)
(* Type correctness, one lemma for the initial states and one for a step.  *)
(***************************************************************************)
LEMMA InitType == Init => TypeOK
<1> SUFFICES ASSUME Init PROVE TypeOK
  OBVIOUS
<1> USE ConstantsAssumption, IndexType
<1>1. Unused \in FileRecord
  BY DEF Unused, FileRecord
<1>2. files \in [Handle -> FileRecord]
  <2>1. CASE files = [h \in Handle |-> Unused]
    BY <2>1, <1>1
  <2>2. ASSUME NEW old \in Handle, NEW p \in Prefix, NEW i \in {0, 1},
               i \in Index,
               files = [[h \in Handle |-> Unused] EXCEPT
                          ![old] = [Unused EXCEPT !.status = "closed",
                                                  !.prefix = p, !.index = i]]
        PROVE  files \in [Handle -> FileRecord]
    <3>1. [Unused EXCEPT !.status = "closed", !.prefix = p, !.index = i]
            \in FileRecord
      BY <1>1, <2>2 DEF FileRecord
    <3> QED
      BY <1>1, <2>2, <3>1
  <2> QED
    BY <2>1, <2>2 DEF Init
<1>3. PICK p \in Prefix : Boot(p)
  BY DEF Init
<1>4. TimeMod - 1 \in Nat /\ 0 \in 0 .. TimeMod - 1
  OBVIOUS
<1>5. <<>> \in Seq(Handle \cup {NoFile})
  OBVIOUS
<1>6. mounted \in BOOLEAN
  BY <1>3 DEF Boot
<1>7. /\ init \in BOOLEAN /\ codec \in BOOLEAN
      /\ prefix \in Prefix /\ saved \in Prefix
      /\ file \in Handle \cup {NoFile}
      /\ closing \in Handle \cup {NoFile, Idle}
  BY <1>3 DEF Boot
<1>8. /\ start_time \in 0 .. TimeMod - 1 /\ file_index \in Index
      /\ last_sync \in Int /\ now \in Int /\ start_frame \in Int
      /\ split \in Int
  BY <1>3, <1>4 DEF Boot
<1> QED
  BY <1>2, <1>3, <1>5, <1>6, <1>7, <1>8 DEF Boot, TypeOK, STATES, BUSY

\* Handing a file over keeps the queue a queue of handles.
LEMMA HandOverType ==
  ASSUME TypeOK, HandToCloseThread
  PROVE  /\ closeQueue' \in Seq(Handle \cup {NoFile})
         /\ closing' = closing
  BY DEF TypeOK, HandToCloseThread

\* A file that grows, or is synced, is still a file.
LEMMA GrownType ==
  ASSUME NEW f \in [Handle -> FileRecord], NEW h \in Handle,
         NEW len \in Int, NEW synced \in Int
  PROVE  [f EXCEPT ![h].len = len, ![h].synced = synced]
           \in [Handle -> FileRecord]
<1>1. f[h] \in FileRecord
  OBVIOUS
<1>2. [f[h] EXCEPT !.len = len, !.synced = synced] \in FileRecord
  BY <1>1 DEF FileRecord
<1> DEFINE r == [f[h] EXCEPT !.len = len, !.synced = synced]
<1>3. [f EXCEPT ![h].len = len, ![h].synced = synced] = [f EXCEPT ![h] = r]
  OBVIOUS
<1> HIDE DEF r
<1> QED
  BY <1>2, <1>3 DEF r

\* So is one whose life ends.
LEMMA EndedType ==
  ASSUME NEW f \in [Handle -> FileRecord], NEW h \in Handle, NEW synced \in Int
  PROVE  /\ [f EXCEPT ![h].status = "closed", ![h].synced = synced]
              \in [Handle -> FileRecord]
         /\ [f EXCEPT ![h].status = "broken"] \in [Handle -> FileRecord]
<1>1. f[h] \in FileRecord
  OBVIOUS
<1> DEFINE c == [f[h] EXCEPT !.status = "closed", !.synced = synced]
           b == [f[h] EXCEPT !.status = "broken"]
<1>2. c \in FileRecord /\ b \in FileRecord
  BY <1>1 DEF FileRecord
<1>3. /\ [f EXCEPT ![h].status = "closed", ![h].synced = synced]
            = [f EXCEPT ![h] = c]
      /\ [f EXCEPT ![h].status = "broken"] = [f EXCEPT ![h] = b]
  OBVIOUS
<1> HIDE DEF c, b
<1> QED
  BY <1>2, <1>3

\* What a block written to the old file leaves.
LEMMA WriteType ==
  ASSUME TypeOK, BufferWrite
  PROVE  files' \in [Handle -> FileRecord] /\ OldPart \in Int
<1>1. /\ file \in Handle /\ files \in [Handle -> FileRecord]
      /\ files[file].len \in Int /\ files[file].synced \in Int
  BY DEF BufferWrite, TypeOK, FileRecord
<1>2. OldPart \in Int
  BY CutType DEF BufferWrite
<1> DEFINE len == files[file].len + OldPart
           synced == IF SyncDue THEN len ELSE files[file].synced
<1>3. files' = [files EXCEPT ![file].len = len, ![file].synced = synced]
  BY DEF BufferWrite
<1>4. len \in Int /\ synced \in Int
  BY <1>1, <1>2
<1> HIDE DEF len, synced
<1> QED
  BY <1>1, <1>2, <1>3, <1>4, GrownType

\* What a write that fails leaves: any part of it.
LEMMA WriteFailsType ==
  ASSUME TypeOK, BufferWriteFails
  PROVE  files' \in [Handle -> FileRecord]
<1>1. /\ file \in Handle /\ files \in [Handle -> FileRecord]
      /\ files[file].len \in Int /\ files[file].synced \in Int
  BY DEF BufferWriteFails, TypeOK, FileRecord
<1>2. OldPart \in Int
  BY CutType DEF BufferWriteFails
<1>3. PICK n \in Int : files' = [files EXCEPT ![file].len = @ + n]
  BY <1>2 DEF BufferWriteFails
<1> DEFINE len == files[file].len + n
<1>4. files' = [files EXCEPT ![file].len = len,
                             ![file].synced = files[file].synced]
  BY <1>1, <1>3 DEF FileRecord
<1>5. len \in Int
  BY <1>1
<1> HIDE DEF len
<1> QED
  BY <1>1, <1>4, <1>5, GrownType

LEMMA BufferType == TypeOK /\ record_buffer => TypeOK'
<1> SUFFICES ASSUME TypeOK, record_buffer PROVE TypeOK'
  OBVIOUS
<1> USE ConstantsAssumption, IndexType
    DEF TypeOK, STATES, BUSY, recVars, startVars, cfgVars, closeVars, cardVars
<1>1. CASE BufferSkip
  BY <1>1 DEF BufferSkip, NextBlock
<1>2. CASE BufferFirstFile
  BY <1>2, CutType DEF BufferFirstFile
<1>3. CASE BufferWrite
  <2>1. OldPart \in Int /\ files' \in [Handle -> FileRecord]
    BY <1>3, WriteType
  <2>2. /\ UNCHANGED <<file, file_index, state, init, codec, start_time,
                       start_frame, prefix, saved, closeQueue, closing,
                       mounted, wq>>
        /\ last_sync' = IF SyncDue THEN now ELSE last_sync
        /\ busy' \in {"split", busy}
        /\ split' \in {CutAt, 0, split} /\ now' \in {now, now + BlockFrames}
    BY <1>3 DEF BufferWrite, NextBlock
  <2>3. last_sync' \in Int /\ split' \in Int /\ now' \in Int /\ busy' \in BUSY
    BY <2>1, <2>2 DEF CutAt
  <2> HIDE DEF BUSY, STATES
  <2> QED
    BY <2>1, <2>2, <2>3
<1>4. CASE BufferWriteFails
  BY <1>4, WriteFailsType DEF BufferWriteFails
<1>5. CASE BufferSplit
  BY <1>5, HandOverType DEF BufferSplit
<1>6. CASE BufferOpen
  <2>1. PICK h \in Handle :
          /\ files' = [files EXCEPT ![h] = Created(h, "open", Rest)]
          /\ file' = h
    BY <1>6 DEF BufferOpen
  <2>2. Created(h, "open", Rest) \in FileRecord
    BY CreatedType, RestType
  <2> QED
    BY <1>6, <2>1, <2>2 DEF BufferOpen, NextBlock
<1>7. CASE BufferOpenWriteFails
  <2>1. PICK h \in Handle, n \in 0 .. Rest - 1 :
          /\ files' = [files EXCEPT ![h] = Created(h, "open", n)]
          /\ file' = h
    BY <1>7 DEF BufferOpenWriteFails
  <2>2. Created(h, "open", n) \in FileRecord
    BY CreatedType, RestType
  <2> QED
    BY <1>7, <2>1, <2>2 DEF BufferOpenWriteFails
<1>8. CASE BufferOpenFails
  <2>1. files' \in [Handle -> FileRecord]
    <3>1. CASE UNCHANGED files
      BY <3>1
    <3>2. ASSUME NEW h \in Handle,
                 files' = [files EXCEPT ![h] = Created(h, "broken", 0)]
          PROVE  files' \in [Handle -> FileRecord]
      BY <3>2, CreatedType
    <3> QED
      BY <1>8, <3>1, <3>2 DEF BufferOpenFails
  <2> QED
    BY <1>8, <2>1 DEF BufferOpenFails, WavOpenFailed
<1>9. CASE BufferFail
  BY <1>9, HandOverType DEF BufferFail, NextBlock
<1> QED
  BY <1>1, <1>2, <1>3, <1>4, <1>5, <1>6, <1>7, <1>8, <1>9 DEF record_buffer

\* A loss of power or an orderly power-off leaves well-typed state behind.
LEMMA RebootType == TypeOK /\ Reboot => TypeOK'
<1> SUFFICES ASSUME TypeOK, Reboot PROVE TypeOK'
  OBVIOUS
<1> USE ConstantsAssumption, IndexType
<1>1. files' \in [Handle -> FileRecord]
  <2>1. ASSUME NEW h \in Handle
        PROVE  [files[h] EXCEPT !.status = "broken", !.len = files[h].synced]
                 \in FileRecord
    <3>1. files[h] \in FileRecord /\ files[h].synced \in Int
      BY DEF TypeOK, FileRecord
    <3> QED
      BY <3>1 DEF FileRecord
  <2> QED
    BY <2>1 DEF Reboot, TypeOK
<1>2. mounted' \in BOOLEAN
  BY DEF Reboot
<1>3. /\ init' \in BOOLEAN /\ codec' \in BOOLEAN
      /\ prefix' \in Prefix /\ saved' \in Prefix
      /\ file' \in Handle \cup {NoFile}
      /\ closing' \in Handle \cup {NoFile, Idle}
  BY DEF Reboot, TypeOK
<1>4. closeQueue' \in Seq(Handle \cup {NoFile})
  <2>1. closeQueue' = <<>>
    BY DEF Reboot
  <2>2. <<>> \in Seq(Handle \cup {NoFile})
    OBVIOUS
  <2> QED
    BY <2>1, <2>2
<1>5. /\ start_time' = 0 /\ file_index' = 0 /\ split' = 0
      /\ last_sync' = now /\ now' = now /\ start_frame' = now
      /\ busy' = "free" /\ state' = "STOPPED" /\ wq' = "idle"
  BY DEF Reboot
<1>6. 0 \in 0 .. TimeMod - 1 /\ now \in Int
  BY DEF TypeOK
<1> QED
  BY <1>1, <1>2, <1>3, <1>4, <1>5, <1>6 DEF TypeOK, STATES, BUSY

LEMMA NextType == TypeOK /\ [Next]_vars => TypeOK'
<1> SUFFICES ASSUME TypeOK, [Next]_vars PROVE TypeOK'
  OBVIOUS
<1> USE ConstantsAssumption, IndexType
    DEF STATES, BUSY, recVars, startVars, cfgVars, closeVars, cardVars
<1>1. CASE record_init
  BY <1>1, FindIndexType DEF record_init, TypeOK
<1>2. CASE record_buffer
  BY <1>2, BufferType
<1>3. CASE CloseThread
  <2>1. CASE CloseGet
    <3>1. /\ Head(closeQueue) \in Handle \cup {NoFile}
          /\ Tail(closeQueue) \in Seq(Handle \cup {NoFile})
      BY <2>1 DEF CloseGet, TypeOK
    <3> QED
      BY <2>1, <3>1 DEF CloseGet, TypeOK
  <2>2. CASE CloseDone
    <3>1. closing' \in Handle \cup {NoFile, Idle}
      BY <2>2 DEF CloseDone, CloseFailed
    <3>2. files' \in [Handle -> FileRecord]
      <4>1. CASE UNCHANGED files
        BY <4>1 DEF TypeOK
      <4>2. CASE /\ closing \in Handle
                 /\ files' = [files EXCEPT ![closing].status = "closed",
                               ![closing].synced = files[closing].len]
        <5>1. files \in [Handle -> FileRecord] /\ files[closing].len \in Int
          BY <4>2 DEF TypeOK, FileRecord
        <5> QED
          BY <4>2, <5>1, EndedType
      <4>3. CASE closing \in Handle /\ CloseFailed(closing)
        <5>1. files \in [Handle -> FileRecord] /\ files[closing].synced \in Int
          BY <4>3 DEF TypeOK, FileRecord
        <5> QED
          BY <4>3, <5>1, EndedType DEF CloseFailed
      <4> QED
        BY <2>2, <4>1, <4>2, <4>3 DEF CloseDone
    <3> QED
      BY <2>2, <3>1, <3>2 DEF CloseDone, TypeOK
  <2> QED
    BY <1>3, <2>1, <2>2 DEF CloseThread
<1>4. ASSUME NEW t \in now - Reach .. now + Reach, record_start(t)
      PROVE  TypeOK'
  <2>1. t \in Int /\ t % TimeMod \in 0 .. TimeMod - 1
    BY <1>4 DEF TypeOK
  <2> QED
    BY <1>4, <2>1 DEF record_start, AudioStarted, Timestamp, TypeOK
<1>5. CASE record_stop
  BY <1>5 DEF record_stop, Stopped, TypeOK
<1>6. CASE StopClose
  BY <1>6, HandOverType DEF StopClose, Stopped, TypeOK
<1>7. CASE record_shutdown
  BY <1>7 DEF record_shutdown, Stopped, Disabled, TypeOK
<1>8. CASE ShutdownClose
  BY <1>8, HandOverType DEF ShutdownClose, Stopped, Disabled, TypeOK
<1>9. CASE Reboot
  BY <1>9, RebootType
<1>10. ASSUME NEW p \in Prefix, record_set_file_name_prefix(p)
       PROVE  TypeOK'
  <2>1. file_index' \in Index
    BY <1>10, FindIndexType DEF record_set_file_name_prefix, TypeOK
  <2> QED
    BY <1>10, <2>1 DEF record_set_file_name_prefix, TypeOK
<1>11. CASE sd_card_mount
  BY <1>11 DEF sd_card_mount, TypeOK
<1>12. CASE record_card_inserted
  <2>1. file_index' \in Index
    BY <1>12, FindIndexType DEF record_card_inserted, TypeOK
  <2> QED
    BY <1>12, <2>1 DEF record_card_inserted, TypeOK
<1>13. CASE sd_card_removed
  <2>1. ASSUME NEW h \in Handle
        PROVE  [files[h] EXCEPT !.live = FALSE] \in FileRecord
    BY DEF TypeOK, FileRecord
  <2>2. files' \in [Handle -> FileRecord]
    BY <1>13, <2>1 DEF sd_card_removed
  <2>3. mounted' \in BOOLEAN
    BY <1>13 DEF sd_card_removed
  <2> QED
    BY <1>13, <2>2, <2>3 DEF sd_card_removed, TypeOK
<1>14. CASE UNCHANGED vars
  BY <1>14 DEF vars, TypeOK
<1> QED
  BY <1>1, <1>2, <1>3, <1>4, <1>5, <1>6, <1>7, <1>8, <1>9, <1>10, <1>11,
     <1>12, <1>13, <1>14
  DEF Next, Refused, power_off, PowerLoss

\* Every variable keeps its type, whatever interrupts the recorder.
THEOREM TypeCorrect == Spec => []TypeOK
<1> QED
  BY InitType, NextType, PTL DEF Spec

-----------------------------------------------------------------------------
(***************************************************************************)
(* Handles.  A step of the recorder does one of four things to them:       *)
(* nothing (KeepHandles), hand its file to the close thread (HandOver),    *)
(* create a file, or lose everything at a reboot; the close thread moves   *)
(* one handle on.                                                          *)
(***************************************************************************)
HandleInv == QueueBounded /\ OwnedIsFile /\ NoHandleLeak /\ NoDoubleClose

\* Nobody's handle changes hands and no file is opened or closed.
LEMMA KeepHandles ==
  ASSUME HandleInv, UNCHANGED <<file, closeQueue, closing>>, Owned' = Owned,
         \A h \in Handle : files'[h].status = files[h].status
  PROVE  HandleInv'
BY DEF HandleInv, QueueBounded, OwnedIsFile, NoHandleLeak, NoDoubleClose, Queued

\* A queue with room is empty, and then holds just the file put on it.
LEMMA HandedOver ==
  ASSUME TypeOK, HandToCloseThread
  PROVE  /\ Len(closeQueue) = 0
         /\ closeQueue' = <<file>>
<1>1. Len(closeQueue) = 0
  BY DEF HandToCloseThread, QueueHasRoom, TypeOK
<1>2. closeQueue = <<>>
  BY <1>1 DEF TypeOK
<1> QED
  BY <1>1, <1>2 DEF HandToCloseThread

\* The recorder's file, if it has one, moves to the close queue.
LEMMA HandOver ==
  ASSUME TypeOK, HandleInv, HandToCloseThread, UNCHANGED <<file, files>>,
         Owned \/ file = NoFile, ~Owned'
  PROVE  HandleInv'
<1>1. Len(closeQueue) = 0 /\ closeQueue' = <<file>> /\ closing' = closing
  BY HandedOver DEF HandToCloseThread
<1>2. \A h \in Handle : ~Queued(h)
  BY <1>1 DEF Queued
<1>3. \A h \in Handle : Queued(h)' <=> h = file
  BY <1>1 DEF Queued
<1>4. QueueBounded'
  BY <1>1 DEF QueueBounded
<1>5. NoHandleLeak'
  BY <1>1, <1>2, <1>3, ConstantsAssumption DEF HandleInv, NoHandleLeak
<1>6. NoDoubleClose'
  BY <1>1, <1>2, <1>3, ConstantsAssumption
  DEF HandleInv, NoHandleLeak, NoDoubleClose
<1> QED
  BY <1>4, <1>5, <1>6 DEF HandleInv, OwnedIsFile

\* A new file is opened while the recorder owns none.
LEMMA OpenFile ==
  ASSUME TypeOK, HandleInv, ~Owned, NEW h \in Handle, ~OnCard(h),
         NEW r, r.status = "open", files' = [files EXCEPT ![h] = r],
         file' = h, Owned', UNCHANGED closeVars
  PROVE  HandleInv'
<1>1. closeQueue' = closeQueue /\ closing' = closing
  BY DEF closeVars
<1>2. \A g \in Handle : Queued(g)' <=> Queued(g)
  BY <1>1 DEF Queued
<1>3. ~Queued(h) /\ closing # h
  BY DEF HandleInv, NoHandleLeak, OnCard
<1>4. files'[h].status = "open" /\ \A g \in Handle \ {h} : files'[g] = files[g]
  BY DEF TypeOK
<1>5. NoHandleLeak'
  BY <1>1, <1>2, <1>3, <1>4 DEF HandleInv, NoHandleLeak
<1>6. NoDoubleClose'
  BY <1>1, <1>2, <1>3 DEF HandleInv, NoDoubleClose
<1> QED
  BY <1>1, <1>5, <1>6 DEF HandleInv, OwnedIsFile, QueueBounded

\* A loss of power forgets every handle, and every open file is cut short.
LEMMA ForgetHandles ==
  ASSUME TypeOK, Reboot
  PROVE  HandleInv'
<1>1. /\ closeQueue' = <<>> /\ closing' = Idle /\ file' = NoFile
      /\ busy' = "free" /\ state' = "STOPPED"
  BY DEF Reboot
<1>2. ~Owned' /\ \A h \in Handle : ~Queued(h)' /\ closing' # h
  BY <1>1, ConstantsAssumption DEF Owned, FileStates, Queued
<1>3. \A h \in Handle : files'[h].status # "open"
  <2> SUFFICES ASSUME NEW h \in Handle PROVE files'[h].status # "open"
    OBVIOUS
  <2>1. files[h] \in FileRecord
    BY DEF TypeOK
  <2>2. CASE files[h].status = "open"
    BY <2>1, <2>2 DEF Reboot, FileRecord
  <2>3. CASE files[h].status # "open"
    BY <2>3 DEF Reboot
  <2> QED
    BY <2>2, <2>3
<1>4. QueueBounded'
  BY <1>1 DEF QueueBounded
<1> QED
  BY <1>1, <1>2, <1>3, <1>4
  DEF HandleInv, OwnedIsFile, NoHandleLeak, NoDoubleClose

LEMMA InitHandles == Init => HandleInv
<1> SUFFICES ASSUME Init PROVE HandleInv
  OBVIOUS
<1>1. /\ file = NoFile /\ busy = "free" /\ state = "STOPPED"
      /\ closeQueue = <<>> /\ closing = Idle
  BY DEF Init, Boot
<1>2. \A h \in Handle : files[h].status # "open"
  <2>1. CASE files = [h \in Handle |-> Unused]
    BY <2>1 DEF Unused
  <2>2. ASSUME NEW old \in Handle, NEW p \in Prefix, NEW i \in {0, 1},
               files = [[h \in Handle |-> Unused] EXCEPT
                          ![old] = [Unused EXCEPT !.status = "closed",
                                                  !.prefix = p, !.index = i]]
        PROVE  \A h \in Handle : files[h].status # "open"
    BY <2>2 DEF Unused
  <2> QED
    BY <2>1, <2>2 DEF Init
<1>3. ~Owned
  BY <1>1 DEF Owned, FileStates
<1>4. \A h \in Handle : ~Queued(h) /\ closing # h
  BY <1>1, ConstantsAssumption DEF Queued
<1> QED
  BY <1>1, <1>2, <1>3, <1>4
  DEF HandleInv, QueueBounded, OwnedIsFile, NoHandleLeak, NoDoubleClose

\* What a block does to the handles.
LEMMA BufferHandles == TypeOK /\ HandleInv /\ record_buffer => HandleInv'
<1> SUFFICES ASSUME TypeOK, HandleInv, record_buffer PROVE HandleInv'
  OBVIOUS
<1> USE DEF recVars, cardVars
<1>1. CASE BufferSkip
  BY <1>1, KeepHandles DEF BufferSkip, Owned, closeVars
<1>2. CASE BufferFirstFile
  BY <1>2, KeepHandles DEF BufferFirstFile, Owned, FileStates, closeVars
<1>3. CASE BufferWrite
  <2>1. \A h \in Handle : files'[h].status = files[h].status
    BY <1>3 DEF BufferWrite, TypeOK, FileRecord
  <2>2. Owned /\ Owned'
    BY <1>3 DEF BufferWrite, Owned, FileStates, NextBlock
  <2>3. UNCHANGED <<file, closeQueue, closing>>
    BY <1>3 DEF BufferWrite, closeVars
  <2> QED
    BY <2>1, <2>2, <2>3, KeepHandles
<1>4. CASE BufferWriteFails
  <2>1. \A h \in Handle : files'[h].status = files[h].status
    <3>1. PICK n \in Int : files' = [files EXCEPT ![file].len = @ + n]
      BY <1>4, CutType DEF BufferWriteFails
    <3> QED
      BY <3>1 DEF TypeOK, FileRecord
  <2>2. Owned /\ Owned'
    BY <1>4 DEF BufferWriteFails, Owned, FileStates
  <2>3. UNCHANGED <<file, closeQueue, closing>>
    BY <1>4 DEF BufferWriteFails, closeVars
  <2> QED
    BY <2>1, <2>2, <2>3, KeepHandles
<1>5. CASE BufferSplit
  BY <1>5, HandOver DEF BufferSplit, Owned
<1>6. CASE BufferOpen
  <2>1. ~Owned /\ Owned'
    BY <1>6 DEF BufferOpen, Owned, FileStates
  <2>2. PICK h \in Handle : /\ ~OnCard(h)
                            /\ files' = [files EXCEPT ![h] = Created(h, "open", Rest)]
                            /\ file' = h
    BY <1>6 DEF BufferOpen
  <2>3. Created(h, "open", Rest).status = "open"
    BY DEF Created
  <2> QED
    BY <1>6, <2>1, <2>2, <2>3, OpenFile DEF BufferOpen
<1>7. CASE BufferOpenWriteFails
  <2>1. PICK h \in Handle, n \in 0 .. Rest - 1 :
               /\ ~OnCard(h)
               /\ files' = [files EXCEPT ![h] = Created(h, "open", n)]
               /\ file' = h
    BY <1>7 DEF BufferOpenWriteFails
  <2>2. ~Owned /\ Owned'
    BY <1>7, <2>1 DEF BufferOpenWriteFails, Owned
  <2>3. Created(h, "open", n).status = "open"
    BY DEF Created
  <2> QED
    BY <1>7, <2>1, <2>2, <2>3, OpenFile DEF BufferOpenWriteFails
<1>8. CASE BufferOpenFails
  <2>1. ~Owned /\ ~Owned'
    BY <1>8, ConstantsAssumption DEF BufferOpenFails, WavOpenFailed, Owned
  <2>2. \A h \in Handle : files'[h].status = "open" <=> files[h].status = "open"
    <3>1. CASE UNCHANGED files
      BY <3>1
    <3>2. ASSUME NEW h \in Handle, ~OnCard(h),
                 files' = [files EXCEPT ![h] = Created(h, "broken", 0)]
          PROVE  \A g \in Handle : files'[g].status = "open" <=> files[g].status = "open"
      BY <3>2 DEF OnCard, Created, TypeOK
    <3> QED
      BY <1>8, <3>1, <3>2 DEF BufferOpenFails
  <2>3. closeQueue' = closeQueue /\ closing' = closing
    BY <1>8 DEF BufferOpenFails, closeVars
  <2>4. \A h \in Handle : Queued(h)' <=> Queued(h)
    BY <2>3 DEF Queued
  <2> QED
    BY <2>1, <2>2, <2>3, <2>4
    DEF HandleInv, QueueBounded, OwnedIsFile, NoHandleLeak, NoDoubleClose
<1>9. CASE BufferFail
  BY <1>9, HandOver DEF BufferFail, Owned, FileStates, NextBlock, TypeOK
<1> QED
  BY <1>1, <1>2, <1>3, <1>4, <1>5, <1>6, <1>7, <1>8, <1>9 DEF record_buffer

\* What the close thread does to them: it takes over the queued handle, and
\* gives it back.
LEMMA CloseHandles == TypeOK /\ HandleInv /\ CloseThread => HandleInv'
<1> SUFFICES ASSUME TypeOK, HandleInv, CloseThread PROVE HandleInv'
  OBVIOUS
<1>0. Owned' = Owned /\ file' = file
  BY DEF CloseThread, CloseGet, CloseDone, recVars, Owned
<1>1. CASE CloseGet
  <2>1. Len(closeQueue) = 1
    <3>1. closeQueue # <<>>
      BY <1>1 DEF CloseGet
    <3>2. closeQueue \in Seq(Handle \cup {NoFile})
      BY DEF TypeOK
    <3>3. Len(closeQueue) # 0
      <4> DEFINE S == Handle \cup {NoFile}
      <4>1. closeQueue \in Seq(S)
        BY <3>2
      <4> HIDE DEF S
      <4> QED
        BY <3>1, <4>1, EmptySeq
    <3>4. Len(closeQueue) \in Nat
      BY <3>2
    <3>5. Len(closeQueue) <= 1
      BY DEF HandleInv, QueueBounded
    <3> QED
      BY <3>3, <3>4, <3>5
  <2>2. closing' = closeQueue[1] /\ Len(closeQueue') = 0 /\ files' = files
    <3> DEFINE S == Handle \cup {NoFile}
    <3>1. closeQueue \in Seq(S)
      BY DEF TypeOK
    <3>2. closing' = Head(closeQueue) /\ closeQueue' = Tail(closeQueue)
          /\ files' = files /\ closeQueue # <<>>
      BY <1>1 DEF CloseGet
    <3> HIDE DEF S
    <3>3. Head(closeQueue) = closeQueue[1] /\ Len(Tail(closeQueue)) = 0
      BY <2>1, <3>1, <3>2, HeadTailProperties
    <3> QED
      BY <3>2, <3>3
  <2>3. \A h \in Handle : /\ Queued(h) <=> closing' = h
                          /\ ~Queued(h)'
                          /\ closing # h
    <3>1. \A h \in Handle : Queued(h) <=> closeQueue[1] = h
      BY <2>1 DEF Queued
    <3>2. \A h \in Handle : ~Queued(h)'
      BY <2>2 DEF Queued
    <3>3. closing = Idle
      BY <1>1 DEF CloseGet
    <3> QED
      BY <2>2, <3>1, <3>2, <3>3, ConstantsAssumption
  <2> QED
    BY <1>0, <2>2, <2>3
    DEF HandleInv, QueueBounded, OwnedIsFile, NoHandleLeak, NoDoubleClose
<1>2. CASE CloseDone
  <2>1. closing' = Idle /\ closeQueue' = closeQueue
    BY <1>2 DEF CloseDone, CloseFailed
  <2>2. \A h \in Handle : files'[h].status = "open"
                            <=> files[h].status = "open" /\ h # closing
    <3>1. CASE closing = NoFile /\ UNCHANGED files
      BY <3>1, ConstantsAssumption
    <3>2. CASE /\ closing \in Handle
               /\ files' = [files EXCEPT ![closing].status = "closed",
                                         ![closing].synced = files[closing].len]
      BY <3>2 DEF TypeOK, FileRecord
    <3>3. CASE closing \in Handle /\ CloseFailed(closing)
      BY <3>3 DEF CloseFailed, TypeOK, FileRecord
    <3> QED
      BY <1>2, <3>1, <3>2, <3>3 DEF CloseDone
  <2>3. \A h \in Handle : Queued(h)' <=> Queued(h)
    BY <2>1 DEF Queued
  <2> QED
    BY <1>0, <2>1, <2>2, <2>3, ConstantsAssumption
    DEF HandleInv, QueueBounded, OwnedIsFile, NoHandleLeak, NoDoubleClose
<1> QED
  BY <1>1, <1>2 DEF CloseThread

LEMMA NextHandles == TypeOK /\ HandleInv /\ [Next]_vars => HandleInv'
<1> SUFFICES ASSUME TypeOK, HandleInv, [Next]_vars PROVE HandleInv'
  OBVIOUS
<1> USE DEF recVars, startVars, cfgVars, cardVars
<1>1. CASE record_init
  BY <1>1, KeepHandles DEF record_init, Owned, closeVars
<1>2. CASE record_buffer
  BY <1>2, BufferHandles
<1>3. CASE CloseThread
  BY <1>3, CloseHandles
<1>4. ASSUME NEW t \in now - Reach .. now + Reach, record_start(t)
      PROVE  HandleInv'
  <2>1. Owned' = Owned
    BY <1>4 DEF record_start, Owned, FileStates, TypeOK, STATES
  <2> QED
    BY <1>4, <2>1, KeepHandles DEF record_start, closeVars
<1>5. CASE record_stop
  <2>1. Owned' = Owned
    BY <1>5 DEF record_stop, HasFile, Stopped, Owned, FileStates
  <2> QED
    BY <1>5, <2>1, KeepHandles DEF record_stop, closeVars
<1>6. CASE StopClose
  BY <1>6, HandOver DEF StopClose, Stopped, Owned, FileStates
<1>7. CASE record_shutdown
  <2>1. Owned' = Owned
    BY <1>7 DEF record_shutdown, HasFile, Stopped, Owned, FileStates
  <2> QED
    BY <1>7, <2>1, KeepHandles DEF record_shutdown, closeVars
<1>8. CASE ShutdownClose
  BY <1>8, HandOver DEF ShutdownClose, Stopped, Owned, FileStates
<1>9. CASE Reboot
  BY <1>9, ForgetHandles
<1>10. ASSUME NEW p \in Prefix, record_set_file_name_prefix(p)
       PROVE  HandleInv'
  BY <1>10, KeepHandles DEF record_set_file_name_prefix, Owned, closeVars
<1>11. CASE sd_card_mount
  BY <1>11, KeepHandles DEF sd_card_mount, Owned, closeVars
<1>12. CASE record_card_inserted
  BY <1>12, KeepHandles DEF record_card_inserted, Owned, closeVars
<1>13. CASE sd_card_removed
  <2>1. \A h \in Handle : files'[h].status = files[h].status
    BY <1>13 DEF sd_card_removed, TypeOK, FileRecord
  <2> QED
    BY <1>13, <2>1, KeepHandles DEF sd_card_removed, Owned, closeVars
<1>14. CASE UNCHANGED vars
  BY <1>14, KeepHandles DEF vars, Owned, closeVars
<1> QED
  BY <1>1, <1>2, <1>3, <1>4, <1>5, <1>6, <1>7, <1>8, <1>9, <1>10, <1>11,
     <1>12, <1>13, <1>14
  DEF Next, Refused, power_off, PowerLoss

LEMMA HandlesInvariant == Spec => []HandleInv
<1>1. Init => HandleInv
  BY InitHandles
<1>2. TypeOK /\ HandleInv /\ [Next]_vars => HandleInv'
  BY NextHandles
<1>3. Spec => []TypeOK
  BY TypeCorrect
<1> QED
  BY <1>1, <1>2, <1>3, PTL DEF Spec

\* Every open file has somebody who will close it, whatever splits, stops,
\* failures, card removals and reboots come together.
THEOREM HandlesNotLeaked == Spec => []NoHandleLeak
<1>1. HandleInv => NoHandleLeak
  BY DEF HandleInv
<1> QED
  BY <1>1, HandlesInvariant, PTL

\* Nobody holds a handle that somebody else has closed or is about to close.
THEOREM HandlesNotShared == Spec => []NoDoubleClose
<1>1. HandleInv => NoDoubleClose
  BY DEF HandleInv
<1> QED
  BY <1>1, HandlesInvariant, PTL

=============================================================================
