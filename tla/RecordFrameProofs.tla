------------------------- MODULE RecordFrameProofs -------------------------
(***************************************************************************)
(* More proofs about Record: how its flags agree, how many files are open, *)
(* that no frame is lost, what a loss of power costs, that no recording is *)
(* overwritten and that recordings start at the frame asked for.  They     *)
(* build on the invariants of RecordProofs.                                *)
(***************************************************************************)
EXTENDS RecordProofs

-----------------------------------------------------------------------------
(***************************************************************************)
(* Control.  Nothing is recorded, and no operation is under way, while the *)
(* recorder is not initialised; it is not when the supply is about to be   *)
(* cut; and a change of files belongs to a recording or to its start.      *)
(***************************************************************************)
QuietUnlessInit == ~init => state = "STOPPED" /\ busy = "free"

OffWhenPowerOff == wq = "poweroff" => ~init

ChangeIsActive == busy \in {"split", "open"} => state # "STOPPED"

ControlInv ==
  QuietUnlessInit /\ OffWhenPowerOff /\ ChangeIsActive /\ CodecFollowsState

LEMMA InitControl == Init => ControlInv
  BY DEF Init, Boot, ControlInv, QuietUnlessInit, OffWhenPowerOff,
         ChangeIsActive, CodecFollowsState

LEMMA BufferControl == ControlInv /\ record_buffer => ControlInv'
<1> SUFFICES ASSUME ControlInv, record_buffer PROVE ControlInv'
  OBVIOUS
<1> USE DEF ControlInv, QuietUnlessInit, OffWhenPowerOff, ChangeIsActive,
            CodecFollowsState, recVars, startVars, cfgVars, cardVars
<1>1. CASE BufferSkip
  BY <1>1 DEF BufferSkip
<1>2. CASE BufferFirstFile
  BY <1>2 DEF BufferFirstFile
<1>3. CASE BufferWrite
  <2>1. /\ init /\ state # "STOPPED" /\ busy' \in {"free", "split"}
        /\ UNCHANGED <<init, state, codec, wq>>
    BY <1>3 DEF BufferWrite
  <2> QED
    BY <2>1
<1>4. CASE BufferWriteFails
  BY <1>4 DEF BufferWriteFails
<1>5. CASE BufferSplit
  BY <1>5 DEF BufferSplit
<1>6. CASE BufferOpen
  BY <1>6 DEF BufferOpen
<1>7. CASE BufferOpenWriteFails
  BY <1>7 DEF BufferOpenWriteFails
<1>8. CASE BufferOpenFails
  BY <1>8 DEF BufferOpenFails
<1>9. CASE BufferFail
  BY <1>9 DEF BufferFail
<1> QED
  BY <1>1, <1>2, <1>3, <1>4, <1>5, <1>6, <1>7, <1>8, <1>9 DEF record_buffer

LEMMA NextControl == ControlInv /\ [Next]_vars => ControlInv'
<1> SUFFICES ASSUME ControlInv, [Next]_vars PROVE ControlInv'
  OBVIOUS
<1>1. CASE record_buffer
  BY <1>1, BufferControl
<1> USE DEF ControlInv, QuietUnlessInit, OffWhenPowerOff, ChangeIsActive,
            CodecFollowsState, recVars, startVars, cfgVars, cardVars
<1>2. CASE record_init
  BY <1>2 DEF record_init
<1>3. CASE CloseThread
  BY <1>3 DEF CloseThread, CloseGet, CloseDone
<1>4. ASSUME NEW t \in now - Reach .. now + Reach, record_start(t)
      PROVE  ControlInv'
  BY <1>4 DEF record_start, AudioStarted
<1>5. CASE record_stop
  BY <1>5 DEF record_stop, Stopped
<1>6. CASE StopClose
  BY <1>6 DEF StopClose, Stopped
<1>7. CASE record_shutdown
  BY <1>7 DEF record_shutdown, Stopped, Disabled
<1>8. CASE ShutdownClose
  BY <1>8 DEF ShutdownClose, Stopped, Disabled
<1>9. CASE Reboot
  BY <1>9 DEF Reboot
<1>10. ASSUME NEW p \in Prefix, record_set_file_name_prefix(p)
       PROVE  ControlInv'
  BY <1>10 DEF record_set_file_name_prefix
<1>11. CASE sd_card_mount
  BY <1>11 DEF sd_card_mount
<1>12. CASE record_card_inserted
  BY <1>12 DEF record_card_inserted
<1>13. CASE sd_card_removed
  BY <1>13 DEF sd_card_removed
<1>14. CASE UNCHANGED vars
  BY <1>14 DEF vars
<1> QED
  BY <1>1, <1>2, <1>3, <1>4, <1>5, <1>6, <1>7, <1>8, <1>9, <1>10, <1>11,
     <1>12, <1>13, <1>14
  DEF Next, Refused, power_off, PowerLoss

LEMMA ControlInvariant == Spec => []ControlInv
<1> QED
  BY InitControl, NextControl, PTL DEF Spec

\* The codec runs whenever something is recorded or waits to be, whatever
\* order commands, failing starts, errors and shutdowns come in.
THEOREM CodecRuns == Spec => []CodecFollowsState
<1>1. ControlInv => CodecFollowsState
  BY DEF ControlInv
<1> QED
  BY <1>1, ControlInvariant, PTL

\* After record_shutdown() nothing is recorded until the supply is cut: no
\* late START or block brings a file back.
THEOREM NothingAfterShutdown == Spec => []ShutdownIsFinal
<1>1. ControlInv => ShutdownIsFinal
  BY DEF ControlInv, QuietUnlessInit, OffWhenPowerOff, ShutdownIsFinal, Owned,
         FileStates
<1> QED
  BY <1>1, ControlInvariant, PTL

-----------------------------------------------------------------------------
(***************************************************************************)
(* Open files.  Each is the recorder's, the queued one or the closing one. *)
(***************************************************************************)
LEMMA OneMore ==
  ASSUME NEW S, NEW x, NEW n \in Nat, IsFiniteSet(S), Cardinality(S) <= n
  PROVE  IsFiniteSet(S \cup {x}) /\ Cardinality(S \cup {x}) <= n + 1
<1>1. Cardinality(S) \in Nat
  BY FS_CardinalityType
<1>2. /\ IsFiniteSet(S \cup {x})
      /\ \/ Cardinality(S \cup {x}) = Cardinality(S)
         \/ Cardinality(S \cup {x}) = Cardinality(S) + 1
  BY FS_AddElement
<1> QED
  BY <1>1, <1>2

LEMMA ThreeAtMost ==
  ASSUME NEW a, NEW b, NEW c
  PROVE  IsFiniteSet({a, b, c}) /\ Cardinality({a, b, c}) <= 3
<1> DEFINE one == {a}  two == one \cup {b}  three == two \cup {c}
<1>1. IsFiniteSet(one) /\ Cardinality(one) <= 1
  <2>1. IsFiniteSet(one)
    BY FS_Singleton
  <2>2. Cardinality(one) = 1
    BY FS_Singleton
  <2> QED
    BY <2>1, <2>2
<1>2. three = {a, b, c}
  <2>1. \A x : x \in three <=> x \in {a, b, c}
    OBVIOUS
  <2> HIDE DEF three
  <2> QED
    BY <2>1
<1> HIDE DEF one
<1>3. IsFiniteSet(two) /\ Cardinality(two) <= 1 + 1
  BY <1>1, OneMore
<1> HIDE DEF two
<1>4. IsFiniteSet(two) /\ Cardinality(two) <= 2
  BY <1>3
<1>5. IsFiniteSet(three) /\ Cardinality(three) <= 2 + 1
  BY <1>4, OneMore
<1> HIDE DEF three
<1> QED
  BY <1>2, <1>5

\* The recorder, its queue and the close thread never have more than three
\* files open, which CONFIG_FS_FATFS_NUM_FILES has to allow.
THEOREM FewFilesOpen == Spec => []OpenFilesBounded
<1>1. TypeOK /\ HandleInv => OpenFilesBounded
  <2> SUFFICES ASSUME TypeOK, HandleInv PROVE OpenFilesBounded
    OBVIOUS
  <2> DEFINE holders == {file, closeQueue[1], closing}
  <2>1. OpenHandles \subseteq holders
    <3> SUFFICES ASSUME NEW h \in Handle, files[h].status = "open"
                 PROVE  h \in holders
      BY DEF OpenHandles
    <3>1. (Owned /\ file = h) \/ Queued(h) \/ closing = h
      BY DEF HandleInv, NoHandleLeak
    <3>2. Len(closeQueue) \in Nat /\ Len(closeQueue) <= 1
      BY DEF TypeOK, HandleInv, QueueBounded
    <3>3. Queued(h) => closeQueue[1] = h
      BY <3>2 DEF Queued
    <3> QED
      BY <3>1, <3>3
  <2>2. IsFiniteSet(holders) /\ Cardinality(holders) <= 3
    BY ThreeAtMost
  <2>3. /\ IsFiniteSet(OpenHandles)
        /\ Cardinality(OpenHandles) <= Cardinality(holders)
    <3> HIDE DEF holders
    <3> QED
      BY <2>1, <2>2, FS_Subset
  <2>4. Cardinality(OpenHandles) \in Nat /\ Cardinality(holders) \in Nat
    <3> HIDE DEF holders
    <3> QED
      BY <2>2, <2>3, FS_CardinalityType
  <2> QED
    BY <2>2, <2>3, <2>4 DEF OpenFilesBounded
<1> QED
  BY <1>1, TypeCorrect, HandlesInvariant, PTL

-----------------------------------------------------------------------------
(***************************************************************************)
(* Frames.  NoFrameLost speaks of the time between two blocks; within one, *)
(* while files are being changed, the old file ends at the split.          *)
(***************************************************************************)
EndsAtSplit ==
  busy \in {"split", "open"} /\ state \in FileStates =>
    file \in Handle /\ files[file].first + files[file].len = now + split

FrameInv == NoFrameLost /\ EndsAtSplit

\* The recorder's file is one, between two blocks of a recording.
LEMMA RunningFile ==
  HandleInv /\ busy = "free" /\ state \in FileStates => file \in Handle
  BY DEF HandleInv, OwnedIsFile, Owned

\* A step that writes nothing and takes no part in a change of files.
LEMMA KeepFrames ==
  ASSUME HandleInv, FrameInv, UNCHANGED <<file, now, split>>,
         busy' \in {"free", "split", "open"} => busy' = busy,
         state' \in FileStates => state \in FileStates,
         \A h \in Handle : /\ files'[h].first = files[h].first
                           /\ files'[h].len = files[h].len
  PROVE  FrameInv'
  BY RunningFile DEF FrameInv, NoFrameLost, EndsAtSplit, FileStates

\* A step that ends the recording, or fails on the way.
LEMMA NoFrames ==
  ASSUME state' \notin FileStates \/ busy' \notin {"free", "split", "open"}
  PROVE  FrameInv'
  BY DEF FrameInv, NoFrameLost, EndsAtSplit, FileStates

LEMMA InitFrames == Init => FrameInv
  BY DEF Init, Boot, FrameInv, NoFrameLost, EndsAtSplit, FileStates

\* The part of the block that the old file takes.
LEMMA WriteFrames ==
  ASSUME TypeOK, HandleInv, FrameInv, BufferWrite
  PROVE  FrameInv'
<1>1. /\ busy = "free" /\ state \in FileStates /\ file \in Handle
      /\ file' = file /\ state' = state
  BY DEF BufferWrite, FileStates, recVars
<1>2. /\ files[file].first \in Int /\ files[file].len \in Int
      /\ OldPart \in Int /\ now \in Int
  BY <1>1, CutType DEF TypeOK, FileRecord
<1>3. files[file].first + files[file].len = now
  BY <1>1 DEF FrameInv, NoFrameLost
<1>4. /\ files'[file].first = files[file].first
      /\ files'[file].len = files[file].len + OldPart
  <2> DEFINE len == files[file].len + OldPart
  <2>1. files' = [files EXCEPT ![file].len = len,
                               ![file].synced = IF SyncDue THEN len ELSE @]
    BY DEF BufferWrite
  <2> HIDE DEF len
  <2>2. files'[file].first = files[file].first /\ files'[file].len = len
    BY <1>1, <2>1 DEF TypeOK, FileRecord
  <2> QED
    BY <2>2 DEF len
<1>5. files'[file].first + files'[file].len = now + OldPart
  BY <1>2, <1>3, <1>4
<1>6. CASE busy' = "split" /\ split' = CutAt /\ now' = now
  BY <1>1, <1>5, <1>6 DEF FrameInv, NoFrameLost, EndsAtSplit, CutAt
<1>7. CASE ~StartsInBlock /\ OldPart = SplitOffset /\ NextBlock /\ busy' = busy
  <2>1. OldPart = BlockFrames
    BY <1>7 DEF SplitOffset
  <2> QED
    BY <1>1, <1>5, <1>7, <2>1 DEF FrameInv, NoFrameLost, EndsAtSplit, NextBlock
<1> QED
  BY <1>6, <1>7 DEF BufferWrite

\* The rest of the block goes to a new file.
LEMMA OpenFrames ==
  ASSUME TypeOK, BufferOpen
  PROVE  FrameInv'
<1>1. PICK h \in Handle :
        files' = [files EXCEPT ![h] = Created(h, "open", Rest)] /\ file' = h
  BY DEF BufferOpen
<1>2. files'[h].first = now + split /\ files'[h].len = BlockFrames - split
  BY <1>1 DEF TypeOK, Created, Rest
<1>3. busy' = "free" /\ now' = now + BlockFrames
  BY DEF BufferOpen, NextBlock
<1>4. files'[file'].first + files'[file'].len = now'
  BY <1>1, <1>2, <1>3, ConstantsAssumption DEF TypeOK
<1> QED
  BY <1>3, <1>4 DEF FrameInv, NoFrameLost, EndsAtSplit

LEMMA BufferFrames ==
  TypeOK /\ HandleInv /\ ControlInv /\ FrameInv /\ record_buffer => FrameInv'
<1> SUFFICES ASSUME TypeOK, HandleInv, ControlInv, FrameInv, record_buffer
             PROVE  FrameInv'
  OBVIOUS
<1> USE DEF recVars
<1>1. CASE BufferSkip
  BY <1>1, NoFrames
  DEF BufferSkip, FileStates, ControlInv, QuietUnlessInit
<1>2. CASE BufferFirstFile
  BY <1>2, NoFrames DEF BufferFirstFile, FileStates
<1>3. CASE BufferWrite
  BY <1>3, WriteFrames
<1>4. CASE BufferWriteFails
  BY <1>4, NoFrames DEF BufferWriteFails
<1>5. CASE BufferSplit
  BY <1>5 DEF BufferSplit, FrameInv, NoFrameLost, EndsAtSplit
<1>6. CASE BufferOpen
  BY <1>6, OpenFrames
<1>7. CASE BufferOpenWriteFails
  BY <1>7, NoFrames DEF BufferOpenWriteFails
<1>8. CASE BufferOpenFails
  BY <1>8, NoFrames DEF BufferOpenFails
<1>9. CASE BufferFail
  BY <1>9, NoFrames DEF BufferFail, FileStates
<1> QED
  BY <1>1, <1>2, <1>3, <1>4, <1>5, <1>6, <1>7, <1>8, <1>9 DEF record_buffer

\* Closing a file changes neither its first frame nor its length.
LEMMA CloseKeepsFrames ==
  ASSUME TypeOK, CloseThread
  PROVE  \A h \in Handle : /\ files'[h].first = files[h].first
                           /\ files'[h].len = files[h].len
<1>1. CASE UNCHANGED files
  BY <1>1
<1>2. CASE /\ closing \in Handle
           /\ files' = [files EXCEPT ![closing].status = "closed",
                                     ![closing].synced = files[closing].len]
  BY <1>2 DEF TypeOK, FileRecord
<1>3. CASE closing \in Handle /\ CloseFailed(closing)
  BY <1>3 DEF CloseFailed, TypeOK, FileRecord
<1> QED
  BY <1>1, <1>2, <1>3 DEF CloseThread, CloseGet, CloseDone

LEMMA NextFrames ==
  TypeOK /\ HandleInv /\ ControlInv /\ FrameInv /\ [Next]_vars => FrameInv'
<1> SUFFICES ASSUME TypeOK, HandleInv, ControlInv, FrameInv, [Next]_vars
             PROVE  FrameInv'
  OBVIOUS
<1> USE DEF recVars
<1>1. CASE record_init
  BY <1>1, KeepFrames DEF record_init
<1>2. CASE record_buffer
  BY <1>2, BufferFrames
<1>3. CASE CloseThread
  <2>1. UNCHANGED <<file, state, now, split, busy>>
    BY <1>3 DEF CloseThread, CloseGet, CloseDone
  <2> QED
    BY <1>3, <2>1, CloseKeepsFrames, KeepFrames
<1>4. ASSUME NEW t \in now - Reach .. now + Reach, record_start(t)
      PROVE  FrameInv'
  <2>1. state' \in FileStates => state \in FileStates
    BY <1>4 DEF record_start, FileStates, TypeOK, STATES
  <2> QED
    BY <1>4, <2>1, KeepFrames DEF record_start
<1>5. CASE record_stop
  <2>1. CASE HasFile
    BY <1>5, <2>1, NoFrames DEF record_stop
  <2>2. CASE ~HasFile
    BY <1>5, <2>2, NoFrames DEF record_stop, Stopped, FileStates
  <2> QED
    BY <2>1, <2>2
<1>6. CASE StopClose \/ ShutdownClose
  BY <1>6, NoFrames DEF StopClose, ShutdownClose, Stopped, FileStates
<1>7. CASE record_shutdown
  <2>1. CASE HasFile
    BY <1>7, <2>1, NoFrames DEF record_shutdown
  <2>2. CASE ~HasFile
    BY <1>7, <2>2, NoFrames DEF record_shutdown, Stopped, FileStates
  <2> QED
    BY <2>1, <2>2
<1>8. CASE Reboot
  BY <1>8, NoFrames DEF Reboot, FileStates
<1>9. ASSUME NEW p \in Prefix, record_set_file_name_prefix(p)
      PROVE  FrameInv'
  BY <1>9, KeepFrames DEF record_set_file_name_prefix
<1>10. CASE sd_card_mount
  BY <1>10, KeepFrames DEF sd_card_mount
<1>11. CASE record_card_inserted
  BY <1>11, KeepFrames DEF record_card_inserted
<1>12. CASE sd_card_removed
  <2>1. \A h \in Handle : /\ files'[h].first = files[h].first
                          /\ files'[h].len = files[h].len
    BY <1>12 DEF sd_card_removed, TypeOK, FileRecord
  <2> QED
    BY <1>12, <2>1, KeepFrames DEF sd_card_removed
<1>13. CASE UNCHANGED vars
  BY <1>13, KeepFrames DEF vars
<1> QED
  BY <1>1, <1>2, <1>3, <1>4, <1>5, <1>6, <1>7, <1>8, <1>9, <1>10, <1>11,
     <1>12, <1>13
  DEF Next, Refused, power_off, PowerLoss

LEMMA FramesInvariant == Spec => []FrameInv
<1> QED
  BY InitFrames, NextFrames, TypeCorrect, HandlesInvariant, ControlInvariant,
     PTL DEF Spec

\* Between two blocks the open file ends with the last frame delivered, for
\* every block size, file size, sync interval and wrap of the time.
THEOREM EveryFrameStored == Spec => []NoFrameLost
<1>1. FrameInv => NoFrameLost
  BY DEF FrameInv
<1> QED
  BY <1>1, FramesInvariant, PTL

\* A file that follows another of the same recording starts where that one
\* ended.
THEOREM FilesContiguous == Spec => Contiguous
<1> DEFINE Joins ==
      busy = "open" /\ busy' # "open" /\ state \in FileStates /\ file' \in Handle
        => files'[file'].first = files[file].first + files[file].len
<1>1. TypeOK /\ FrameInv /\ [Next]_vars => [Joins]_vars
  <2> SUFFICES ASSUME TypeOK, FrameInv, [Next]_vars, busy = "open",
                      busy' # "open", state \in FileStates, file' \in Handle
               PROVE  files'[file'].first = files[file].first + files[file].len
    OBVIOUS
  <2> USE DEF recVars
  <2>1. files[file].first + files[file].len = now + split
    BY DEF FrameInv, EndsAtSplit
  <2>2. BufferOpen \/ BufferOpenWriteFails \/ BufferOpenFails \/ Reboot
    <3>1. record_buffer \/ CloseThread \/ Reboot \/ sd_card_mount
            \/ sd_card_removed \/ UNCHANGED vars
      BY DEF Next, record_init, record_start, record_stop, StopClose, Refused,
             record_shutdown, ShutdownClose, power_off, PowerLoss,
             record_set_file_name_prefix, record_card_inserted
    <3>2. CASE record_buffer
      BY <3>2 DEF record_buffer, BufferSkip, BufferFirstFile, BufferWrite,
                  BufferWriteFails, BufferSplit, BufferFail
    <3>3. CASE CloseThread \/ sd_card_mount \/ sd_card_removed \/ UNCHANGED vars
      BY <3>3 DEF CloseThread, CloseGet, CloseDone, sd_card_mount,
                  sd_card_removed, vars
    <3> QED
      BY <3>1, <3>2, <3>3
  <2>3. CASE BufferOpen
    <3>1. PICK h \in Handle :
            files' = [files EXCEPT ![h] = Created(h, "open", Rest)] /\ file' = h
      BY <2>3 DEF BufferOpen
    <3> QED
      BY <2>1, <3>1 DEF TypeOK, Created
  <2>4. CASE BufferOpenWriteFails
    <3>1. PICK h \in Handle, n \in 0 .. Rest - 1 :
            files' = [files EXCEPT ![h] = Created(h, "open", n)] /\ file' = h
      BY <2>4 DEF BufferOpenWriteFails
    <3> QED
      BY <2>1, <3>1 DEF TypeOK, Created
  <2>5. CASE BufferOpenFails \/ Reboot
    BY <2>5, ConstantsAssumption DEF BufferOpenFails, WavOpenFailed, Reboot
  <2> QED
    BY <2>2, <2>3, <2>4, <2>5
<1>2. Spec => [][Joins]_vars
  BY <1>1, TypeCorrect, FramesInvariant, PTL DEF Spec
<1> QED
  BY <1>2 DEF Contiguous

-----------------------------------------------------------------------------
(***************************************************************************)
(* What a loss of power costs.  LossBounded is inductive once it is known  *)
(* where a block may be cut and, for the time between two blocks, how long *)
(* ago the file was synced: what is not synced was written since.          *)
(***************************************************************************)
SplitInBlock == split \in 0 .. BlockFrames

SyncedLately ==
  busy = "free" /\ state \in FileStates =>
    /\ files[file].len - files[file].synced <= now - last_sync
    /\ now - last_sync <= SyncFrames + BlockFrames

LossInv == LossBounded /\ SplitInBlock /\ SyncedLately

\* The recorder's file is an open one, between two blocks of a recording.
LEMMA RunningFileIsOpen ==
  HandleInv /\ busy = "free" /\ state \in FileStates =>
    file \in Handle /\ files[file].status = "open"
  BY DEF HandleInv, OwnedIsFile, NoHandleLeak, Owned

\* A file that takes a block, or what is left of one, is not written past
\* its end, and a cut is within the block.
LEMMA CutRange ==
  ASSUME TypeOK, file \in Handle, files[file].len <= MaxData
  PROVE  /\ OldPart \in 0 .. BlockFrames
         /\ files[file].len + OldPart <= MaxData
<1>1. SplitOffset \in 0 .. BlockFrames
  <2>1. WaitTime \in Int /\ WaitTime >= 0
    <3>1. WaitTime \in Int
      BY CutType
    <3> QED
      BY <3>1 DEF WaitTime
  <2> QED
    BY <2>1, ConstantsAssumption DEF SplitOffset, StartsInBlock
<1>2. files[file].len \in Int
  BY DEF TypeOK, FileRecord
<1> QED
  BY <1>1, <1>2, ConstantsAssumption DEF OldPart, Least

\* A step that writes nothing.
LEMMA KeepLoss ==
  ASSUME TypeOK, HandleInv', LossInv, UNCHANGED <<file, now, split, last_sync>>,
         busy' = "free" /\ state' \in FileStates =>
           busy = "free" /\ state \in FileStates,
         \A h \in Handle :
           files'[h].status = "open" =>
             /\ files[h].status = "open"
             /\ files'[h].len = files[h].len
             /\ files'[h].synced = files[h].synced
  PROVE  LossInv'
<1>1. LossBounded'
  BY DEF LossInv, LossBounded, OpenHandles
<1>2. SplitInBlock'
  BY DEF LossInv, SplitInBlock
<1>3. SyncedLately'
  <2> SUFFICES ASSUME busy' = "free", state' \in FileStates
               PROVE  /\ files'[file].len - files'[file].synced <= now - last_sync
                      /\ now - last_sync <= SyncFrames + BlockFrames
    BY DEF SyncedLately
  <2>1. file \in Handle /\ files'[file].status = "open"
    BY RunningFileIsOpen DEF HandleInv, OwnedIsFile, NoHandleLeak, Owned
  <2> QED
    BY <2>1 DEF LossInv, SyncedLately
<1> QED
  BY <1>1, <1>2, <1>3 DEF LossInv

\* A step that writes nothing and after which nothing is recorded.
LEMMA EndLoss ==
  ASSUME LossInv, busy' # "free" \/ state' \notin FileStates,
         split' \in 0 .. BlockFrames,
         \A h \in Handle :
           files'[h].status = "open" =>
             /\ files[h].status = "open"
             /\ files'[h].len = files[h].len
             /\ files'[h].synced = files[h].synced
  PROVE  LossInv'
  BY DEF LossInv, LossBounded, OpenHandles, SplitInBlock, SyncedLately

\* No file is open on the card yet, or any more.
LEMMA NoneOpen ==
  ASSUME \A h \in Handle : files[h].status # "open", split = 0,
         state = "STOPPED"
  PROVE  LossInv
  BY ConstantsAssumption
  DEF LossInv, LossBounded, OpenHandles, SplitInBlock, SyncedLately, FileStates

LEMMA InitLoss == Init => LossInv
<1> SUFFICES ASSUME Init PROVE LossInv
  OBVIOUS
<1>1. \A h \in Handle : files[h].status # "open"
  <2>1. CASE files = [h \in Handle |-> Unused]
    BY <2>1 DEF Unused
  <2>2. ASSUME NEW old \in Handle, NEW p \in Prefix, NEW i \in {0, 1},
               files = [[h \in Handle |-> Unused] EXCEPT
                          ![old] = [Unused EXCEPT !.status = "closed",
                                                  !.prefix = p, !.index = i]]
        PROVE  \A h \in Handle : files[h].status # "open"
    BY <2>2 DEF Unused
  <2> QED
    BY <2>1, <2>2 DEF Init
<1> QED
  BY <1>1, NoneOpen DEF Init, Boot

\* The part of the block that the old file takes is synced with the rest of
\* it, or the last sync was less than the interval ago.
LEMMA WriteLoss ==
  ASSUME TypeOK, HandleInv, LossInv, BufferWrite
  PROVE  LossInv'
<1>1. /\ busy = "free" /\ state \in FileStates /\ file' = file /\ state' = state
      /\ file \in Handle /\ files[file].status = "open"
  BY RunningFileIsOpen DEF BufferWrite, FileStates, recVars
<1> DEFINE len == files[file].len  synced == files[file].synced
           len1 == len + OldPart
           synced1 == IF SyncDue THEN len1 ELSE synced
<1>2. /\ len \in Int /\ synced \in Int /\ now \in Int /\ last_sync \in Int
  BY <1>1 DEF TypeOK, FileRecord
<1>3. /\ synced <= len /\ len <= MaxData
      /\ len - synced <= now - last_sync
      /\ now - last_sync <= SyncFrames + BlockFrames
  BY <1>1 DEF LossInv, LossBounded, OpenHandles, SyncedLately
<1>4. OldPart \in 0 .. BlockFrames /\ len1 <= MaxData
  BY <1>1, <1>3, CutRange
<1>5. /\ files'[file].len = len1 /\ files'[file].synced = synced1
      /\ \A h \in Handle \ {file} : files'[h] = files[h]
      /\ \A h \in Handle : files'[h].status = files[h].status
  <2>1. files' = [files EXCEPT ![file].len = len1, ![file].synced = synced1]
    BY DEF BufferWrite
  <2> HIDE DEF len1, synced1
  <2> QED
    BY <1>1, <2>1 DEF TypeOK, FileRecord
<1>6. /\ synced1 <= len1
      /\ len1 - synced1 <= SyncFrames + BlockFrames
      /\ len1 - synced1 <= (now + BlockFrames) - last_sync'
      /\ (now + BlockFrames) - last_sync' <= SyncFrames + BlockFrames
  <2>1. CASE SyncDue
    <3>1. synced1 = len1 /\ last_sync' = now
      BY <2>1 DEF BufferWrite
    <3> QED
      BY <1>2, <1>4, <3>1, ConstantsAssumption
  <2>2. CASE ~SyncDue
    <3>1. synced1 = synced /\ last_sync' = last_sync
      BY <2>2 DEF BufferWrite
    <3>2. now - last_sync < SyncFrames
      BY <1>2, <2>2, ConstantsAssumption DEF SyncDue
    <3> QED
      BY <1>2, <1>3, <1>4, <3>1, <3>2, ConstantsAssumption
  <2> QED
    BY <2>1, <2>2
<1>7. LossBounded'
  <2> SUFFICES ASSUME NEW h \in Handle, files'[h].status = "open"
               PROVE  /\ files'[h].synced <= files'[h].len
                      /\ files'[h].len <= MaxData
                      /\ files'[h].len - files'[h].synced
                           <= SyncFrames + 2 * BlockFrames
    BY DEF LossBounded, OpenHandles
  <2>1. CASE h = file
    <3>1. len1 - synced1 \in Int
      BY <1>2, <1>4
    <3> HIDE DEF len1, synced1
    <3> QED
      BY <1>4, <1>5, <1>6, <2>1, <3>1, ConstantsAssumption
  <2>2. CASE h # file
    BY <1>5, <2>2 DEF LossInv, LossBounded, OpenHandles
  <2> QED
    BY <2>1, <2>2
<1>8. CASE busy' = "split" /\ split' = CutAt
  BY <1>4, <1>7, <1>8 DEF LossInv, SplitInBlock, SyncedLately, CutAt
<1>9. CASE NextBlock
  <2>1. SplitInBlock'
    BY <1>9, ConstantsAssumption DEF NextBlock, SplitInBlock
  <2>2. SyncedLately'
    <3>1. now' = now + BlockFrames
      BY <1>9 DEF NextBlock
    <3>2. /\ files'[file'].len - files'[file'].synced <= now' - last_sync'
          /\ now' - last_sync' <= SyncFrames + BlockFrames
      <4> HIDE DEF len1, synced1
      <4>1. files'[file'].len = len1 /\ files'[file'].synced = synced1
        BY <1>1, <1>5
      <4>2. now' - last_sync' = (now + BlockFrames) - last_sync'
        BY <3>1
      <4>3. files'[file'].len - files'[file'].synced = len1 - synced1
        BY <4>1
      <4> QED
        BY <1>6, <4>2, <4>3
    <3> QED
      BY <3>2 DEF SyncedLately
  <2> QED
    BY <1>7, <2>1, <2>2 DEF LossInv
<1> QED
  BY <1>8, <1>9 DEF BufferWrite

\* A write that fails leaves at most one block more that is not synced.
LEMMA WriteFailsLoss ==
  ASSUME TypeOK, HandleInv, LossInv, BufferWriteFails
  PROVE  LossInv'
<1>1. /\ busy = "free" /\ state \in FileStates /\ busy' = "fail"
      /\ file \in Handle /\ files[file].status = "open" /\ split' = split
  BY RunningFileIsOpen DEF BufferWriteFails, FileStates
<1>2. /\ files[file].len \in Int /\ files[file].synced \in Int
      /\ now \in Int /\ last_sync \in Int
  BY <1>1 DEF TypeOK, FileRecord
<1>3. /\ files[file].synced <= files[file].len /\ files[file].len <= MaxData
      /\ files[file].len - files[file].synced <= SyncFrames + BlockFrames
  BY <1>1, <1>2, ConstantsAssumption
  DEF LossInv, LossBounded, OpenHandles, SyncedLately
<1>4. OldPart \in 0 .. BlockFrames /\ files[file].len + OldPart <= MaxData
  BY <1>1, <1>3, CutRange
<1>5. PICK n \in 0 .. OldPart : files' = [files EXCEPT ![file].len = @ + n]
  BY <1>4 DEF BufferWriteFails
<1>6. /\ files'[file].len = files[file].len + n
      /\ files'[file].synced = files[file].synced
      /\ \A h \in Handle \ {file} : files'[h] = files[h]
  BY <1>1, <1>5 DEF TypeOK, FileRecord
<1>7. LossBounded'
  <2> SUFFICES ASSUME NEW h \in Handle, files'[h].status = "open"
               PROVE  /\ files'[h].synced <= files'[h].len
                      /\ files'[h].len <= MaxData
                      /\ files'[h].len - files'[h].synced
                           <= SyncFrames + 2 * BlockFrames
    BY DEF LossBounded, OpenHandles
  <2>1. CASE h = file
    BY <1>2, <1>3, <1>4, <1>5, <1>6, <2>1, ConstantsAssumption
  <2>2. CASE h # file
    BY <1>6, <2>2 DEF LossInv, LossBounded, OpenHandles
  <2> QED
    BY <2>1, <2>2
<1> QED
  BY <1>1, <1>7 DEF LossInv, SplitInBlock, SyncedLately

\* A new file holds no more than the rest of a block.
LEMMA OpenLoss ==
  ASSUME TypeOK, LossInv, NEW h \in Handle, NEW n \in Int, 0 <= n, n <= Rest,
         files' = [files EXCEPT ![h] = Created(h, "open", n)], file' = h,
         last_sync' = now,
         \/ busy' = "free" /\ NextBlock
         \/ busy' = "fail" /\ split' = split
  PROVE  LossInv'
<1>1. n <= BlockFrames /\ now \in Int
  BY ConstantsAssumption DEF Rest, LossInv, SplitInBlock, TypeOK
<1>2. /\ files'[h].len = n /\ files'[h].synced = 0
      /\ \A g \in Handle \ {h} : files'[g] = files[g]
  BY DEF TypeOK, Created
<1>3. LossBounded'
  <2> SUFFICES ASSUME NEW g \in Handle, files'[g].status = "open"
               PROVE  /\ files'[g].synced <= files'[g].len
                      /\ files'[g].len <= MaxData
                      /\ files'[g].len - files'[g].synced
                           <= SyncFrames + 2 * BlockFrames
    BY DEF LossBounded, OpenHandles
  <2>1. CASE g = h
    BY <1>1, <1>2, <2>1, ConstantsAssumption
  <2>2. CASE g # h
    BY <1>2, <2>2 DEF LossInv, LossBounded, OpenHandles
  <2> QED
    BY <2>1, <2>2
<1>4. CASE busy' = "free" /\ NextBlock
  BY <1>1, <1>2, <1>3, <1>4, ConstantsAssumption
  DEF LossInv, SplitInBlock, SyncedLately, NextBlock
<1>5. CASE busy' = "fail" /\ split' = split
  BY <1>3, <1>5 DEF LossInv, SplitInBlock, SyncedLately
<1> QED
  BY <1>4, <1>5

LEMMA BufferLoss ==
  TypeOK /\ HandleInv /\ HandleInv' /\ ControlInv /\ LossInv /\ record_buffer
    => LossInv'
<1> SUFFICES ASSUME TypeOK, HandleInv, HandleInv', ControlInv, LossInv,
                    record_buffer
             PROVE  LossInv'
  OBVIOUS
<1> USE DEF recVars
<1>0. \A h \in Handle : files[h].status = "open" => files[h].status = "open"
  OBVIOUS
<1>1. CASE BufferSkip
  <2>1. state' \notin FileStates /\ split' = 0
    BY <1>1 DEF BufferSkip, FileStates, ControlInv, QuietUnlessInit, NextBlock
  <2>2. split' \in 0 .. BlockFrames
    BY <2>1, ConstantsAssumption
  <2> QED
    BY <1>1, <2>1, <2>2, EndLoss DEF BufferSkip
<1>2. CASE BufferFirstFile
  <2>1. SplitOffset \in 0 .. BlockFrames
    <3>1. WaitTime \in Int
      BY CutType
    <3> QED
      BY <1>2, <3>1, ConstantsAssumption
      DEF BufferFirstFile, SplitOffset, StartsInBlock, WaitTime
  <2> QED
    BY <1>2, <2>1, EndLoss DEF BufferFirstFile
<1>3. CASE BufferWrite
  BY <1>3, WriteLoss
<1>4. CASE BufferWriteFails
  BY <1>4, WriteFailsLoss
<1>5. CASE BufferSplit
  <2>1. split' \in 0 .. BlockFrames /\ busy' = "open"
    BY <1>5 DEF BufferSplit, LossInv, SplitInBlock
  <2> QED
    BY <1>5, <2>1, EndLoss DEF BufferSplit
<1>6. CASE BufferOpen
  <2>1. PICK h \in Handle :
          files' = [files EXCEPT ![h] = Created(h, "open", Rest)] /\ file' = h
    BY <1>6 DEF BufferOpen
  <2>2. Rest \in Int /\ 0 <= Rest /\ Rest <= Rest
    BY ConstantsAssumption DEF Rest, LossInv, SplitInBlock
  <2> QED
    BY <1>6, <2>1, <2>2, OpenLoss DEF BufferOpen
<1>7. CASE BufferOpenWriteFails
  <2>1. PICK h \in Handle, n \in 0 .. Rest - 1 :
          files' = [files EXCEPT ![h] = Created(h, "open", n)] /\ file' = h
    BY <1>7 DEF BufferOpenWriteFails
  <2>2. n \in Int /\ 0 <= n /\ n <= Rest
    BY RestType
  <2> QED
    BY <1>7, <2>1, <2>2, OpenLoss DEF BufferOpenWriteFails
<1>8. CASE BufferOpenFails
  <2>1. \A h \in Handle : files'[h].status = "open" =>
          /\ files[h].status = "open"
          /\ files'[h].len = files[h].len
          /\ files'[h].synced = files[h].synced
    <3>1. CASE UNCHANGED files
      BY <3>1
    <3>2. ASSUME NEW h \in Handle, ~OnCard(h),
                 files' = [files EXCEPT ![h] = Created(h, "broken", 0)]
          PROVE  \A g \in Handle : files'[g].status = "open" =>
                   files'[g] = files[g]
      BY <3>2 DEF Created, TypeOK
    <3> QED
      BY <1>8, <3>1, <3>2 DEF BufferOpenFails
  <2>2. busy' = "fail" /\ split' \in 0 .. BlockFrames
    BY <1>8 DEF BufferOpenFails, LossInv, SplitInBlock
  <2> QED
    BY <2>1, <2>2, EndLoss
<1>9. CASE BufferFail
  <2>1. state' \notin FileStates /\ split' \in 0 .. BlockFrames
    BY <1>9, ConstantsAssumption DEF BufferFail, NextBlock, FileStates
  <2> QED
    BY <1>9, <2>1, EndLoss DEF BufferFail
<1> QED
  BY <1>1, <1>2, <1>3, <1>4, <1>5, <1>6, <1>7, <1>8, <1>9 DEF record_buffer

\* The close thread only ends files.
LEMMA CloseLoss ==
  TypeOK /\ HandleInv' /\ LossInv /\ CloseThread => LossInv'
<1> SUFFICES ASSUME TypeOK, HandleInv', LossInv, CloseThread PROVE LossInv'
  OBVIOUS
<1>1. \A h \in Handle : files'[h].status = "open" => files'[h] = files[h]
  <2>1. CASE UNCHANGED files
    BY <2>1
  <2>2. CASE /\ closing \in Handle
             /\ files' = [files EXCEPT ![closing].status = "closed",
                                       ![closing].synced = files[closing].len]
    BY <2>2 DEF TypeOK, FileRecord
  <2>3. CASE closing \in Handle /\ CloseFailed(closing)
    BY <2>3 DEF CloseFailed, TypeOK, FileRecord
  <2> QED
    BY <2>1, <2>2, <2>3 DEF CloseThread, CloseGet, CloseDone
<1>2. UNCHANGED <<file, now, split, last_sync, busy, state>>
  BY DEF CloseThread, CloseGet, CloseDone, recVars
<1> QED
  BY <1>1, <1>2, KeepLoss

LEMMA NextLoss ==
  TypeOK /\ HandleInv /\ HandleInv' /\ ControlInv /\ LossInv /\ [Next]_vars
    => LossInv'
<1> SUFFICES ASSUME TypeOK, HandleInv, HandleInv', ControlInv, LossInv,
                    [Next]_vars
             PROVE  LossInv'
  OBVIOUS
<1> USE DEF recVars
<1>0. split \in 0 .. BlockFrames
  BY DEF LossInv, SplitInBlock
<1>1. CASE record_init
  BY <1>1, KeepLoss DEF record_init
<1>2. CASE record_buffer
  BY <1>2, BufferLoss
<1>3. CASE CloseThread
  BY <1>3, CloseLoss
<1>4. ASSUME NEW t \in now - Reach .. now + Reach, record_start(t)
      PROVE  LossInv'
  <2>1. state' \in FileStates => state \in FileStates
    BY <1>4 DEF record_start, FileStates, TypeOK, STATES
  <2> QED
    BY <1>4, <2>1, KeepLoss DEF record_start
<1>5. CASE record_stop
  <2>1. busy' # "free" \/ state' \notin FileStates
    BY <1>5 DEF record_stop, Stopped, FileStates
  <2> QED
    BY <1>0, <1>5, <2>1, EndLoss DEF record_stop
<1>6. CASE StopClose \/ ShutdownClose
  <2>1. state' \notin FileStates
    BY <1>6 DEF StopClose, ShutdownClose, Stopped, FileStates
  <2> QED
    BY <1>0, <1>6, <2>1, EndLoss DEF StopClose, ShutdownClose
<1>7. CASE record_shutdown
  <2>1. busy' # "free" \/ state' \notin FileStates
    BY <1>7 DEF record_shutdown, Stopped, FileStates
  <2> QED
    BY <1>0, <1>7, <2>1, EndLoss DEF record_shutdown
<1>8. CASE Reboot
  <2>1. \A h \in Handle : files'[h].status # "open"
    <3> SUFFICES ASSUME NEW h \in Handle PROVE files'[h].status # "open"
      OBVIOUS
    <3>1. files[h] \in FileRecord
      BY DEF TypeOK
    <3>2. CASE files[h].status = "open"
      BY <1>8, <3>1, <3>2 DEF Reboot, FileRecord
    <3>3. CASE files[h].status # "open"
      BY <1>8, <3>3 DEF Reboot
    <3> QED
      BY <3>2, <3>3
  <2>2. split' = 0 /\ state' = "STOPPED"
    BY <1>8 DEF Reboot
  <2>3. 0 \in 0 .. BlockFrames
    BY ConstantsAssumption
  <2> QED
    BY <2>1, <2>2, <2>3, EndLoss DEF FileStates
<1>9. ASSUME NEW p \in Prefix, record_set_file_name_prefix(p)
      PROVE  LossInv'
  BY <1>9, KeepLoss DEF record_set_file_name_prefix
<1>10. CASE sd_card_mount
  BY <1>10, KeepLoss DEF sd_card_mount
<1>11. CASE record_card_inserted
  BY <1>11, KeepLoss DEF record_card_inserted
<1>12. CASE sd_card_removed
  <2>1. \A h \in Handle : /\ files'[h].status = files[h].status
                          /\ files'[h].len = files[h].len
                          /\ files'[h].synced = files[h].synced
    BY <1>12 DEF sd_card_removed, TypeOK, FileRecord
  <2> QED
    BY <1>12, <2>1, KeepLoss DEF sd_card_removed
<1>13. CASE UNCHANGED vars
  BY <1>13, KeepLoss DEF vars
<1> QED
  BY <1>1, <1>2, <1>3, <1>4, <1>5, <1>6, <1>7, <1>8, <1>9, <1>10, <1>11,
     <1>12, <1>13
  DEF Next, Refused, power_off, PowerLoss

\* A loss of power costs an open file at most the sync interval and two
\* blocks, whatever was split, what failed and when STARTs came.
THEOREM PowerLossCostsLittle == Spec => []LossBounded
<1>1. LossInv => LossBounded
  BY DEF LossInv
<1>2. Spec => []LossInv
  BY InitLoss, NextLoss, TypeCorrect, HandlesInvariant, ControlInvariant,
     PTL DEF Spec
<1> QED
  BY <1>1, <1>2, PTL

-----------------------------------------------------------------------------
(***************************************************************************)
(* File names.  While the card stays in its slot, can be read and the      *)
(* prefix can be saved, file_index is past every file of the prefix; only  *)
(* a file whose header could not be written has that very name.  Without   *)
(* one of the three the index may be that of another prefix, of another    *)
(* card or of part of the directory.                                       *)
(***************************************************************************)
CardStays == {"card", "scan", "save"} \cap Faults = {}

Hollow(h) == files[h].status = "broken" /\ files[h].len = 0

IndexIsNext ==
  init => \A h \in Handle :
            OnCard(h) /\ files[h].prefix = prefix =>
              files[h].index < file_index
                \/ (files[h].index = file_index /\ Hollow(h))

NamesInv == mounted /\ IndexIsNext /\ NoRecordingTruncated

\* No file is created: every file keeps its name, and a hollow one is hollow
\* for good.
NoneCreated ==
  \A h \in Handle :
    OnCard(h)' => /\ OnCard(h)
                  /\ files'[h].prefix = files[h].prefix
                  /\ files'[h].index = files[h].index
                  /\ Hollow(h) => Hollow(h)'

LEMMA SameNames ==
  ASSUME NamesInv, NoneCreated
  PROVE  NoRecordingTruncated'
<1> SUFFICES ASSUME NEW g \in Handle, NEW h \in Handle, g # h,
                    OnCard(g)', OnCard(h)',
                    files'[g].prefix = files'[h].prefix,
                    files'[g].index = files'[h].index
             PROVE  Hollow(g)' \/ Hollow(h)'
  BY DEF NoRecordingTruncated, Hollow
<1>1. Hollow(g) \/ Hollow(h)
  BY DEF NamesInv, NoRecordingTruncated, NoneCreated, Hollow
<1> QED
  BY <1>1 DEF NoneCreated

\* A step that neither creates a file nor looks for the next index.
LEMMA KeepNames ==
  ASSUME NamesInv, NoneCreated, mounted',
         init' => init /\ UNCHANGED <<prefix, file_index>>
  PROVE  NamesInv'
<1>1. IndexIsNext'
  BY DEF NamesInv, NoneCreated, IndexIsNext
<1> QED
  BY <1>1, SameNames DEF NamesInv

\* A scan of the directory finds the index past every file of the prefix.
LEMMA ScanNames ==
  ASSUME CardStays, NamesInv, NEW p \in Prefix, FindNextFileIndex(p),
         prefix' = p, UNCHANGED <<files, mounted>>
  PROVE  NamesInv'
<1>1. file_index' \in NextFree(Indexes(p))
  BY DEF CardStays, NamesInv, FindNextFileIndex
<1>2. \A i \in Indexes(p) : i < file_index'
  BY <1>1 DEF NextFree
<1>3. IndexIsNext'
  BY <1>2 DEF IndexIsNext, Indexes, OnCard
<1>4. NoRecordingTruncated'
  BY DEF NamesInv, NoRecordingTruncated, OnCard
<1> QED
  BY <1>3, <1>4 DEF NamesInv

\* A file is created with the next index, which is then used up unless the
\* file is hollow.
LEMMA CreateNames ==
  ASSUME TypeOK, NamesInv, init, NEW h \in Handle, ~OnCard(h),
         NEW s \in {"open", "broken"}, NEW n \in Int,
         files' = [files EXCEPT ![h] = Created(h, s, n)],
         UNCHANGED <<init, prefix, mounted>>,
         \/ file_index' = file_index + 1
         \/ file_index' = file_index /\ s = "broken" /\ n = 0
  PROVE  NamesInv'
<1>1. /\ files'[h].status = s /\ files'[h].len = n
      /\ files'[h].prefix = prefix /\ files'[h].index = file_index
  BY DEF TypeOK, Created
<1>2. \A g \in Handle \ {h} : files'[g] = files[g]
  BY DEF TypeOK
<1>3. \A g \in Handle : files[g].index \in Int
  <2> SUFFICES ASSUME NEW g \in Handle PROVE files[g].index \in Int
    OBVIOUS
  <2>1. files[g] \in FileRecord
    BY DEF TypeOK
  <2>2. files[g].index \in Index
    BY <2>1 DEF FileRecord
  <2>3. files[g].index \in Nat
    BY <2>2, IndexType
  <2> QED
    BY <2>3
<1>4. file_index \in Int
  BY IndexType DEF TypeOK
<1>5. ASSUME NEW g \in Handle, g # h, OnCard(g), files[g].prefix = prefix
      PROVE  files[g].index < file_index
               \/ (files[g].index = file_index /\ Hollow(g))
  BY <1>5 DEF NamesInv, IndexIsNext
<1>6. IndexIsNext'
  <2> SUFFICES ASSUME NEW g \in Handle, OnCard(g)', files'[g].prefix = prefix
               PROVE  files'[g].index < file_index'
                        \/ (files'[g].index = file_index' /\ Hollow(g)')
    BY DEF IndexIsNext
  <2>1. CASE g = h
    BY <1>1, <1>4, <2>1 DEF Hollow
  <2>2. CASE g # h
    <3>1. OnCard(g) /\ files[g].prefix = prefix /\ (Hollow(g) => Hollow(g)')
      BY <1>2, <2>2 DEF OnCard, Hollow
    <3>2. files[g].index < file_index
            \/ (files[g].index = file_index /\ Hollow(g))
      BY <1>5, <2>2, <3>1
    <3> QED
      BY <1>2, <1>3, <1>4, <2>2, <3>1, <3>2
  <2> QED
    BY <2>1, <2>2
<1>7. NoRecordingTruncated'
  <2> SUFFICES ASSUME NEW f \in Handle, NEW g \in Handle, f # g,
                      OnCard(f)', OnCard(g)',
                      files'[f].prefix = files'[g].prefix,
                      files'[f].index = files'[g].index
               PROVE  Hollow(f)' \/ Hollow(g)'
    BY DEF NoRecordingTruncated, Hollow
  <2>1. CASE f # h /\ g # h
    <3>1. Hollow(f) \/ Hollow(g)
      BY <1>2, <2>1 DEF NamesInv, NoRecordingTruncated, OnCard, Hollow
    <3> QED
      BY <1>2, <2>1, <3>1 DEF Hollow
  <2>2. ASSUME NEW x \in Handle, x # h, OnCard(x)', files'[x].prefix = prefix,
               files'[x].index = file_index
        PROVE  Hollow(x)'
    <3>1. OnCard(x) /\ files[x].prefix = prefix /\ files[x].index = file_index
      BY <1>2, <2>2 DEF OnCard
    <3>2. Hollow(x)
      BY <1>4, <1>5, <2>2, <3>1
    <3> QED
      BY <1>2, <2>2, <3>2 DEF Hollow
  <2>3. CASE f = h
    BY <1>1, <2>2, <2>3
  <2>4. CASE g = h
    BY <1>1, <2>2, <2>4
  <2> QED
    BY <2>1, <2>3, <2>4
<1> QED
  BY <1>6, <1>7 DEF NamesInv

\* Writing to the recorder's file, which is open, hollows nothing.
LEMMA WriteNames ==
  ASSUME TypeOK, HandleInv, NamesInv, BufferWrite \/ BufferWriteFails
  PROVE  NamesInv'
<1>1. file \in Handle /\ files[file].status = "open"
  BY RunningFileIsOpen DEF BufferWrite, BufferWriteFails, FileStates
<1>2. PICK len, synced :
        files' = [files EXCEPT ![file].len = len, ![file].synced = synced]
  <2>1. CASE BufferWrite
    BY <2>1 DEF BufferWrite
  <2>2. CASE BufferWriteFails
    <3>1. PICK n : files' = [files EXCEPT ![file].len = @ + n]
      BY <2>2 DEF BufferWriteFails
    <3>2. files' = [files EXCEPT ![file].len = files[file].len + n,
                                 ![file].synced = files[file].synced]
      BY <1>1, <3>1 DEF TypeOK, FileRecord
    <3> QED
      BY <3>2
  <2> QED
    BY <2>1, <2>2
<1>3. NoneCreated
  BY <1>1, <1>2 DEF NoneCreated, OnCard, Hollow, TypeOK, FileRecord
<1>4. mounted' /\ UNCHANGED <<init, prefix, file_index>>
  BY DEF BufferWrite, BufferWriteFails, NamesInv, cfgVars, cardVars, recVars
<1> QED
  BY <1>3, <1>4, KeepNames

LEMMA BufferNames ==
  TypeOK /\ HandleInv /\ ControlInv /\ NamesInv /\ record_buffer => NamesInv'
<1> SUFFICES ASSUME TypeOK, HandleInv, ControlInv, NamesInv, record_buffer
             PROVE  NamesInv'
  OBVIOUS
<1> USE DEF recVars, cfgVars, cardVars
<1>0. UNCHANGED files => NoneCreated
  BY DEF NoneCreated, OnCard, Hollow
<1>1. CASE BufferSkip \/ BufferFirstFile \/ BufferSplit \/ BufferFail
  <2>1. UNCHANGED <<files, init, prefix, file_index, mounted>>
    BY <1>1 DEF BufferSkip, BufferFirstFile, BufferSplit, BufferFail
  <2> QED
    BY <1>0, <2>1, KeepNames DEF NamesInv
<1>2. CASE BufferWrite \/ BufferWriteFails
  BY <1>2, WriteNames
<1>3. CASE BufferOpen
  <2>1. PICK h \in Handle :
          ~OnCard(h) /\ files' = [files EXCEPT ![h] = Created(h, "open", Rest)]
    BY <1>3 DEF BufferOpen
  <2>2. init
    BY <1>3 DEF BufferOpen, ControlInv, QuietUnlessInit
  <2>3. file_index' = file_index + 1 /\ UNCHANGED <<init, prefix, mounted>>
    BY <1>3 DEF BufferOpen
  <2>4. PICK s \in {"open", "broken"}, n \in Int : s = "open" /\ n = Rest
    BY RestType
  <2> QED
    BY <2>1, <2>2, <2>3, <2>4, CreateNames
<1>4. CASE BufferOpenWriteFails
  <2>1. PICK h \in Handle, n \in 0 .. Rest - 1 :
          ~OnCard(h) /\ files' = [files EXCEPT ![h] = Created(h, "open", n)]
    BY <1>4 DEF BufferOpenWriteFails
  <2>2. n \in Int
    BY RestType
  <2>3. init
    BY <1>4 DEF BufferOpenWriteFails, ControlInv, QuietUnlessInit
  <2>4. file_index' = file_index + 1 /\ UNCHANGED <<init, prefix, mounted>>
    BY <1>4 DEF BufferOpenWriteFails
  <2>5. PICK s \in {"open", "broken"} : s = "open"
    OBVIOUS
  <2> QED
    BY <2>1, <2>2, <2>3, <2>4, <2>5, CreateNames
<1>5. CASE BufferOpenFails
  <2>1. UNCHANGED <<init, prefix, mounted, file_index>> /\ init
    BY <1>5 DEF BufferOpenFails, ControlInv, QuietUnlessInit
  <2>2. CASE UNCHANGED files
    BY <1>0, <2>1, <2>2, KeepNames DEF NamesInv
  <2>3. ASSUME NEW h \in Handle, ~OnCard(h),
               files' = [files EXCEPT ![h] = Created(h, "broken", 0)]
        PROVE  NamesInv'
    <3>1. PICK s \in {"open", "broken"}, n \in Int : s = "broken" /\ n = 0
      OBVIOUS
    <3> QED
      BY <2>1, <2>3, <3>1, CreateNames
  <2> QED
    BY <1>5, <2>2, <2>3 DEF BufferOpenFails
<1> QED
  BY <1>1, <1>2, <1>3, <1>4, <1>5 DEF record_buffer

LEMMA InitNames == CardStays /\ Init => NamesInv
<1> SUFFICES ASSUME CardStays, Init PROVE NamesInv
  OBVIOUS
<1>1. mounted /\ ~init
  BY DEF CardStays, Init, Boot
<1>2. NoRecordingTruncated
  <2>1. CASE files = [h \in Handle |-> Unused]
    BY <2>1 DEF NoRecordingTruncated, OnCard, Unused
  <2>2. ASSUME NEW old \in Handle, NEW p \in Prefix, NEW i \in {0, 1},
               files = [[h \in Handle |-> Unused] EXCEPT
                          ![old] = [Unused EXCEPT !.status = "closed",
                                                  !.prefix = p, !.index = i]]
        PROVE  NoRecordingTruncated
    BY <2>2 DEF NoRecordingTruncated, OnCard, Unused
  <2> QED
    BY <2>1, <2>2 DEF Init
<1> QED
  BY <1>1, <1>2 DEF NamesInv, IndexIsNext

\* Neither closing a file nor losing the supply renames or un-hollows one:
\* both only touch files that are open.
LEMMA EndNames ==
  ASSUME TypeOK, HandleInv, CloseThread \/ Reboot
  PROVE  NoneCreated
<1> SUFFICES ASSUME NEW h \in Handle, OnCard(h)'
             PROVE  /\ OnCard(h)
                    /\ files'[h].prefix = files[h].prefix
                    /\ files'[h].index = files[h].index
                    /\ Hollow(h) => Hollow(h)'
  BY DEF NoneCreated
<1>1. files[h] \in FileRecord
  BY DEF TypeOK
<1>2. CASE files'[h] = files[h]
  BY <1>2 DEF OnCard, Hollow
<1>3. CASE /\ files[h].status = "open"
           /\ files'[h].prefix = files[h].prefix
           /\ files'[h].index = files[h].index
  BY <1>3 DEF OnCard, Hollow
<1>4. CASE CloseThread
  <2>1. CASE UNCHANGED files
    BY <1>2, <2>1
  <2>2. CASE /\ closing \in Handle
             /\ files' = [files EXCEPT ![closing].status = "closed",
                                       ![closing].synced = files[closing].len]
    <3>1. files[closing].status = "open"
      BY <2>2 DEF HandleInv, NoHandleLeak
    <3> QED
      BY <1>1, <1>2, <1>3, <2>2, <3>1 DEF TypeOK, FileRecord
  <2>3. CASE closing \in Handle /\ CloseFailed(closing)
    <3>1. files[closing].status = "open"
      BY <2>3 DEF HandleInv, NoHandleLeak
    <3> QED
      BY <1>1, <1>2, <1>3, <2>3, <3>1 DEF TypeOK, FileRecord, CloseFailed
  <2> QED
    BY <1>4, <2>1, <2>2, <2>3 DEF CloseThread, CloseGet, CloseDone
<1>5. CASE Reboot
  <2>1. CASE files[h].status = "open"
    BY <1>1, <1>3, <1>5, <2>1 DEF Reboot, FileRecord
  <2>2. CASE files[h].status # "open"
    BY <1>2, <1>5, <2>2 DEF Reboot
  <2> QED
    BY <2>1, <2>2
<1> QED
  BY <1>4, <1>5

LEMMA NextNames ==
  CardStays /\ TypeOK /\ HandleInv /\ ControlInv /\ NamesInv /\ [Next]_vars
    => NamesInv'
<1> SUFFICES ASSUME CardStays, TypeOK, HandleInv, ControlInv, NamesInv,
                    [Next]_vars
             PROVE  NamesInv'
  OBVIOUS
<1> USE DEF recVars, cfgVars, cardVars
<1>0. /\ UNCHANGED files => NoneCreated
      /\ mounted
  BY DEF NoneCreated, OnCard, Hollow, NamesInv
<1>1. CASE record_init
  BY <1>1, ScanNames DEF record_init, TypeOK
<1>2. CASE record_buffer
  BY <1>2, BufferNames
<1>3. CASE CloseThread
  <2>1. UNCHANGED <<init, prefix, file_index, mounted>>
    BY <1>3 DEF CloseThread, CloseGet, CloseDone
  <2> QED
    BY <1>0, <1>3, <2>1, EndNames, KeepNames
<1>4. ASSUME NEW t \in now - Reach .. now + Reach, record_start(t)
      PROVE  NamesInv'
  BY <1>0, <1>4, KeepNames DEF record_start
<1>5. CASE record_stop \/ StopClose
  <2>1. UNCHANGED <<files, init, prefix, file_index, mounted>>
    BY <1>5 DEF record_stop, StopClose
  <2> QED
    BY <1>0, <2>1, KeepNames
<1>6. CASE record_shutdown \/ ShutdownClose
  <2>1. init' => init
    BY <1>6 DEF record_shutdown, ShutdownClose, Disabled
  <2> QED
    BY <1>0, <1>6, <2>1, KeepNames DEF record_shutdown, ShutdownClose
<1>7. CASE Reboot
  <2>1. ~init' /\ mounted'
    BY <1>7 DEF Reboot, CardStays
  <2> QED
    BY <1>7, <2>1, EndNames, KeepNames
<1>8. ASSUME NEW p \in Prefix, record_set_file_name_prefix(p)
      PROVE  NamesInv'
  <2>1. FindNextFileIndex(p) /\ prefix' = p /\ UNCHANGED <<files, mounted>>
    BY <1>8 DEF record_set_file_name_prefix, CardStays
  <2> QED
    BY <2>1, ScanNames
<1>9. CASE sd_card_mount \/ sd_card_removed
  BY <1>9 DEF sd_card_mount, sd_card_removed, CardStays
<1>10. CASE record_card_inserted
  <2>1. CASE init
    BY <1>10, <2>1, ScanNames DEF record_card_inserted, TypeOK
  <2>2. CASE ~init
    BY <1>0, <1>10, <2>2, KeepNames DEF record_card_inserted
  <2> QED
    BY <2>1, <2>2
<1>11. CASE UNCHANGED vars
  BY <1>0, <1>11, KeepNames DEF vars
<1> QED
  BY <1>1, <1>2, <1>3, <1>4, <1>5, <1>6, <1>7, <1>8, <1>9, <1>10, <1>11
  DEF Next, Refused, power_off, PowerLoss

\* While the card stays in its slot, no file is created with the name of a
\* recording, whatever prefixes are set, files fail to open and supplies are
\* cut.
THEOREM RecordingsAreKept == CardStays => (Spec => []NoRecordingTruncated)
<1> SUFFICES ASSUME CardStays PROVE Spec => []NoRecordingTruncated
  OBVIOUS
<1>1. Init => NamesInv
  BY InitNames
<1>2. TypeOK /\ HandleInv /\ ControlInv /\ NamesInv /\ [Next]_vars => NamesInv'
  BY NextNames
<1>3. NamesInv => NoRecordingTruncated
  BY DEF NamesInv
<1> QED
  BY <1>1, <1>2, <1>3, TypeCorrect, HandlesInvariant, ControlInvariant, PTL
  DEF Spec

-----------------------------------------------------------------------------
(***************************************************************************)
(* Starting on time.  The code sees the time modulo TimeMod; the signed    *)
(* difference is the true one as long as the frame asked for is less than  *)
(* half the range away (TimeFits), which it is between two blocks: a START *)
(* asks for a frame within Reach, and no block passes that frame without   *)
(* the file beginning in it.                                               *)
(***************************************************************************)
TimeFits == 2 * Reach < TimeMod

Waiting == {"WAITING_START", "WAITING_NEW_FILE"}

\* How far into the block at `now' the frame asked for is.
Wait == IF start_frame < now THEN 0 ELSE start_frame - now

StartIsKnown == state \in Waiting => start_time = Timestamp(start_frame)

StartIsNear ==
  busy = "free" /\ state \in Waiting =>
    start_frame \in now - Reach .. now + Reach

\* A pending START is not lost to a change of files, full files aside.
CutAtStart ==
  busy \in {"split", "open"} /\ state \in Waiting =>
    \/ split = Wait
    \/ state = "WAITING_NEW_FILE" /\ file \in Handle /\ files[file].len = MaxData

StartInv == StartIsKnown /\ StartIsNear /\ CutAtStart

\* A number is a multiple of the modulus and its remainder.
LEMMA Remainder ==
  ASSUME NEW m \in Nat \ {0}, NEW a \in Int
  PROVE  /\ (a % m) \in 0 .. m - 1
         /\ \E q \in Int : a = m * q + (a % m)
<1>1. m \in Int /\ m > 0
  OBVIOUS
<1> QED
  BY <1>1

\* There is one such remainder.
LEMMA RemainderUnique ==
  ASSUME NEW m \in Nat \ {0}, NEW a \in Int, NEW q \in Int, NEW r \in 0 .. m - 1,
         a = m * q + r
  PROVE  a % m = r
OBVIOUS

\* Two times less than half the range apart differ by what SDiff says.
LEMMA SignedDifference ==
  ASSUME NEW s \in Int, NEW n \in Int, TimeFits,
         s - n <= Reach, n - s <= Reach
  PROVE  SDiff(Timestamp(s), n % TimeMod) = s - n
<1>1. PICK m \in Nat \ {0} : m = TimeMod
  BY ConstantsAssumption
<1>2. PICK a \in 0 .. m - 1 : a = s % m
  BY Remainder
<1>3. PICK b \in 0 .. m - 1 : b = n % m
  BY Remainder
<1>4. PICK x \in Int, c \in Int : x = s - n /\ c = a - b
  <2>1. s - n \in Int /\ a - b \in Int
    OBVIOUS
  <2> QED
    BY <2>1
<1>5. PICK d \in 0 .. m - 1 : d = c % m
  BY Remainder
<1>6. x % m = d
  <2>1. PICK i \in Int : s = m * i + a
    BY <1>2, Remainder
  <2>2. PICK j \in Int : n = m * j + b
    BY <1>3, Remainder
  <2>3. PICK k \in Int : c = m * k + d
    BY <1>5, Remainder
  <2>4. PICK q \in Int : q = i - j + k
    OBVIOUS
  <2>5. x = m * q + d
    BY <1>4, <2>1, <2>2, <2>3, <2>4
  <2> QED
    BY <2>5, RemainderUnique
<1>7. 2 * x < m /\ 2 * (0 - x) < m
  BY <1>1, <1>4, ConstantsAssumption DEF TimeFits
<1>8. CASE x >= 0
  <2>1. x \in 0 .. m - 1 /\ x = m * 0 + x
    BY <1>7, <1>8
  <2>2. d = x
    BY <1>6, <2>1, RemainderUnique
  <2> QED
    BY <1>1, <1>2, <1>3, <1>4, <1>5, <1>7, <2>2 DEF SDiff, Timestamp
<1>9. CASE x < 0
  <2>1. PICK y \in 0 .. m - 1 : y = x + m
    BY <1>7, <1>9
  <2>2. x = m * (0 - 1) + y
    BY <2>1
  <2>3. d = y
    BY <1>6, <2>2, RemainderUnique
  <2>4. ~(2 * d < m) /\ d - m = x
    BY <1>7, <2>1, <2>3
  <2> QED
    BY <1>1, <1>2, <1>3, <1>4, <1>5, <2>4 DEF SDiff, Timestamp
<1> QED
  BY <1>8, <1>9

\* Between two blocks wait_time is the wait.
LEMMA WaitIsKnown ==
  ASSUME TimeFits, TypeOK, StartInv, busy = "free", state \in Waiting
  PROVE  WaitTime = Wait /\ Wait \in Nat
<1>1. /\ start_frame \in Int /\ now \in Int
      /\ start_frame - now <= Reach /\ now - start_frame <= Reach
      /\ start_time = Timestamp(start_frame)
  BY ConstantsAssumption DEF TypeOK, StartInv, StartIsNear, StartIsKnown
<1>2. SDiff(start_time, now % TimeMod) = start_frame - now
  BY <1>1, SignedDifference
<1>3. start_frame - now < 0 <=> start_frame < now
  BY <1>1
<1> QED
  BY <1>1, <1>2, <1>3 DEF WaitTime, Wait

\* A step in which the recorder's part of the time and of the cut stays.
LEMMA KeepStart ==
  ASSUME StartInv, UNCHANGED <<now, split, start_time, start_frame, file>>,
         state' \in Waiting => state' = state,
         busy' \in {"free", "split", "open"} => busy' = busy,
         \A h \in Handle : files'[h].len = files[h].len
  PROVE  StartInv'
<1>1. StartIsKnown'
  BY DEF StartInv, StartIsKnown, Timestamp
<1>2. StartIsNear'
  BY DEF StartInv, StartIsNear
<1>3. CutAtStart'
  <2> SUFFICES ASSUME busy' \in {"split", "open"}, state' \in Waiting
               PROVE  \/ split' = Wait'
                      \/ /\ state' = "WAITING_NEW_FILE"
                         /\ file' \in Handle /\ files'[file'].len = MaxData
    BY DEF CutAtStart
  <2> QED
    BY DEF StartInv, CutAtStart, Wait
<1> QED
  BY <1>1, <1>2, <1>3 DEF StartInv

\* Nothing waits for its start.
LEMMA NoStart ==
  ASSUME state' \notin Waiting
  PROVE  StartInv'
  BY DEF StartInv, StartIsKnown, StartIsNear, CutAtStart

\* The block ends before the frame asked for.
LEMMA SkipStart ==
  ASSUME TimeFits, TypeOK, StartInv, busy = "free", state \in Waiting,
         ~StartsInBlock, NextBlock,
         UNCHANGED <<state, busy, start_time, start_frame>>
  PROVE  StartInv'
<1>1. WaitTime = Wait /\ Wait \in Nat
  BY WaitIsKnown
<1>2. ~(Wait <= BlockFrames)
  BY <1>1 DEF StartsInBlock, Waiting
<1>3. start_frame \in Int /\ now \in Int /\ now' = now + BlockFrames
  BY DEF TypeOK, NextBlock
<1>4. start_frame > now' /\ start_frame <= now + Reach
  BY <1>1, <1>2, <1>3, ConstantsAssumption DEF Wait, StartInv, StartIsNear
<1>5. start_frame \in now' - Reach .. now' + Reach
  BY <1>3, <1>4, ConstantsAssumption
<1>6. StartIsKnown' /\ StartIsNear'
  BY <1>5 DEF StartInv, StartIsKnown, StartIsNear, Timestamp
<1> QED
  BY <1>6 DEF StartInv, CutAtStart

\* The old file takes the block up to the frame asked for, or is full.
LEMMA WriteStart ==
  ASSUME TimeFits, TypeOK, HandleInv, StartInv, BufferWrite, state \in Waiting
  PROVE  StartInv'
<1>1. /\ busy = "free" /\ state = "WAITING_NEW_FILE" /\ state' = state
      /\ file' = file /\ file \in Handle
      /\ UNCHANGED <<start_time, start_frame>>
  BY DEF BufferWrite, Waiting, recVars, startVars
<1>2. CASE ~(StartsInBlock \/ OldPart # SplitOffset)
  BY <1>1, <1>2, SkipStart DEF BufferWrite
<1>3. CASE StartsInBlock \/ OldPart # SplitOffset
  <2>1. busy' = "split" /\ split' = OldPart /\ now' = now
    BY <1>3 DEF BufferWrite, CutAt
  <2>2. CASE OldPart = SplitOffset
    <3>1. OldPart = Wait
      BY <1>1, <1>3, <2>2, WaitIsKnown DEF SplitOffset
    <3> QED
      BY <1>1, <2>1, <3>1
      DEF StartInv, StartIsKnown, StartIsNear, CutAtStart, Wait, Timestamp
  <2>3. CASE OldPart # SplitOffset
    <3>1. files[file].len \in Int /\ OldPart = MaxData - files[file].len
      BY <1>1, <2>3 DEF OldPart, Least, TypeOK, FileRecord
    <3>2. files'[file].len = files[file].len + OldPart
      BY <1>1 DEF BufferWrite, TypeOK, FileRecord
    <3>3. files'[file].len = MaxData
      BY <3>1, <3>2, ConstantsAssumption
    <3> QED
      BY <1>1, <2>1, <3>3
      DEF StartInv, StartIsKnown, StartIsNear, CutAtStart, Timestamp
  <2> QED
    BY <2>2, <2>3
<1> QED
  BY <1>2, <1>3

LEMMA BufferStart ==
  TimeFits /\ TypeOK /\ HandleInv /\ ControlInv /\ StartInv /\ record_buffer
    => StartInv'
<1> SUFFICES ASSUME TimeFits, TypeOK, HandleInv, ControlInv, StartInv,
                    record_buffer
             PROVE  StartInv'
  OBVIOUS
<1> USE DEF recVars, startVars
<1>0. CASE state' \notin Waiting
  BY <1>0, NoStart
<1>1. CASE BufferSkip /\ state' \in Waiting
  <2>1. state \in Waiting /\ ~StartsInBlock
    BY <1>1 DEF BufferSkip, Waiting, ControlInv, QuietUnlessInit
  <2> QED
    BY <1>1, <2>1, SkipStart DEF BufferSkip
<1>2. CASE BufferFirstFile
  <2>1. split' = Wait
    BY <1>2, WaitIsKnown DEF BufferFirstFile, SplitOffset, Waiting
  <2> QED
    BY <1>2, <2>1
    DEF BufferFirstFile, StartInv, StartIsKnown, StartIsNear, CutAtStart, Wait,
        Timestamp
<1>3. CASE BufferWrite /\ state' \in Waiting
  <2>1. state \in Waiting
    BY <1>3 DEF BufferWrite
  <2> QED
    BY <1>3, <2>1, WriteStart
<1>4. CASE BufferWriteFails \/ BufferOpenWriteFails \/ BufferOpenFails
  <2>1. /\ busy' = "fail"
        /\ UNCHANGED <<now, split, start_time, start_frame, state>>
    BY <1>4 DEF BufferWriteFails, BufferOpenWriteFails, BufferOpenFails
  <2> QED
    BY <2>1 DEF StartInv, StartIsKnown, StartIsNear, CutAtStart, Timestamp
<1>5. CASE BufferSplit
  <2>1. busy = "split" /\ busy' = "open"
        /\ UNCHANGED <<now, split, start_time, start_frame, state, file, files>>
    BY <1>5 DEF BufferSplit
  <2> QED
    BY <2>1
    DEF StartInv, StartIsKnown, StartIsNear, CutAtStart, Wait, Timestamp
<1>6. CASE BufferOpen \/ BufferFail
  BY <1>0, <1>6 DEF BufferOpen, BufferFail, Waiting
<1> QED
  BY <1>0, <1>1, <1>2, <1>3, <1>4, <1>5, <1>6 DEF record_buffer

LEMMA NextStart ==
  TimeFits /\ TypeOK /\ HandleInv /\ ControlInv /\ StartInv /\ [Next]_vars
    => StartInv'
<1> SUFFICES ASSUME TimeFits, TypeOK, HandleInv, ControlInv, StartInv,
                    [Next]_vars
             PROVE  StartInv'
  OBVIOUS
<1> USE DEF recVars, startVars
<1>0. CASE state' \notin Waiting
  BY <1>0, NoStart
<1>1. CASE record_init
  BY <1>1, KeepStart DEF record_init
<1>2. CASE record_buffer
  BY <1>2, BufferStart
<1>3. CASE CloseThread
  <2>1. UNCHANGED <<now, split, start_time, start_frame, file, state, busy>>
    BY <1>3 DEF CloseThread, CloseGet, CloseDone
  <2> QED
    BY <1>3, <2>1, CloseKeepsFrames, KeepStart
<1>4. ASSUME NEW t \in now - Reach .. now + Reach, record_start(t)
      PROVE  StartInv'
  BY <1>4
  DEF record_start, StartInv, StartIsKnown, StartIsNear, CutAtStart
<1>5. CASE record_stop /\ state' \in Waiting
  BY <1>5, KeepStart DEF record_stop, Stopped, Waiting
<1>6. CASE StopClose \/ ShutdownClose \/ Reboot
  BY <1>0, <1>6 DEF StopClose, ShutdownClose, Stopped, Reboot, Waiting
<1>7. CASE record_shutdown /\ state' \in Waiting
  BY <1>7, KeepStart DEF record_shutdown, Stopped, Waiting
<1>8. ASSUME NEW p \in Prefix, record_set_file_name_prefix(p)
      PROVE  StartInv'
  BY <1>8, KeepStart DEF record_set_file_name_prefix
<1>9. CASE sd_card_mount \/ record_card_inserted
  BY <1>9, KeepStart DEF sd_card_mount, record_card_inserted
<1>10. CASE sd_card_removed
  <2>1. \A h \in Handle : files'[h].len = files[h].len
    BY <1>10 DEF sd_card_removed, TypeOK, FileRecord
  <2> QED
    BY <1>10, <2>1, KeepStart DEF sd_card_removed
<1>11. CASE UNCHANGED vars
  BY <1>11, KeepStart DEF vars
<1> QED
  BY <1>0, <1>1, <1>2, <1>3, <1>4, <1>5, <1>6, <1>7, <1>8, <1>9, <1>10, <1>11
  DEF Next, Refused, power_off, PowerLoss

\* A recording that waits for its start only begins as a file is opened.
LEMMA BeginsByOpening ==
  ASSUME [Next]_vars, state \in Waiting, state' = "RUNNING"
  PROVE  BufferOpen
<1> USE DEF recVars, Waiting
<1>1. record_buffer
  BY DEF Next, record_init, CloseThread, CloseGet, CloseDone, record_start,
         record_stop, StopClose, Stopped, Refused, record_shutdown,
         ShutdownClose, power_off, PowerLoss, Reboot,
         record_set_file_name_prefix, sd_card_mount, record_card_inserted,
         sd_card_removed, vars
<1> QED
  BY <1>1
  DEF record_buffer, BufferSkip, BufferFirstFile, BufferWrite, BufferWriteFails,
      BufferSplit, BufferOpenWriteFails, BufferOpenFails, BufferFail

\* A recording begins at the frame its START names, or at the current block
\* when that frame has passed; the exception is a recording that goes on into
\* a new file because the old one is full while the START is pending.
StartsOnTimeOrFull ==
  [][state' = "RUNNING" /\ state \in Waiting =>
       \/ files'[file'].first = IF start_frame < now THEN now ELSE start_frame
       \/ state = "WAITING_NEW_FILE" /\ file \in Handle
            /\ files[file].len = MaxData]_vars

LEMMA BeginsAtTheCut ==
  ASSUME TypeOK, [Next]_vars, state \in Waiting, state' = "RUNNING"
  PROVE  files'[file'].first = now + split /\ busy = "open"
<1>1. BufferOpen
  BY BeginsByOpening
<1>2. PICK h \in Handle :
        files' = [files EXCEPT ![h] = Created(h, "open", Rest)] /\ file' = h
  BY <1>1 DEF BufferOpen
<1> QED
  BY <1>1, <1>2 DEF BufferOpen, TypeOK, Created

LEMMA StartInvariant == TimeFits => (Spec => []StartInv)
<1> SUFFICES ASSUME TimeFits PROVE Spec => []StartInv
  OBVIOUS
<1>1. Init => StartInv
  BY DEF Init, Boot, StartInv, StartIsKnown, StartIsNear, CutAtStart, Waiting
<1>2. TypeOK /\ HandleInv /\ ControlInv /\ StartInv /\ [Next]_vars => StartInv'
  BY NextStart
<1> QED
  BY <1>1, <1>2, TypeCorrect, HandlesInvariant, ControlInvariant, PTL DEF Spec

\* A recording begins at the frame its START names, or at once when that frame
\* has passed, whatever other STARTs, splits, failures and wraps of the time
\* come before; only a file that is full while a START is pending makes the
\* recording go on before its frame, as the FIXME at record.c:368 says.
THEOREM OnlyFullFilesStartEarly == TimeFits => (Spec => StartsOnTimeOrFull)
<1> SUFFICES ASSUME TimeFits PROVE Spec => StartsOnTimeOrFull
  OBVIOUS
<1> DEFINE Begins ==
      state' = "RUNNING" /\ state \in Waiting =>
        \/ files'[file'].first = IF start_frame < now THEN now ELSE start_frame
        \/ state = "WAITING_NEW_FILE" /\ file \in Handle
             /\ files[file].len = MaxData
<1>1. TypeOK /\ StartInv /\ [Next]_vars => [Begins]_vars
  <2> SUFFICES ASSUME TypeOK, StartInv, [Next]_vars, state' = "RUNNING",
                      state \in Waiting,
                      ~(/\ state = "WAITING_NEW_FILE" /\ file \in Handle
                        /\ files[file].len = MaxData)
               PROVE  files'[file'].first
                        = IF start_frame < now THEN now ELSE start_frame
    OBVIOUS
  <2>1. files'[file'].first = now + split /\ busy = "open"
    BY BeginsAtTheCut
  <2>2. split = Wait
    BY <2>1 DEF StartInv, CutAtStart
  <2> QED
    BY <2>1, <2>2 DEF Wait, TypeOK
<1>2. Spec => [][Begins]_vars
  BY <1>1, TypeCorrect, StartInvariant, PTL DEF Spec
<1> QED
  BY <1>2 DEF StartsOnTimeOrFull

\* No file can be full: what the node records between FirstFrame and the bound
\* on the frames fits in one.
RoomLeft == LastFrame + BlockFrames - FirstFrame <= MaxData

\* How far the recorder's file can reach back, and a block forward.
FitInv ==
  /\ now >= FirstFrame
  /\ busy \in {"split", "open"} => now < LastFrame
  /\ state \in FileStates /\ file \in Handle => files[file].first >= FirstFrame

LEMMA KeepFit ==
  ASSUME FitInv, UNCHANGED <<now, file>>,
         busy' \in {"split", "open"} => busy \in {"split", "open"} \/ now < LastFrame,
         state' \in FileStates => state \in FileStates,
         \A h \in Handle : files'[h].first = files[h].first
  PROVE  FitInv'
  BY DEF FitInv

LEMMA BufferFit ==
  TypeOK /\ SplitInBlock /\ FitInv /\ record_buffer => FitInv'
<1> SUFFICES ASSUME TypeOK, SplitInBlock, FitInv, record_buffer PROVE FitInv'
  OBVIOUS
<1> USE DEF recVars
<1>0. /\ now \in Int /\ split \in Int /\ split >= 0
      /\ BlockFrames > 0 /\ BlockFrames \in Int /\ FirstFrame \in Int
      /\ now >= FirstFrame /\ now + split >= FirstFrame
      /\ now + BlockFrames >= FirstFrame
  BY ConstantsAssumption DEF TypeOK, SplitInBlock, FitInv
<1>1. CASE BufferSkip
  BY <1>0, <1>1 DEF BufferSkip, NextBlock, FitInv
<1>2. CASE BufferFirstFile \/ BufferSplit
  BY <1>2, KeepFit DEF BufferFirstFile, BufferSplit
<1>3. CASE BufferWrite
  <2>1. \A h \in Handle : files'[h].first = files[h].first
    BY <1>3 DEF BufferWrite, TypeOK, FileRecord
  <2>2. now' >= FirstFrame /\ (busy' \in {"split", "open"} => now' < LastFrame)
    BY <1>0, <1>3 DEF BufferWrite, NextBlock
  <2> QED
    BY <1>3, <2>1, <2>2 DEF BufferWrite, FitInv
<1>4. CASE BufferWriteFails
  <2>1. \A h \in Handle : files'[h].first = files[h].first
    <3>1. PICK n \in Int : files' = [files EXCEPT ![file].len = @ + n]
      BY <1>4, CutType DEF BufferWriteFails
    <3> QED
      BY <3>1 DEF TypeOK, FileRecord
  <2> QED
    BY <1>4, <2>1, KeepFit DEF BufferWriteFails
<1>5. CASE BufferOpen
  <2>1. PICK h \in Handle :
          files' = [files EXCEPT ![h] = Created(h, "open", Rest)] /\ file' = h
    BY <1>5 DEF BufferOpen
  <2>2. files'[file'].first = now + split
    BY <2>1 DEF TypeOK, Created
  <2> QED
    BY <1>0, <1>5, <2>2 DEF BufferOpen, NextBlock, FitInv
<1>6. CASE BufferOpenWriteFails
  <2>1. PICK h \in Handle, n \in 0 .. Rest - 1 :
          files' = [files EXCEPT ![h] = Created(h, "open", n)] /\ file' = h
    BY <1>6 DEF BufferOpenWriteFails
  <2>2. files'[file'].first = now + split
    BY <2>1 DEF TypeOK, Created
  <2> QED
    BY <1>0, <1>6, <2>2 DEF BufferOpenWriteFails, FitInv
<1>7. CASE BufferOpenFails
  BY <1>7, ConstantsAssumption DEF BufferOpenFails, WavOpenFailed, FitInv
<1>8. CASE BufferFail
  BY <1>0, <1>8 DEF BufferFail, NextBlock, FitInv, FileStates
<1> QED
  BY <1>1, <1>2, <1>3, <1>4, <1>5, <1>6, <1>7, <1>8 DEF record_buffer

LEMMA NextFit ==
  TypeOK /\ SplitInBlock /\ FitInv /\ [Next]_vars => FitInv'
<1> SUFFICES ASSUME TypeOK, SplitInBlock, FitInv, [Next]_vars PROVE FitInv'
  OBVIOUS
<1> USE DEF recVars
<1>1. CASE record_init
  BY <1>1, KeepFit DEF record_init
<1>2. CASE record_buffer
  BY <1>2, BufferFit
<1>3. CASE CloseThread
  <2>1. UNCHANGED <<now, file, state, busy>>
    BY <1>3 DEF CloseThread, CloseGet, CloseDone
  <2> QED
    BY <1>3, <2>1, CloseKeepsFrames, KeepFit
<1>4. ASSUME NEW t \in now - Reach .. now + Reach, record_start(t)
      PROVE  FitInv'
  <2>1. state' \in FileStates => state \in FileStates
    BY <1>4 DEF record_start, FileStates, TypeOK, STATES
  <2> QED
    BY <1>4, <2>1, KeepFit DEF record_start
<1>5. CASE record_stop
  BY <1>5, KeepFit DEF record_stop, Stopped, FileStates
<1>6. CASE StopClose \/ ShutdownClose
  BY <1>6, KeepFit DEF StopClose, ShutdownClose, Stopped, FileStates
<1>7. CASE record_shutdown
  BY <1>7, KeepFit DEF record_shutdown, Stopped, FileStates
<1>8. CASE Reboot
  BY <1>8 DEF Reboot, FitInv, FileStates
<1>9. ASSUME NEW p \in Prefix, record_set_file_name_prefix(p)
      PROVE  FitInv'
  BY <1>9, KeepFit DEF record_set_file_name_prefix
<1>10. CASE sd_card_mount \/ record_card_inserted
  BY <1>10, KeepFit DEF sd_card_mount, record_card_inserted
<1>11. CASE sd_card_removed
  <2>1. \A h \in Handle : files'[h].first = files[h].first
    BY <1>11 DEF sd_card_removed, TypeOK, FileRecord
  <2> QED
    BY <1>11, <2>1, KeepFit DEF sd_card_removed
<1>12. CASE UNCHANGED vars
  BY <1>12, KeepFit DEF vars
<1> QED
  BY <1>1, <1>2, <1>3, <1>4, <1>5, <1>6, <1>7, <1>8, <1>9, <1>10, <1>11, <1>12
  DEF Next, Refused, power_off, PowerLoss

\* Where no file is full, every recording begins on time.
THEOREM RecordingsStartOnTime == TimeFits /\ RoomLeft => (Spec => StartsOnTime)
<1> SUFFICES ASSUME TimeFits, RoomLeft PROVE Spec => StartsOnTime
  OBVIOUS
<1> DEFINE Begins ==
      state' = "RUNNING" /\ state \in {"WAITING_START", "WAITING_NEW_FILE"} =>
        files'[file'].first = IF start_frame < now THEN now ELSE start_frame
<1>1. TypeOK /\ FrameInv /\ SplitInBlock /\ FitInv /\ StartInv /\ [Next]_vars
        => [Begins]_vars
  <2> SUFFICES ASSUME TypeOK, FrameInv, SplitInBlock, FitInv, StartInv,
                      [Next]_vars, state' = "RUNNING", state \in Waiting
               PROVE  files'[file'].first
                        = IF start_frame < now THEN now ELSE start_frame
    BY DEF Waiting
  <2>1. files'[file'].first = now + split /\ busy = "open"
    BY BeginsAtTheCut
  <2>2. split = Wait
    <3> SUFFICES ASSUME state = "WAITING_NEW_FILE", file \in Handle,
                        files[file].len = MaxData
                 PROVE  FALSE
      BY <2>1 DEF StartInv, CutAtStart
    <3>1. files[file].first + files[file].len = now + split
      BY <2>1 DEF FrameInv, EndsAtSplit, FileStates
    <3>2. files[file].first \in Int /\ files[file].first >= FirstFrame
      BY DEF TypeOK, FileRecord, FitInv, FileStates
    <3>3. now \in Int /\ now < LastFrame /\ split \in Int /\ split <= BlockFrames
      BY <2>1, ConstantsAssumption DEF TypeOK, FitInv, SplitInBlock
    <3> QED
      BY <3>1, <3>2, <3>3, ConstantsAssumption DEF RoomLeft
  <2> QED
    BY <2>1, <2>2 DEF Wait, TypeOK
<1>2. Init => FitInv
  <2>1. FirstFrame >= FirstFrame
    BY ConstantsAssumption
  <2>2. Init => now = FirstFrame /\ busy = "free" /\ state = "STOPPED"
    BY DEF Init, Boot
  <2> QED
    BY <2>1, <2>2 DEF FitInv, FileStates
<1>3. TypeOK /\ SplitInBlock /\ FitInv /\ [Next]_vars => FitInv'
  BY NextFit
<1>4. Spec => []SplitInBlock
  <2>1. LossInv => SplitInBlock
    BY DEF LossInv
  <2> QED
    BY <2>1, InitLoss, NextLoss, TypeCorrect, HandlesInvariant,
       ControlInvariant, PTL DEF Spec
<1>5. Spec => []FitInv
  BY <1>2, <1>3, <1>4, TypeCorrect, PTL DEF Spec
<1>6. Spec => []StartInv
  BY StartInvariant
<1>7. Spec => [][Begins]_vars
  BY <1>1, <1>4, <1>5, <1>6, TypeCorrect, FramesInvariant, PTL DEF Spec
<1> QED
  BY <1>7 DEF StartsOnTime

=============================================================================
