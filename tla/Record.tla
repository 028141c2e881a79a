------------------------------- MODULE Record -------------------------------
(***************************************************************************)
(* The recorder of an audio node: audio/app/src/record.c with the WAV      *)
(* writer audio/app/src/wav.c, the background close thread, and the SD     *)
(* card's file system as they use it.                                      *)
(*                                                                         *)
(* Every entry point of record.c runs under record_mutex.  Holding it, an  *)
(* operation blocks only where it puts the current file on the close       *)
(* queue (one slot, K_FOREVER); `busy' says which operation holds the      *)
(* mutex across that wait and what is left of it.  Operations that do not  *)
(* reach that point are one step.                                          *)
(*                                                                         *)
(* Audio is counted in frames.  `now' is the absolute number of the first  *)
(* frame of the next block (or of the block being processed); the code     *)
(* only sees it modulo TimeMod, its 32-bit central time.  start_frame is   *)
(* the absolute frame a START command asked for, a history variable that   *)
(* no guard reads.                                                         *)
(***************************************************************************)
EXTENDS Integers, Sequences, FiniteSets

CONSTANTS
  Handle,       \* every file created on the card; bounds their number
  NoFile,       \* a zeroed struct wav: its fs_file_t belongs to no file
  Idle,         \* the close thread is waiting for its queue
  Prefix,       \* file name prefixes the shell may set
  BlockFrames,  \* frames in an audio block (and its duration)
  MaxData,      \* frames in a file of RECORD_FILE_MAX_SIZE
  SyncFrames,   \* RECORD_SYNC_INTERVAL_MS, in frames
  TimeMod,      \* central time wraps at TimeMod (2^32 in the code)
  Reach,        \* START asks for a frame at most Reach away from now
  FirstFrame,   \* the frame counter when the node boots first
  LastFrame,    \* the bound on the frame counter
  Faults        \* what the environment may do to the node

\* The faults an instance may enable:
\*   io      file operations fail        scan   fs_opendir/fs_readdir fails
\*   save    settings_save_one fails     codec  audio_start fails
\*   card    the card comes and goes     power  the supply is cut
\*   slow    a close outlasts the 100 ms power_off() sleeps
FaultKind == {"io", "scan", "save", "codec", "card", "power", "slow"}

ASSUME ConstantsAssumption ==
  /\ NoFile \notin Handle /\ Idle \notin Handle /\ Idle # NoFile
  /\ Prefix # {}
  /\ IsFiniteSet(Handle)
  /\ BlockFrames \in Nat \ {0}
  /\ MaxData \in Nat /\ MaxData >= BlockFrames
  /\ SyncFrames \in Nat
  /\ TimeMod \in Nat \ {0}
  /\ Reach \in Nat
  /\ FirstFrame \in Nat /\ LastFrame \in Nat
  /\ Faults \subseteq FaultKind

VARIABLES
  init,         \* record_data.init
  prefix,       \* record_data.file_name_prefix
  saved,        \* the prefix in the settings store
  file,         \* record_data.file: the file its handle refers to
  file_index,   \* record_data.file_index
  state,        \* record_data.state
  start_time,   \* record_data.start_time
  last_sync,    \* record_data.last_sync_time_ms, in frames
  busy,         \* who holds record_mutex across a blocking point
  split,        \* split_offset of the block being processed
  closeQueue,   \* record_close_queue
  closing,      \* the item the close thread works on
  files,        \* the card: what was created on it, and its open handles
  mounted,      \* the card's file system is mounted
  wq,           \* what the system work queue is in the middle of
  codec,        \* the codec is running (audio_start / audio_stop)
  now,          \* frames delivered by the audio thread
  start_frame   \* history: the frame asked for by the last START

recVars   == <<file, file_index, state, last_sync>>
startVars == <<start_time, start_frame, codec>>
cfgVars   == <<init, prefix, saved>>
closeVars == <<closeQueue, closing>>
cardVars  == <<mounted, wq>>
vars == <<recVars, startVars, cfgVars, closeVars, cardVars,
          busy, split, files, now>>

STATES == {"STOPPED", "WAITING_START", "WAITING_NEW_FILE", "RUNNING"}
BUSY   == {"free", "split", "open", "fail", "stop", "shutdown"}
Index  == 0 .. Cardinality(Handle)

FileRecord ==
  [status : {"unused", "open", "closed", "broken"},
   prefix : Prefix, index : Index,
   first  : Int,     \* its first frame
   len    : Int,     \* wav.data_size
   synced : Int,     \* frames that survive a loss of power
   live   : BOOLEAN] \* the volume it was opened on is still mounted

Unused == [status |-> "unused", prefix |-> CHOOSE p \in Prefix : TRUE,
           index |-> 0, first |-> 0, len |-> 0, synced |-> 0, live |-> FALSE]

TypeOK ==
  /\ init \in BOOLEAN
  /\ prefix \in Prefix /\ saved \in Prefix
  /\ file \in Handle \cup {NoFile}
  /\ file_index \in Index
  /\ state \in STATES
  /\ start_time \in 0 .. TimeMod - 1
  /\ last_sync \in Int
  /\ busy \in BUSY
  /\ split \in Int
  /\ closeQueue \in Seq(Handle \cup {NoFile})
  /\ closing \in Handle \cup {NoFile, Idle}
  /\ files \in [Handle -> FileRecord]
  /\ mounted \in BOOLEAN
  /\ wq \in {"idle", "inserted", "poweroff"}
  /\ codec \in BOOLEAN
  /\ now \in Int
  /\ start_frame \in Int

(***************************************************************************)
(* Arithmetic and lookups.                                                 *)
(***************************************************************************)
Least(a, b) == IF a <= b THEN a ELSE b

\* Mutant: the difference of two times is taken as unsigned.
SDiff_Unsigned(a, b) == (a - b) % TimeMod

\* (int32_t)(a - b): serial number arithmetic on the wrapping time.
SDiff(a, b) ==
  LET d == (a - b) % TimeMod
  IN  IF 2 * d < TimeMod THEN d ELSE d - TimeMod

\* wait_time: how long after the start of this block the recording starts.
WaitTime ==
  LET d == SDiff(start_time, now % TimeMod) IN IF d < 0 THEN 0 ELSE d

StartsInBlock == state # "RUNNING" /\ WaitTime <= BlockFrames

\* split_offset before anything is written: where this block changes files.
SplitOffset == IF StartsInBlock THEN WaitTime ELSE BlockFrames

OnCard(h)   == files[h].status # "unused"
OpenHandles == {h \in Handle : files[h].status = "open"}
Indexes(p)  == {files[h].index : h \in {x \in Handle :
                                          OnCard(x) /\ files[x].prefix = p}}

\* Mutant: the highest index in use, not its successor.
NextFree_Highest(S) ==
  {n \in Index : (\A i \in S : i <= n) /\ (n = 0 \/ n \in S)}

\* The index one past the highest of S, as a singleton.
NextFree(S) == {n \in Index : (\A i \in S : i < n) /\ (n = 0 \/ n - 1 \in S)}

\* record_find_next_file_index().  The index is reset before the scan, so a
\* scan cut short leaves the successor of the part it has seen.
FindNextFileIndex(p) ==
  \/ /\ ~mounted \/ "scan" \in Faults
     /\ UNCHANGED file_index
  \/ /\ mounted
     /\ file_index' \in NextFree(Indexes(p))
  \/ /\ mounted /\ "scan" \in Faults
     /\ \E S \in SUBSET Indexes(p) : file_index' \in NextFree(S)

-----------------------------------------------------------------------------
(***************************************************************************)
(* Boot.  Without the card fault the card is mounted before record_init(), *)
(* as in the build whose sd_card_init() mounts it synchronously.           *)
(***************************************************************************)
Boot(p) ==
  /\ init = FALSE /\ saved = p /\ prefix = p
  /\ file = NoFile /\ file_index = 0 /\ state = "STOPPED"
  /\ start_time = 0 /\ start_frame = FirstFrame /\ last_sync = FirstFrame
  /\ busy = "free" /\ split = 0
  /\ closeQueue = <<>> /\ closing = Idle
  /\ mounted = ("card" \notin Faults) /\ wq = "idle"
  /\ codec = FALSE /\ now = FirstFrame

\* The card may already hold a recording from an earlier session.
Init ==
  /\ \E p \in Prefix : Boot(p)
  /\ \/ files = [h \in Handle |-> Unused]
     \/ \E old \in Handle, p \in Prefix, i \in {0, 1} :
          /\ i \in Index
          /\ files = [[h \in Handle |-> Unused] EXCEPT
                        ![old] = [Unused EXCEPT !.status = "closed",
                                                !.prefix = p, !.index = i]]

record_init ==
  /\ busy = "free" /\ ~init /\ wq # "poweroff"
  /\ prefix' = saved
  /\ FindNextFileIndex(saved)
  /\ init' = TRUE
  /\ UNCHANGED <<file, state, last_sync, startVars, saved, closeVars,
                 cardVars, busy, split, files, now>>

-----------------------------------------------------------------------------
(***************************************************************************)
(* record_buffer(): the audio thread delivers the block that starts at     *)
(* frame `now'.  A block is done when now moves past it.                   *)
(***************************************************************************)
NextBlock == now' = now + BlockFrames /\ split' = 0

\* Nothing to write: not initialised, stopped, or waiting for a later block.
BufferSkip ==
  /\ busy = "free" /\ now < LastFrame
  /\ \/ ~init \/ state = "STOPPED"
     \/ state = "WAITING_START" /\ ~StartsInBlock
  /\ NextBlock
  /\ UNCHANGED <<recVars, startVars, cfgVars, closeVars, cardVars,
                 busy, files>>

\* The first file of a recording is opened in this block.
BufferFirstFile ==
  /\ busy = "free" /\ now < LastFrame
  /\ init /\ state = "WAITING_START" /\ StartsInBlock
  /\ busy' = "open" /\ split' = SplitOffset
  /\ UNCHANGED <<recVars, startVars, cfgVars, closeVars, cardVars, files, now>>

\* What wav_write() accepts of the part of the block that goes to the old
\* file: a file never grows past MaxData.
OldPart == Least(SplitOffset, MaxData - files[file].len)

\* Mutant: the periodic fs_sync() is dropped.
SyncDue_Never == FALSE

SyncDue == now - last_sync >= SyncFrames

\* Mutant: split_offset keeps the planned value after a short write.
CutAt_Planned == SplitOffset

\* Where the block is cut: after a short write, split_offset = ret.
CutAt == OldPart

\* The block, or its first part, is appended to the open file, which is
\* synced when the interval has passed.  Less than asked means the file is
\* full: the rest goes to a new one.
BufferWrite ==
  /\ busy = "free" /\ now < LastFrame
  /\ init /\ state \in {"WAITING_NEW_FILE", "RUNNING"}
  /\ file \in Handle /\ files[file].live
  /\ LET len == files[file].len + OldPart IN
       files' = [files EXCEPT ![file].len = len,
                              ![file].synced = IF SyncDue THEN len ELSE @]
  /\ last_sync' = IF SyncDue THEN now ELSE last_sync
  /\ IF StartsInBlock \/ OldPart # SplitOffset
       THEN busy' = "split" /\ split' = CutAt /\ UNCHANGED now
       ELSE NextBlock /\ UNCHANGED busy
  /\ UNCHANGED <<file, file_index, state, startVars, cfgVars, closeVars,
                 cardVars>>

\* fs_write() fails, having stored part of the data, or fs_sync() fails.
BufferWriteFails ==
  /\ busy = "free" /\ now < LastFrame
  /\ init /\ state \in {"WAITING_NEW_FILE", "RUNNING"}
  /\ file \in Handle
  /\ \/ /\ "io" \in Faults \/ ~files[file].live
        /\ \E n \in {0} \cup 0 .. OldPart - 1 :
             files' = [files EXCEPT ![file].len = @ + n]
     \/ /\ "io" \in Faults /\ files[file].live
        /\ SyncDue
        /\ files' = [files EXCEPT ![file].len = @ + OldPart]
  /\ busy' = "fail"
  /\ UNCHANGED <<recVars, startVars, cfgVars, closeVars, cardVars, split, now>>

\* Mutant: a close queue of two.
QueueHasRoom_Two == Len(closeQueue) < 2

QueueHasRoom == Len(closeQueue) < 1

\* record_close_file() hands the file to the close thread, waiting for room
\* with the mutex held.
HandToCloseThread ==
  /\ QueueHasRoom
  /\ closeQueue' = Append(closeQueue, file)
  /\ UNCHANGED closing

BufferSplit ==
  /\ busy = "split"
  /\ HandToCloseThread
  /\ busy' = "open"
  /\ UNCHANGED <<recVars, startVars, cfgVars, cardVars, split, files, now>>

\* Mutant: the whole block goes to the new file, not what is left of it.
Rest_WholeBlock == BlockFrames

\* write_len: what the new file gets of this block.
Rest == BlockFrames - split

\* wav_open() creates (or truncates) the next file and the rest of the block
\* is written to it.
Created(h, status, len) ==
  [status |-> status, prefix |-> prefix, index |-> file_index,
   first |-> now + split, len |-> len, synced |-> 0, live |-> TRUE]

BufferOpen ==
  /\ busy = "open" /\ mounted
  /\ \E h \in Handle :
       /\ ~OnCard(h)
       /\ files' = [files EXCEPT ![h] = Created(h, "open", Rest)]
       /\ file' = h
  /\ file_index + 1 \in Index
  /\ file_index' = file_index + 1
  /\ last_sync' = now
  /\ state' = "RUNNING"
  /\ busy' = "free"
  /\ NextBlock
  /\ UNCHANGED <<startVars, cfgVars, closeVars, cardVars>>

\* The file opens, but the rest of the block cannot be written.
BufferOpenWriteFails ==
  /\ busy = "open" /\ mounted /\ "io" \in Faults
  /\ \E h \in Handle, n \in 0 .. Rest - 1 :
       /\ ~OnCard(h)
       /\ files' = [files EXCEPT ![h] = Created(h, "open", n)]
       /\ file' = h
  /\ file_index + 1 \in Index
  /\ file_index' = file_index + 1
  /\ last_sync' = now
  /\ busy' = "fail"
  /\ UNCHANGED <<state, startVars, cfgVars, closeVars, cardVars, split, now>>

\* Mutant: wav_open() leaves the struct of the previous file in place.
WavOpenFailed_Stale == UNCHANGED file

\* wav_open() zeroes *w first, so a failed open leaves no handle in it.
WavOpenFailed == file' = NoFile

\* wav_open() fails: the file cannot be created (no card, card full), or its
\* header cannot be written and wav_open() closes it again.
BufferOpenFails ==
  /\ busy = "open"
  /\ \/ /\ \/ ~mounted \/ "io" \in Faults
           \/ \A h \in Handle : OnCard(h)
           \/ file_index + 1 \notin Index
        /\ UNCHANGED files
     \/ /\ mounted /\ "io" \in Faults
        /\ \E h \in Handle :
             /\ ~OnCard(h)
             /\ files' = [files EXCEPT ![h] = Created(h, "broken", 0)]
  /\ WavOpenFailed
  /\ last_sync' = now
  /\ busy' = "fail"
  /\ UNCHANGED <<file_index, state, startVars, cfgVars, closeVars, cardVars,
                 split, now>>

\* file_error: the file is handed to the close thread and recording stops.
BufferFail ==
  /\ busy = "fail"
  /\ HandToCloseThread
  /\ state' = "STOPPED"
  /\ busy' = "free"
  /\ NextBlock
  /\ UNCHANGED <<file, file_index, last_sync, startVars, cfgVars, cardVars,
                 files>>

-----------------------------------------------------------------------------
(***************************************************************************)
(* record_close_thread_run(): wav_close() writes the sizes into the header *)
(* and closes the file, in the background and without the mutex.  A handle *)
(* is freed whether or not that succeeds.                                  *)
(***************************************************************************)
CloseGet ==
  /\ closing = Idle /\ closeQueue # <<>>
  /\ closing' = Head(closeQueue)
  /\ closeQueue' = Tail(closeQueue)
  /\ UNCHANGED <<recVars, startVars, cfgVars, cardVars, busy, split, files, now>>

\* Mutant: wav_close() returns early when the header cannot be written.
CloseFailed_Leaks(h) == closing' = Idle /\ UNCHANGED files

\* Mutant: the close thread tries again until wav_close() succeeds.
CloseFailed_Retries(h) == UNCHANGED <<closing, files>>

CloseFailed(h) ==
  closing' = Idle /\ files' = [files EXCEPT ![h].status = "broken"]

CloseDone ==
  /\ closing # Idle
  /\ \/ closing = NoFile /\ closing' = Idle /\ UNCHANGED files
     \/ /\ closing \in Handle /\ files[closing].live
        /\ closing' = Idle
        /\ files' = [files EXCEPT ![closing].status = "closed",
                                  ![closing].synced = files[closing].len]
     \/ /\ closing \in Handle
        /\ "io" \in Faults \/ ~files[closing].live
        /\ CloseFailed(closing)
  /\ UNCHANGED <<closeQueue, recVars, startVars, cfgVars, cardVars, busy,
                 split, now>>

-----------------------------------------------------------------------------
(***************************************************************************)
(* record_start() and record_stop(), called by the manager when it sees a  *)
(* new command.  The asked-for frame may already be in the past.           *)
(***************************************************************************)

\* The central timer's count at frame t.
Timestamp(t) == t % TimeMod

\* Mutant: a failing audio_start() is ignored.
AudioStarted_Ignored == codec' \in {codec, TRUE}

AudioStarted == codec' = TRUE

record_start(t) ==
  /\ busy = "free" /\ init
  /\ now < LastFrame /\ t \in FirstFrame .. LastFrame - BlockFrames
  /\ AudioStarted
  /\ state' = IF state \in {"STOPPED", "WAITING_START"} THEN "WAITING_START"
                                                       ELSE "WAITING_NEW_FILE"
  /\ start_time' = Timestamp(t)
  /\ start_frame' = t
  /\ UNCHANGED <<file, file_index, last_sync, cfgVars, closeVars, cardVars,
                 busy, split, files, now>>

\* Not initialised, or audio_start() fails while the codec is off.
Refused ==
  /\ busy = "free"
  /\ ~init \/ ("codec" \in Faults /\ ~codec)
  /\ UNCHANGED vars

\* Mutant: a recording that waits for its next file is forgotten.
HasFile_Running == state = "RUNNING"

HasFile == state \in {"WAITING_NEW_FILE", "RUNNING"}

\* The end of record_stop_unlocked().
Stopped ==
  /\ codec' = FALSE
  /\ state' = "STOPPED"
  /\ UNCHANGED <<start_time, start_frame>>

record_stop ==
  /\ busy = "free" /\ init
  /\ IF HasFile THEN busy' = "stop" /\ UNCHANGED <<state, startVars>>
                ELSE Stopped /\ UNCHANGED busy
  /\ UNCHANGED <<file, file_index, last_sync, cfgVars, closeVars, cardVars,
                 split, files, now>>

StopClose ==
  /\ busy = "stop"
  /\ HandToCloseThread
  /\ Stopped
  /\ busy' = "free"
  /\ UNCHANGED <<file, file_index, last_sync, cfgVars, cardVars, split,
                 files, now>>

(***************************************************************************)
(* power_shutdown(), on the system work queue: record_shutdown() is its    *)
(* hook, then power_off() cuts the supply about 100 ms later.              *)
(***************************************************************************)

\* Mutant: record_shutdown() leaves `init' set.
Disabled_Not == wq' = "poweroff" /\ UNCHANGED init

\* The hook is done; power_off() runs.  No recording can be started now.
Disabled == wq' = "poweroff" /\ init' = FALSE

record_shutdown ==
  /\ busy = "free" /\ init /\ wq = "idle"
  /\ IF HasFile
       THEN busy' = "shutdown" /\ UNCHANGED <<state, startVars, init, wq>>
       ELSE Stopped /\ Disabled /\ UNCHANGED busy
  /\ UNCHANGED <<file, file_index, last_sync, prefix, saved, closeVars,
                 mounted, split, files, now>>

ShutdownClose ==
  /\ busy = "shutdown"
  /\ HandToCloseThread
  /\ Stopped
  /\ Disabled
  /\ busy' = "free"
  /\ UNCHANGED <<file, file_index, last_sync, prefix, saved, mounted, split,
                 files, now>>

\* Everything volatile is gone, the node boots again from the card and the
\* settings store.  An open file keeps what was synced of it.
Reboot ==
  /\ init' = FALSE /\ saved' = saved /\ prefix' = saved
  /\ file' = NoFile /\ file_index' = 0 /\ state' = "STOPPED"
  /\ start_time' = 0 /\ start_frame' = now /\ last_sync' = now
  /\ busy' = "free" /\ split' = 0
  /\ closeQueue' = <<>> /\ closing' = Idle
  /\ mounted' = ("card" \notin Faults) /\ wq' = "idle"
  /\ codec' = FALSE /\ UNCHANGED now
  /\ files' = [h \in Handle |->
                 IF files[h].status = "open"
                   THEN [files[h] EXCEPT !.status = "broken",
                                         !.len = files[h].synced]
                   ELSE files[h]]

power_off ==
  /\ wq = "poweroff"
  /\ "slow" \in Faults \/ (closeQueue = <<>> /\ closing = Idle)
  /\ Reboot

PowerLoss ==
  /\ "power" \in Faults
  /\ Reboot

-----------------------------------------------------------------------------
(***************************************************************************)
(* record_set_file_name_prefix(), from the shell.  The scan is skipped     *)
(* when the setting cannot be saved.                                       *)
(***************************************************************************)
record_set_file_name_prefix(p) ==
  /\ busy = "free" /\ init
  /\ prefix' = p
  /\ \/ saved' = p /\ FindNextFileIndex(p)
     \/ "save" \in Faults /\ UNCHANGED <<saved, file_index>>
  /\ UNCHANGED <<init, file, state, last_sync, startVars, closeVars, cardVars,
                 busy, split, files, now>>

(***************************************************************************)
(* The card, on the system work queue: sd_card_inserted() mounts the file  *)
(* system and then calls record_card_inserted(), which waits for the mutex *)
(* (two steps); sd_card_removed() unmounts it under open files.            *)
(***************************************************************************)
sd_card_mount ==
  /\ "card" \in Faults
  /\ wq = "idle" /\ busy # "shutdown" /\ ~mounted
  /\ mounted' = TRUE /\ wq' = "inserted"
  /\ UNCHANGED <<recVars, startVars, cfgVars, closeVars, busy, split, files, now>>

record_card_inserted ==
  /\ busy = "free" /\ wq = "inserted"
  /\ wq' = "idle"
  /\ IF init THEN FindNextFileIndex(prefix) ELSE UNCHANGED file_index
  /\ UNCHANGED <<file, state, last_sync, startVars, cfgVars, closeVars,
                 mounted, busy, split, files, now>>

sd_card_removed ==
  /\ "card" \in Faults
  /\ wq = "idle" /\ busy # "shutdown" /\ mounted
  /\ mounted' = FALSE
  /\ files' = [h \in Handle |-> [files[h] EXCEPT !.live = FALSE]]
  /\ UNCHANGED <<recVars, startVars, cfgVars, closeVars, wq, busy, split, now>>

-----------------------------------------------------------------------------
record_buffer ==
  \/ BufferSkip \/ BufferFirstFile \/ BufferWrite \/ BufferWriteFails
  \/ BufferSplit \/ BufferOpen \/ BufferOpenWriteFails \/ BufferOpenFails
  \/ BufferFail

CloseThread == CloseGet \/ CloseDone

Next ==
  \/ record_init \/ record_buffer \/ CloseThread
  \/ \E t \in now - Reach .. now + Reach : record_start(t)
  \/ record_stop \/ StopClose \/ Refused
  \/ record_shutdown \/ ShutdownClose \/ power_off \/ PowerLoss
  \/ \E p \in Prefix : record_set_file_name_prefix(p)
  \/ sd_card_mount \/ record_card_inserted \/ sd_card_removed

Spec == Init /\ [][Next]_vars

-----------------------------------------------------------------------------
(***************************************************************************)
(* Scheduling.  The close thread and the audio thread are never suspended  *)
(* for good, and an operation that holds the mutex goes on once it can;    *)
(* commands, the shell, the card and the supply owe nothing.               *)
(***************************************************************************)
Fairness ==
  /\ WF_vars(CloseThread)
  /\ WF_vars(record_buffer)
  /\ WF_vars(StopClose \/ ShutdownClose)

FairSpec == Spec /\ Fairness

(***************************************************************************)
(* Properties.                                                             *)
(***************************************************************************)

\* The states in which record_data.file is an open file between operations.
FileStates == {"WAITING_NEW_FILE", "RUNNING"}

\* The recorder has an open file that it has not yet handed over.
Owned ==
  \/ busy = "free" /\ state \in FileStates
  \/ busy \in {"split", "stop", "shutdown"}
  \/ busy = "fail" /\ file \in Handle

Queued(h) == \E i \in 1 .. Len(closeQueue) : closeQueue[i] = h

\* A file is open exactly as long as somebody is going to close it: the
\* recorder (record_data.file), the close queue or the close thread.  The
\* struct wav is copied by value (record.c:151) and stays behind in
\* record_data, so the state machine alone keeps the copies apart.
NoHandleLeak ==
  \A h \in Handle :
    files[h].status = "open" <=>
      (Owned /\ file = h) \/ Queued(h) \/ closing = h

\* No handle is in two of these places, so none is closed or written after
\* it was closed: FatFs would take the slab slot of another file.
NoDoubleClose ==
  \A h \in Handle :
    /\ ~(Owned /\ file = h /\ Queued(h))
    /\ ~(Owned /\ file = h /\ closing = h)
    /\ ~(Queued(h) /\ closing = h)

\* The recorder, its queue of one and the close thread: never more than
\* three files are open, which CONFIG_FS_FATFS_NUM_FILES must allow.
OpenFilesBounded == Cardinality(OpenHandles) <= 3

\* Between two blocks the open file ends with the last block delivered: no
\* frame is skipped or written twice, whatever was split, synced or retried.
NoFrameLost ==
  busy = "free" /\ state \in FileStates => files[file].first + files[file].len = now

\* A file that follows another of the same recording starts where that one
\* ended, for a START command and for a full file alike (record.c:361-428).
Contiguous ==
  [][busy = "open" /\ busy' # "open" /\ state \in FileStates /\ file' \in Handle =>
       files'[file'].first = files[file].first + files[file].len]_vars

\* A loss of power costs the open file no more than the sync interval and
\* the two blocks around its ends (RECORD_SYNC_INTERVAL_MS, record.c:376).
LossBounded ==
  \A h \in OpenHandles :
    /\ files[h].synced <= files[h].len /\ files[h].len <= MaxData
    /\ files[h].len - files[h].synced <= SyncFrames + 2 * BlockFrames

\* Whenever a recording runs or waits for its start the codec runs: nothing
\* stops the input under a recording, and a failed start leaves no recording.
CodecFollowsState == state # "STOPPED" => codec

\* Once record_shutdown() has returned, and until the supply is off, the
\* recorder owns no file, whatever command or block arrives (record.h:27).
ShutdownIsFinal == wq = "poweroff" => ~Owned /\ state = "STOPPED"

\* The recording a START command asks for begins at the frame it names, or
\* at the block being processed when that frame has passed.  Nodes in sync
\* thus start their files at the same sample.
StartsOnTime ==
  [][state' = "RUNNING" /\ state \in {"WAITING_START", "WAITING_NEW_FILE"} =>
       files'[file'].first = IF start_frame < now THEN now ELSE start_frame]_vars

\* What the FIXME at record.c:368 says of the case where a file is full while
\* a START is pending: the new file only misses the asked-for frame if the
\* START falls into that same buffer.
StartMissedOnlyInSameBuffer ==
  [][state = "WAITING_NEW_FILE" /\ state' = "RUNNING" =>
       start_frame <= now + BlockFrames]_vars

\* No two files ever had one name: record_data.file_index is the "next unused
\* file index" (record.c:50) whenever a file is created with it, and wav_open()
\* never truncates a recording.  A file whose header could not be written holds
\* no recording.
NoRecordingTruncated ==
  \A g, h \in Handle :
    g # h /\ OnCard(g) /\ OnCard(h)
      /\ files[g].prefix = files[h].prefix /\ files[g].index = files[h].index
      => \E f \in {g, h} : files[f].status = "broken" /\ files[f].len = 0

\* "Perform an orderly shutdown and power off" (common/src/power.c:68): the
\* supply is cut after the recording's file was closed and its header
\* completed.
OrderlyShutdown ==
  [][wq = "poweroff" /\ wq' # "poweroff" => OpenHandles = {}]_vars

\* The record mutex is never held for good: the close thread, which takes no
\* lock, always makes room in the queue its holder waits for.
MutexReleased == busy # "free" ~> busy = "free"

\* A file handed to the close thread is closed.
HandedOverIsClosed ==
  \A h \in Handle :
    (files[h].status = "open" /\ ~(Owned /\ file = h))
      ~> files[h].status # "open"

\* A recording whose card was pulled does not go on into the void: the next
\* block ends it and its handle is given back.
DeadFileAbandoned ==
  \A h \in Handle :
    (files[h].status = "open" /\ ~files[h].live /\ now < LastFrame)
      ~> files[h].status # "open"

\* A START is acted on: waiting for its frame ends, for a file to begin or
\* for the recording to stop.
WaitEnds ==
  (state \in {"WAITING_START", "WAITING_NEW_FILE"})
    ~> (state \notin {"WAITING_START", "WAITING_NEW_FILE"})

=============================================================================
