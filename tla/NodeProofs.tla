----------------------------- MODULE NodeProofs -----------------------------
(***************************************************************************)
(* Theorems about the parts of the audio node that MCNode runs side by     *)
(* side: the card in the slot, the node manager, the audio pipeline and    *)
(* the FTP server.                                                         *)
(***************************************************************************)
EXTENDS SdCard, Mgr, AudioPipeline, Ftp, FiniteSetTheorems, FunctionTheorems,
        SequenceTheorems, TLAPS

-----------------------------------------------------------------------------
(***************************************************************************)
(* SdCard: the mounted, cached and indexed card is the one in the slot,    *)
(* for any set of cards, as long as unmounting and CTRL_DEINIT succeed     *)
(* and no card is inserted before the removal of the last one was dealt    *)
(* with.                                                                   *)
(***************************************************************************)

\* The faults under which the theorem holds: those that only disturb an
\* insertion.
InsertionFaultsOnly == SdFaults \subseteq {"init", "info", "mount", "scan"}

\* The disk is initialised for one card, whose sectors are the only ones in
\* the cache, and only an initialised disk is mounted.
OneCard ==
  /\ sd.mounted => sd.disk_init
  /\ sd.disk_init => disk.card \in Card /\ disk.cached \subseteq {disk.card}
  /\ ~sd.disk_init => disk.card = "none" /\ disk.cached = {}

\* A card in the slot is the one the disk was initialised for; if there is
\* none, the disk is not initialised either, or the work item will see to it.
SlotSeen ==
  /\ slot # "none" /\ sd.disk_init => slot = disk.card
  /\ slot = "none" /\ SdSettled => ~sd.disk_init

Inserting == {"init", "info", "mount", "notify"}

\* What has been done when the handler is at a call, and that a card pulled
\* meanwhile has scheduled the work item again.
HandlerSteps ==
  /\ sdpc = "init" => ~sd.disk_init
  /\ sdpc \in {"info", "mount"} => sd.disk_init /\ ~sd.mounted
  /\ sdpc = "notify" => sd.mounted
  /\ sdpc \in Inserting /\ slot = "none" => sdwork
  /\ sdpc \in {"unmount", "deinit"} => slot = "none" /\ sd.disk_init
  /\ sdpc = "unmount" => sd.mounted
  /\ sdpc = "deinit" => ~sd.mounted

\* If nothing has failed and nothing is to be done, the card was announced.
Announced ==
  SdSettled /\ slot # "none" /\ ~sderr => sd.mounted /\ scanned = slot

SdInv == SdTypeOK /\ OneCard /\ SlotSeen /\ HandlerSteps /\ Announced

\* The card manager starts with nothing initialised and the work item scheduled.
LEMMA SdInvInit == SdInit => SdInv
<1> SUFFICES ASSUME SdInit PROVE SdInv
  OBVIOUS
<1>1. SdTypeOK
  <2>1. sd \in [disk_init : BOOLEAN, mounted : BOOLEAN]
    BY DEF SdInit
  <2>2. disk \in [card : Slot, cached : SUBSET Card]
    BY DEF SdInit, Slot
  <2>3. sdwork \in BOOLEAN /\ sderr \in BOOLEAN
    BY DEF SdInit
  <2>4. QED
    BY <2>1, <2>2, <2>3 DEF SdInit, SdTypeOK, Slot
<1>2. OneCard /\ SlotSeen /\ HandlerSteps /\ Announced
  BY DEF SdInit, OneCard, SlotSeen, HandlerSteps, Announced, SdSettled, Inserting
<1>3. QED
  BY <1>1, <1>2 DEF SdInv

\* The slot changes: a card is pulled at any time, and inserted when the
\* removal of the one before has been dealt with.
LEMMA SlotKeepsSdInv ==
  ASSUME InsertionFaultsOnly, SdInv, Insert \/ Remove
  PROVE  SdInv'
BY SdAssumption DEF InsertionFaultsOnly, Insert, Remove, SdInv, SdTypeOK, OneCard, SlotSeen,
   HandlerSteps, Announced, Slot, SdSettled, Inserting, Scheduled

\* The work item looks at the slot and chooses what to do.
LEMMA WorkKeepsSdInv ==
  ASSUME InsertionFaultsOnly, SdInv, sd_card_work_handler
  PROVE  SdInv'
<1>1. SdTypeOK'
  BY DEF sd_card_work_handler, SdInv, SdTypeOK, Slot, SdSettled, Deinit
<1>2. OneCard'
  BY DEF sd_card_work_handler, SdInv, SdTypeOK, OneCard, HandlerSteps, Deinit
<1>3. SlotSeen'
  BY SdAssumption DEF sd_card_work_handler, SdInv, SdTypeOK, OneCard, SlotSeen, HandlerSteps, SdSettled, Deinit
<1>4. HandlerSteps'
  BY DEF sd_card_work_handler, SdInv, SdTypeOK, OneCard, SlotSeen, HandlerSteps, SdSettled, Inserting, Deinit
<1>5. Announced'
  BY DEF sd_card_work_handler, SdInv, SdTypeOK, OneCard, SlotSeen, HandlerSteps, Announced, SdSettled, Deinit
<1>6. QED
  BY <1>1, <1>2, <1>3, <1>4, <1>5 DEF SdInv

\* CTRL_INIT flushes the cache and makes the card in the slot the disk's.
LEMMA InitKeepsSdInv ==
  ASSUME InsertionFaultsOnly, SdInv, sd_card_inserted_init
  PROVE  SdInv'
<1>1. SdTypeOK'
  <2>1. sd' \in [disk_init : BOOLEAN, mounted : BOOLEAN]
    BY DEF sd_card_inserted_init, SdInv, SdTypeOK
  <2>2. disk' \in [card : Slot, cached : SUBSET Card]
    BY DEF sd_card_inserted_init, SdInv, SdTypeOK, Slot, FlushedForCard
  <2>3. sdwork' \in BOOLEAN /\ sderr' \in BOOLEAN
    BY DEF sd_card_inserted_init, SdInv, SdTypeOK, At, Fails
  <2>4. QED
    BY <2>1, <2>2, <2>3 DEF sd_card_inserted_init, SdInv, SdTypeOK, At, Fails
<1>2. OneCard'
  BY DEF sd_card_inserted_init, SdInv, SdTypeOK, OneCard, Slot, At, Fails, FlushedForCard
<1>3. SlotSeen' /\ Announced'
  BY DEF sd_card_inserted_init, SdInv, SdTypeOK, SlotSeen, Announced, HandlerSteps,
         Inserting, SdSettled, At, Fails
<1>4. HandlerSteps'
  BY DEF sd_card_inserted_init, SdInv, SdTypeOK, OneCard, HandlerSteps, Inserting, At, Fails
<1>5. QED
  BY <1>1, <1>2, <1>3, <1>4 DEF SdInv

\* What answers a read is the card the disk was initialised for.
LEMMA AnswersOne ==
  ASSUME SdInv, sd.disk_init
  PROVE  Answers \subseteq {disk.card}
BY SdAssumption DEF SdInv, OneCard, Answers

\* Mounting caches sectors of that card.
LEMMA MountKeepsSdInv ==
  ASSUME InsertionFaultsOnly, SdInv, sd_card_inserted_mount
  PROVE  SdInv'
<1>1. sd.disk_init /\ Answers \subseteq {disk.card}
  BY AnswersOne DEF sd_card_inserted_mount, At, Fails, SdInv, HandlerSteps
<1>2. QED
  BY <1>1, SdAssumption DEF InsertionFaultsOnly, sd_card_inserted_mount, SdInv, SdTypeOK,
     OneCard, SlotSeen, HandlerSteps, Announced, Slot, SdSettled, Inserting, At, Fails, May

\* Announcing the card leaves an index of it.
LEMMA NotifyKeepsSdInv ==
  ASSUME InsertionFaultsOnly, SdInv, sd_card_inserted_notify
  PROVE  SdInv'
<1>1. sd.disk_init /\ Answers \subseteq {disk.card}
  BY AnswersOne DEF sd_card_inserted_notify, At, Fails, SdInv, HandlerSteps, OneCard
<1>2. QED
  BY <1>1, SdAssumption DEF InsertionFaultsOnly, sd_card_inserted_notify, SdInv, SdTypeOK,
     OneCard, SlotSeen, HandlerSteps, Announced, Slot, SdSettled, Inserting, At, Fails, May

\* A card that is gone is unmounted and forgotten.
LEMMA RemovedKeepsSdInv ==
  ASSUME InsertionFaultsOnly, SdInv, sd_card_removed
  PROVE  SdInv'
<1>1. SdTypeOK'
  <2>1. sd' \in [disk_init : BOOLEAN, mounted : BOOLEAN]
    BY DEF sd_card_removed, SdInv, SdTypeOK, Unmounted
  <2>2. disk' \in [card : Slot, cached : SUBSET Card]
    BY DEF sd_card_removed, SdInv, SdTypeOK, Slot, FlushedForCard
  <2>3. sdwork' \in BOOLEAN /\ sderr' \in BOOLEAN
    BY DEF sd_card_removed, SdInv, SdTypeOK, At, Fails
  <2>4. QED
    BY <2>1, <2>2, <2>3 DEF sd_card_removed, SdInv, SdTypeOK, At, Fails, Deinit
<1>2. OneCard'
  BY DEF sd_card_removed, SdInv, SdTypeOK, OneCard, HandlerSteps, At, Fails, May, Deinit, Unmounted, FlushedForCard, InsertionFaultsOnly
<1>3. SlotSeen'
  BY SdAssumption DEF sd_card_removed, SdInv, SdTypeOK, OneCard, SlotSeen, HandlerSteps, SdSettled, At, Fails, May, Deinit, Unmounted, FlushedForCard, InsertionFaultsOnly
<1>4. HandlerSteps'
  BY DEF sd_card_removed, SdInv, SdTypeOK, OneCard, SlotSeen, HandlerSteps, SdSettled, Inserting, At, Fails, May, Deinit, Unmounted, FlushedForCard, InsertionFaultsOnly
<1>5. Announced'
  BY DEF sd_card_removed, SdInv, SdTypeOK, OneCard, SlotSeen, HandlerSteps, Announced, SdSettled, At, Fails, May, Deinit, Unmounted, FlushedForCard, InsertionFaultsOnly
<1>6. QED
  BY <1>1, <1>2, <1>3, <1>4, <1>5 DEF SdInv

\* The invariant of the card manager, whenever cards are pulled and whatever
\* fails while one is inserted (sd_card.c:60-157).
THEOREM SdInvariant == InsertionFaultsOnly => (SdSpec => []SdInv)
<1> SUFFICES ASSUME InsertionFaultsOnly PROVE SdSpec => []SdInv
  OBVIOUS
<1>1. SdInit => SdInv
  BY SdInvInit
<1>2. SdInv /\ [SdNext]_sdVars => SdInv'
  <2> SUFFICES ASSUME SdInv, [SdNext]_sdVars PROVE SdInv'
    OBVIOUS
  <2>1. CASE Insert \/ Remove
    BY <2>1, SlotKeepsSdInv
  <2>2. CASE sd_card_work_handler
    BY <2>2, WorkKeepsSdInv
  <2>3. CASE sd_card_inserted_init
    BY <2>3, InitKeepsSdInv
  <2>4. CASE sd_card_inserted_mount
    BY <2>4, MountKeepsSdInv
  <2>5. CASE sd_card_inserted_notify
    BY <2>5, NotifyKeepsSdInv
  <2>6. CASE sd_card_removed
    BY <2>6, RemovedKeepsSdInv
  <2>7. CASE UNCHANGED sdVars
    BY <2>7 DEF sdVars, SdInv, SdTypeOK, OneCard, SlotSeen, HandlerSteps, Announced, SdSettled
  <2>8. QED
    BY <2>1, <2>2, <2>3, <2>4, <2>5, <2>6, <2>7 DEF SdNext, SdHandler
<1>3. QED
  BY <1>1, <1>2, PTL DEF SdSpec

\* Once the handler has nothing left to do, what is mounted, cached and, if no
\* call failed, indexed is the card in the slot (sd_card.c:83-157).
THEOREM CardIsTheSlots == InsertionFaultsOnly => (SdSpec => []CardFollowsSlot)
<1> SUFFICES ASSUME InsertionFaultsOnly PROVE SdSpec => []CardFollowsSlot
  OBVIOUS
<1>1. SdInv => CardFollowsSlot
  BY DEF SdInv, OneCard, SlotSeen, Announced, CardFollowsSlot, SdSettled
<1>2. QED
  BY <1>1, SdInvariant, PTL

-----------------------------------------------------------------------------
(***************************************************************************)
(* Mgr: the node manager leaves no scan, sync or connection behind, for    *)
(* any call that fails and any order of its callers, as long as the host   *)
(* does not call back from within the deletion of a sync; and a request to *)
(* pair is taken up, if no write of it races the coroutine as well.        *)
(***************************************************************************)

NotReentered == "reenter" \notin MgrFaults

RadioType ==
  radio \in [scan : BOOLEAN, sync : {"none", "pending", "synced"},
             conn : {"none", "pending", "up"}, bond : BOOLEAN]

\* NothingLeftOn also while mgr_run() is under way: what a coroutine began is
\* ended in the very step in which it returns.
RadioFollows ==
  /\ radio.scan <=> at \in ScanStates
  /\ radio.sync # "none" => at = "syncing"
  /\ radio.conn # "none" => at \in ConnStates

RadioInv == RadioType /\ RadioFollows /\ nested = FALSE

\* When mgr_run() is first called the radio is idle.
LEMMA RadioInvInit == MgrInit => RadioInv
BY DEF MgrInit, RadioInv, RadioType, RadioFollows, ScanStates, ConnStates

\* What the host reports changes a sync or a connection that there is.
LEMMA CallbackKeepsRadio ==
  ASSUME RadioInv, Callback
  PROVE  RadioInv'
<1>1. PICK e \in Event : Heard(e)
  BY DEF Callback
<1>2. RadioType'
  BY <1>1 DEF RadioInv, RadioType, Heard
<1>3. RadioFollows'
  BY <1>1 DEF Callback, RadioInv, RadioType, RadioFollows, Heard
<1>4. QED
  BY <1>2, <1>3 DEF Callback, RadioInv

\* The callers do not touch the radio, nor does the loop before it begins a
\* coroutine.
LEMMA LoopKeepsRadio ==
  ASSUME RadioInv, pair_start \/ pair_cancel \/ Enter \/ Start \/ Clear \/ Take \/ Resumed
  PROVE  RadioInv'
BY DEF RadioInv, RadioType, RadioFollows, ScanStates, ConnStates, Steps, pair_start,
   pair_cancel, Enter, Start, Clear, Take, Resumed

\* A coroutine that is begun scans, if the radio lets it.
LEMMA BeginKeepsRadio ==
  ASSUME RadioInv, Begin
  PROVE  RadioInv'
<1>1. CASE \E next \in ScanStates : Scan(next) /\ Stays
  <2>1. PICK next \in ScanStates : Scan(next) /\ Stays
    BY <1>1
  <2>2. QED
    BY <2>1 DEF Begin, Scan, Stays, RadioInv, RadioType, RadioFollows, ScanStates, ConnStates
<1>2. CASE Yield("unpaired") /\ UNCHANGED radio
  BY <1>2 DEF Begin, Yield, RadioInv, RadioType, RadioFollows, ScanStates, ConnStates
<1>3. QED
  BY <1>1, <1>2 DEF Begin, ScanStates

\* A coroutine that has to wait stays where it is.
LEMMA PendingKeepsRadio ==
  ASSUME RadioInv, Pending
  PROVE  RadioInv'
BY DEF Pending, Yield, RadioInv, RadioType, RadioFollows

\* A scan ends, when it is cancelled, has found what it looks for, or failed.
LEMMA ScansKeepRadio ==
  ASSUME RadioInv, ScanForSync \/ ScanForCentral
  PROVE  RadioInv'
BY DEF ScanForSync, ScanForCentral, StopScan, RadioInv, RadioType, RadioFollows,
   ScanStates, ConnStates

\* A sync ends with its coroutine.
LEMMA SyncingKeepsRadio ==
  ASSUME NotReentered, RadioInv, Syncing
  PROVE  RadioInv'
BY DEF NotReentered, Syncing, DeleteSync, RadioInv, RadioType, RadioFollows,
   ScanStates, ConnStates

\* So does a connection.
LEMMA PairingKeepsRadio ==
  ASSUME RadioInv, Connecting \/ Securing
  PROVE  RadioInv'
BY DEF Connecting, Securing, EndConn, RadioInv, RadioType, RadioFollows,
   ScanStates, ConnStates

\* The radio follows the coroutine in every state (mgr.cpp:319-696).
THEOREM RadioFollowsCoroutine == NotReentered => (MgrSpec => []RadioInv)
<1> SUFFICES ASSUME NotReentered PROVE MgrSpec => []RadioInv
  OBVIOUS
<1>1. MgrInit => RadioInv
  BY RadioInvInit
<1>2. RadioInv /\ [MgrNext]_mgrVars => RadioInv'
  <2> SUFFICES ASSUME RadioInv, [MgrNext]_mgrVars PROVE RadioInv'
    OBVIOUS
  <2>1. CASE Callback
    BY <2>1, CallbackKeepsRadio
  <2>2. CASE pair_start \/ pair_cancel \/ Enter \/ Start \/ Clear \/ Take \/ Resumed
    BY <2>2, LoopKeepsRadio
  <2>3. CASE Begin
    BY <2>3, BeginKeepsRadio
  <2>4. CASE Pending
    BY <2>4, PendingKeepsRadio
  <2>5. CASE ScanForSync \/ ScanForCentral
    BY <2>5, ScansKeepRadio
  <2>6. CASE Syncing
    BY <2>6, SyncingKeepsRadio
  <2>7. CASE Connecting \/ Securing
    BY <2>7, PairingKeepsRadio
  <2>8. CASE UNCHANGED mgrVars
    BY <2>8 DEF mgrVars, RadioInv, RadioType, RadioFollows
  <2>9. QED
    BY <2>1, <2>2, <2>3, <2>4, <2>5, <2>6, <2>7, <2>8 DEF MgrNext, mgr_run, Await
<1>3. QED
  BY <1>1, <1>2, PTL DEF MgrSpec

\* Between two calls the radio does what the coroutine is waiting for and
\* nothing else (the exits of mgr.cpp:381, 420, 513 and 657).
THEOREM NothingIsLeftOn == NotReentered => (MgrSpec => []NothingLeftOn)
<1> SUFFICES ASSUME NotReentered PROVE MgrSpec => []NothingLeftOn
  OBVIOUS
<1>1. RadioInv => NothingLeftOn
  BY DEF RadioInv, RadioFollows, NothingLeftOn
<1>2. QED
  BY <1>1, RadioFollowsCoroutine, PTL

\* The host starts a scan when it is asked to, nobody writes between two steps
\* of mgr_run(), and no call comes from within a deletion.
PairingHeard == {"scan", "race", "reenter"} \cap MgrFaults = {}

\* Where a request is that has not been begun: written and not yet cancelled
\* what is awaited; cancelled, so that the shell's own call ends it if no other
\* does; or picked up by the loop.
Requested ==
  \/ shell = "cmd" /\ cmd = "pair" /\ at \notin Steps \cup {"start"}
  \/ /\ shell = "call" /\ cmd = "pair" /\ cancel_command = TRUE
     /\ at \in Awaits \cup {"top"}
     /\ lock = "shell" => arg = TRUE
  \/ shell # "cmd" /\ at = "cleared" /\ cmd = "pair" /\ cancel_command = FALSE
  \/ shell # "cmd" /\ at = "taken" /\ taken = "pair" /\ cancel_command = FALSE

PairInv ==
  /\ RadioInv
  /\ at \in {"start"} \cup Awaits \cup Steps
  /\ {arg, cancel_command, asked} \subseteq BOOLEAN
  /\ at \in Steps => lock # "none"
  /\ lock = "shell" => shell = "call"
  /\ asked = TRUE => Requested

\* A request is written, and what is awaited is cancelled.
LEMMA ShellKeepsRequest ==
  ASSUME PairingHeard, PairInv, RadioInv', pair_start \/ pair_cancel
  PROVE  PairInv'
<1>1. CASE pair_start
  BY <1>1 DEF PairInv, Requested, pair_start, Racing, PairingHeard
<1>2. CASE pair_cancel
  BY <1>2 DEF PairInv, Requested, pair_cancel, Cancels, Awaits, ScanStates, ConnStates,
              Steps, RadioInv
<1>3. QED
  BY <1>1, <1>2

\* A call enters; the shell's own finds the cancellation.
LEMMA EnterKeepsRequest ==
  ASSUME PairInv, RadioInv', shell # "cmd", Enter
  PROVE  PairInv'
BY DEF PairInv, Requested, Enter, Steps

\* The loop picks the request up, and clears the cancellation before.
LEMMA LoopKeepsRequest ==
  ASSUME PairInv, RadioInv', shell # "cmd", Start \/ Clear \/ Take \/ Resumed \/ Callback
  PROVE  PairInv'
<1>1. CASE Start \/ Clear \/ Take
  BY <1>1 DEF PairInv, Requested, Start, Clear, Take, Steps, Awaits, ScanStates, ConnStates
<1>2. CASE Resumed \/ Callback
  BY <1>2 DEF PairInv, Requested, Resumed, Callback, Steps, Awaits
<1>3. QED
  BY <1>1, <1>2

\* The coroutine that is begun is the one that was asked for.
LEMMA BeginEndsRequest ==
  ASSUME PairingHeard, PairInv, RadioInv', shell # "cmd", Begin
  PROVE  PairInv'
<1>1. at = "taken" /\ radio.scan = FALSE /\ nested = FALSE
  BY DEF Begin, PairInv, RadioInv, RadioType, RadioFollows, ScanStates
<1>2. CASE asked = TRUE
  <2>1. taken = "pair" /\ cancel_command = FALSE
    BY <1>1, <1>2 DEF PairInv, Requested, Awaits, ScanStates, ConnStates, Steps
  <2>2. Scan("scan_central") /\ Stays
    BY <2>1 DEF Begin
  <2>3. asked' = FALSE /\ arg' = FALSE /\ at' = "scan_central"
    BY <1>1, <2>1, <2>2 DEF Scan, PairingHeard, PairInv
  <2>4. lock' = lock /\ shell' = shell /\ cancel_command' = cancel_command
    BY <2>2 DEF Begin, Stays
  <2>5. QED
    BY <2>3, <2>4 DEF PairInv, Steps, Awaits, ScanStates
<1>3. CASE asked = FALSE
  <2>1. asked' = FALSE
    BY <1>3 DEF Begin, Scan
  <2>2. arg' \in BOOLEAN /\ cancel_command' \in BOOLEAN
    BY DEF Begin, Scan, PairInv
  <2>3. lock # "none"
    BY <1>1 DEF PairInv, Steps
  <2>4. at' \in Awaits \cup {"top"}
    BY <1>1 DEF Begin, Scan, Yield, Awaits, ScanStates
  <2>5. CASE Stays
    BY <2>1, <2>2, <2>3, <2>4, <2>5 DEF Stays, PairInv, Steps
  <2>6. CASE Yield("unpaired")
    <3>1. at' = "unpaired" /\ lock' = "none"
      BY <1>1, <2>6 DEF Yield
    <3>2. QED
      BY <2>1, <2>2, <2>4, <3>1 DEF PairInv, Steps
  <2>7. QED
    BY <2>5, <2>6 DEF Begin
<1>4. QED
  BY <1>2, <1>3 DEF PairInv

\* A coroutine that has to wait has not been cancelled, so its caller is not
\* the shell with a request.
LEMMA PendingKeepsRequest ==
  ASSUME PairInv, RadioInv', shell # "cmd", Pending
  PROVE  PairInv'
<1>1. nested = FALSE /\ arg = FALSE /\ at \in Awaits \ {"unpaired"}
  BY DEF Pending, AwaitsSome, PairInv, RadioInv
<1>2. asked = TRUE => shell = "call" /\ lock # "shell" /\ cmd = "pair" /\ cancel_command = TRUE
  BY <1>1 DEF PairInv, Requested, Awaits, ScanStates, ConnStates
<1>3. lock' = "none" /\ at' = at /\ shell' \in {shell, "idle"} /\ (lock # "shell" => shell' = shell)
      /\ UNCHANGED <<cmd, cancel_command, arg, asked>>
  BY <1>1 DEF Pending, Yield
<1>4. QED
  BY <1>1, <1>2, <1>3 DEF PairInv, Requested, Steps, Awaits, ScanStates, ConnStates

\* What is awaited goes on, or ends at the top of the loop.
LEMMA AwaitKeepsRequest ==
  ASSUME PairInv, RadioInv', shell # "cmd", Await
  PROVE  PairInv'
<1>1. lock # "none" /\ at \in Awaits /\ at' \in Awaits \cup {"top"}
      /\ UNCHANGED <<cmd, cancel_command, arg, lock, shell, asked>>
  BY DEF Await, ScanForSync, Syncing, ScanForCentral, Connecting, Securing, AwaitsSome,
         Got, Canceled, Awaits, ScanStates, ConnStates
<1>2. QED
  BY <1>1 DEF PairInv, Requested, Steps, Awaits, ScanStates, ConnStates

\* When mgr_pair_start() has returned the node has begun to pair, whatever it
\* was doing, whatever was reported meanwhile and whichever thread's call got
\* the mutex (mgr_pair_start() and the loop of mgr_run(), mgr.cpp): the request
\* is neither overwritten by the end of what was awaited nor left for a call
\* that may not come.
THEOREM PairingIsBegun == PairingHeard => (MgrSpec => []PairingBegins)
<1> SUFFICES ASSUME PairingHeard PROVE MgrSpec => []PairingBegins
  OBVIOUS
<1>1. MgrInit => PairInv
  BY RadioInvInit DEF MgrInit, PairInv, Steps
<1>2. PairInv /\ RadioInv' /\ [MgrNext]_mgrVars => PairInv'
  <2> SUFFICES ASSUME PairInv, RadioInv', [MgrNext]_mgrVars PROVE PairInv'
    OBVIOUS
  <2>1. CASE pair_start \/ pair_cancel
    BY <2>1, ShellKeepsRequest
  <2>2. CASE shell # "cmd" /\ Enter
    BY <2>2, EnterKeepsRequest
  <2>3. CASE shell # "cmd" /\ (Start \/ Clear \/ Take \/ Resumed \/ Callback)
    BY <2>3, LoopKeepsRequest
  <2>4. CASE shell # "cmd" /\ Begin
    BY <2>4, BeginEndsRequest
  <2>5. CASE shell # "cmd" /\ Pending
    BY <2>5, PendingKeepsRequest
  <2>6. CASE shell # "cmd" /\ Await
    BY <2>6, AwaitKeepsRequest
  <2>7. CASE UNCHANGED mgrVars
    BY <2>7 DEF mgrVars, PairInv, Requested
  <2>8. QED
    BY <2>1, <2>2, <2>3, <2>4, <2>5, <2>6, <2>7
       DEF MgrNext, mgr_run, Racing, PairingHeard
<1>3. PairInv => PairingBegins
  BY DEF PairInv, Requested, PairingBegins, Steps, RadioInv
<1>4. NotReentered
  BY DEF NotReentered, PairingHeard
<1>5. MgrSpec => []RadioInv
  BY <1>4, RadioFollowsCoroutine
<1>6. QED
  BY <1>1, <1>2, <1>3, <1>5, PTL DEF MgrSpec

-----------------------------------------------------------------------------
(***************************************************************************)
(* AudioPipeline: a block and its time stay together, for any number of    *)
(* blocks; the time queue is the driver's blocks in order, and never       *)
(* shorter.                                                                *)
(***************************************************************************)

Held(b) == IF b = NoBlock THEN 0 ELSE 1

\* The blocks that wait for their time or still will.
Outstanding == Held(ablock) + Len(rxq) + Held(i2s.block)

\* There is a buffer for each block, and the thread has one just when it
\* takes a time.
BuffersCounted ==
  /\ BuffersUsed <= BlockCount
  /\ athread = "time" => ablock # NoBlock
  /\ athread \in {"start", "read"} => ablock = NoBlock

\* A driver that does not run has no buffer, and it does not run before the
\* thread has started it.
DriverIdle ==
  /\ i2s.state # "running" => i2s.block = NoBlock /\ ~i2s.next
  /\ athread = "start" => i2s.state = "ready" /\ rxq = <<>>

\* There is a time for each block.
TimesSuffice == Outstanding <= Len(times)

\* Until a restart it is the block's own, and while the stream runs there is
\* no other time in the queue.
TimesMatch ==
  restarts = 0 =>
    /\ i2s.state \in {"ready", "running"} => Len(times) = Outstanding
    /\ ablock # NoBlock => times[1] = ablock
    /\ \A k \in 1 .. Len(rxq) : times[Held(ablock) + k] = rxq[k]
    /\ i2s.block # NoBlock => times[Held(ablock) + Len(rxq) + 1] = i2s.block

AudioInv ==
  AudioTypeOK /\ BuffersCounted /\ DriverIdle /\ TimesSuffice /\ TimesMatch /\ OwnTime

\* audio_init() has created the thread; nothing is outstanding.
LEMMA AudioInvInit == AudioInit => AudioInv
<1> SUFFICES ASSUME AudioInit PROVE AudioInv
  OBVIOUS
<1>1. AudioTypeOK
  <2>1. 0 \in Number /\ NoBlock \in BlockOr /\ BlockCount - 1 >= 0
    BY AudioAssumption DEF NoBlock, Number, BlockOr
  <2>2. i2s \in [state : {"ready", "running", "error"}, block : BlockOr,
                 next : BOOLEAN, number : Number]
    BY <2>1 DEF AudioInit
  <2>3. paired \in [block : BlockOr, time : BlockOr]
    BY <2>1 DEF AudioInit
  <2>4. rxq \in Seq(Number) /\ Len(rxq) = 0 /\ times \in Seq(Number) /\ Len(times) = 0
    BY DEF AudioInit
  <2>5. Len(rxq) <= BlockCount - 1 /\ Len(times) <= BlockCount
    BY <2>4, AudioAssumption
  <2>6. ablock \in BlockOr /\ restarts \in 0 .. 2
        /\ athread \in {"start", "read", "time", "dead"}
        /\ ainit \in {"waiting", "given", "ready", "failed"}
    BY <2>1 DEF AudioInit
  <2>7. QED
    BY <2>2, <2>3, <2>4, <2>5, <2>6 DEF AudioInit, AudioTypeOK
<1>2. BuffersCounted /\ DriverIdle /\ TimesSuffice /\ TimesMatch /\ OwnTime
  BY AudioAssumption DEF AudioInit, BuffersCounted, DriverIdle, BuffersUsed, TimesSuffice,
     TimesMatch, OwnTime, Outstanding, Held
<1>3. QED
  BY <1>1, <1>2 DEF AudioInv

\* The parts of the state that the arithmetic of the queues is about.
LEMMA AudioNumbers ==
  ASSUME AudioTypeOK
  PROVE  /\ BlockCount \in Nat /\ BlockCount >= 3 /\ BlockMod \in Nat /\ BlockMod > 0
         /\ i2s.number \in Number /\ i2s.block \in BlockOr /\ ablock \in BlockOr
         /\ i2s.next \in BOOLEAN
         /\ NoBlock \notin Number
         /\ (i2s.number + 1) % BlockMod \in Number
         /\ rxq \in Seq(Number) /\ times \in Seq(Number)
         /\ Len(rxq) \in Nat /\ Len(times) \in Nat
BY AudioAssumption DEF AudioTypeOK, Number, NoBlock, BlockOr

\* A buffer holds a block that is outstanding, or is the hardware's next.
LEMMA BuffersAreBlocks ==
  ASSUME AudioTypeOK
  PROVE  /\ Outstanding \in Nat
         /\ Held(ablock) \in {0, 1} /\ Held(i2s.block) \in {0, 1}
         /\ i2s.next => BuffersUsed = Outstanding + 1
         /\ ~i2s.next => BuffersUsed = Outstanding
<1>1. Held(ablock) \in {0, 1} /\ Held(i2s.block) \in {0, 1}
  BY DEF Held
<1>2. BuffersUsed = Len(rxq) + Held(i2s.block) + (IF i2s.next THEN 1 ELSE 0) + Held(ablock)
  BY DEF BuffersUsed, Held
<1>3. QED
  BY <1>1, <1>2, AudioNumbers DEF Outstanding

\* The driver's queue once the complete block is in it.
Complete == IF i2s.block = NoBlock THEN rxq ELSE Append(rxq, i2s.block)

LEMMA CompleteQueue ==
  ASSUME AudioInv, BlockBegins
  PROVE  /\ Complete \in Seq(Number) /\ Len(Complete) = Len(rxq) + Held(i2s.block)
         /\ Len(Complete) <= BlockCount - 1
         /\ \A k \in 1 .. Len(rxq) : Complete[k] = rxq[k]
         /\ i2s.block # NoBlock => Complete[Len(rxq) + 1] = i2s.block
<1>1. /\ rxq \in Seq(Number) /\ Len(rxq) \in Nat /\ BlockCount \in Nat
      /\ i2s.block # NoBlock => i2s.block \in Number
  BY AudioNumbers DEF AudioInv, BlockOr
<1>2. /\ Complete \in Seq(Number) /\ Len(Complete) = Len(rxq) + Held(i2s.block)
      /\ \A k \in 1 .. Len(rxq) : Complete[k] = rxq[k]
      /\ i2s.block # NoBlock => Complete[Len(rxq) + 1] = i2s.block
  BY <1>1 DEF Held, Complete
<1>3. Len(Complete) <= BlockCount - 1
  <2>1. i2s.next /\ BuffersUsed <= BlockCount
    BY DEF AudioInv, BuffersCounted, BlockBegins
  <2>2. Held(ablock) \in {0, 1} /\ Held(i2s.block) \in {0, 1}
    BY DEF Held
  <2>3. QED
    BY <1>1, <1>2, <2>1, <2>2, BuffersAreBlocks DEF AudioInv, Outstanding
<1>4. QED
  BY <1>2, <1>3

\* The hardware turns to the next buffer, or the driver stops for want of one.
GoesOn ==
  /\ BuffersUsed < BlockCount
  /\ i2s' = [i2s EXCEPT !.block = i2s.number, !.number = (@ + 1) % BlockMod]
  /\ rxq' = Complete

Stops ==
  /\ i2s' = [i2s EXCEPT !.state = "error", !.block = NoBlock, !.next = FALSE,
                        !.number = (@ + 1) % BlockMod]
  /\ \/ rxq' = Complete
     \/ rxq' = Append(Complete, i2s.number) /\ Len(Complete) < BlockCount - 1

LEMMA BlockBeginsCases ==
  ASSUME AudioInv, BlockBegins
  PROVE  GoesOn \/ Stops
BY CompleteQueue DEF BlockBegins, StopsWith, GoesOn, Stops, Complete

\* The driver's interrupts keep a time for each block, and its own while the
\* queue of times has just as many.
LEMMA BlockBeginsKeepsInv ==
  ASSUME AudioInv, BlockBegins
  PROVE  AudioInv'
<1>1. GoesOn \/ Stops
  BY BlockBeginsCases
<1>2. /\ times' \in Seq(Number) /\ Len(times) \in Nat /\ Len(times') <= BlockCount
      /\ IF Len(times) < BlockCount
         THEN times' = Append(times, i2s.number) /\ Len(times') = Len(times) + 1
         ELSE times' = times /\ Len(times) = BlockCount
  <2>1. /\ Len(times) \in Nat /\ BlockCount \in Nat /\ Len(times) <= BlockCount
        /\ times \in Seq(Number) /\ i2s.number \in Number
    BY AudioNumbers DEF AudioInv, AudioTypeOK
  <2>2. IF Len(times) < BlockCount
        THEN times' = Append(times, i2s.number)
        ELSE times' = times
    BY DEF BlockBegins, audio_egu_handler, Stamps, TimeQueueSize
  <2>3. QED
    BY <2>1, <2>2
<1>3. adrops' \in BOOLEAN
  BY DEF BlockBegins, audio_egu_handler, Stamps, AudioInv, AudioTypeOK
<1>4. /\ i2s.state = "running" /\ i2s.next
      /\ UNCHANGED <<athread, ablock, ainit, paired, restarts>>
  BY DEF BlockBegins
<1>5. /\ Outstanding = Held(ablock) + Len(Complete)
      /\ Outstanding + 1 = BuffersUsed /\ BuffersUsed <= BlockCount
      /\ Outstanding \in Nat /\ Held(ablock) \in {0, 1}
  BY <1>4, CompleteQueue, BuffersAreBlocks, AudioNumbers
     DEF AudioInv, Outstanding, BuffersCounted
<1>6. /\ rxq' \in Seq(Number) /\ Len(rxq') <= BlockCount - 1
      /\ Held(i2s'.block) + Len(rxq') \in {Len(Complete), Len(Complete) + 1}
      /\ Len(rxq') \in Nat
  <2>1. /\ Complete \in Seq(Number) /\ Len(Complete) \in Nat /\ i2s.number \in Number
        /\ Len(Complete) <= BlockCount - 1 /\ BlockCount \in Nat /\ i2s.number # NoBlock
    BY CompleteQueue, AudioNumbers DEF AudioInv
  <2>2. CASE GoesOn
    <3>1. rxq' = Complete /\ i2s'.block = i2s.number
      BY <2>2 DEF GoesOn, AudioInv, AudioTypeOK
    <3>2. QED
      BY <2>1, <3>1 DEF Held
  <2>3. CASE Stops
    <3>1. i2s'.block = NoBlock
      BY <2>3 DEF Stops, AudioInv, AudioTypeOK
    <3>2. CASE rxq' = Complete
      BY <2>1, <3>1, <3>2 DEF Held
    <3>3. CASE rxq' = Append(Complete, i2s.number) /\ Len(Complete) < BlockCount - 1
      BY <2>1, <3>1, <3>3 DEF Held
    <3>4. QED
      BY <2>3, <3>2, <3>3 DEF Stops
  <2>4. QED
    BY <1>1, <2>2, <2>3
<1>7. i2s' \in [state : {"ready", "running", "error"}, block : BlockOr,
                next : BOOLEAN, number : Number]
  BY <1>1, AudioNumbers DEF GoesOn, Stops, AudioInv, AudioTypeOK, BlockOr
<1>8. AudioTypeOK'
  BY <1>2, <1>3, <1>4, <1>6, <1>7 DEF AudioInv, AudioTypeOK
<1>9. Outstanding' \in {Outstanding, Outstanding + 1}
  <2>1. Outstanding' = Held(ablock) + Len(rxq') + Held(i2s'.block)
    BY <1>4 DEF Outstanding, Held
  <2>2. Held(i2s'.block) \in {0, 1}
    BY DEF Held
  <2>3. Len(Complete) \in Nat
    BY CompleteQueue
  <2>4. QED
    BY <2>1, <2>2, <2>3, <1>5, <1>6
<1>10. BuffersCounted'
  <2>1. BuffersUsed' = IF i2s'.next THEN Outstanding' + 1 ELSE Outstanding'
    <3>1. /\ Len(rxq') \in Nat /\ Held(ablock') \in {0, 1} /\ Held(i2s'.block) \in {0, 1}
          /\ i2s'.next \in BOOLEAN
      BY <1>6, <1>7 DEF Held
    <3>2. BuffersUsed' = Len(rxq') + Held(i2s'.block) + (IF i2s'.next THEN 1 ELSE 0)
                           + Held(ablock')
      BY DEF BuffersUsed, Held
    <3>3. Outstanding' = Held(ablock') + Len(rxq') + Held(i2s'.block)
      BY DEF Outstanding, Held
    <3>4. QED
      BY <3>1, <3>2, <3>3
  <2>2. BuffersUsed' <= BlockCount
    <3>1. BlockCount \in Nat
      BY AudioNumbers DEF AudioInv
    <3>2. CASE GoesOn
      BY <2>1, <3>1, <3>2, <1>5, <1>9 DEF GoesOn
    <3>3. CASE Stops
      <4>1. ~i2s'.next
        BY <3>3 DEF Stops, AudioInv, AudioTypeOK
      <4>2. QED
        BY <2>1, <3>1, <4>1, <1>5, <1>9
    <3>4. QED
      BY <1>1, <3>2, <3>3
  <2>3. QED
    BY <2>2, <1>4 DEF BuffersCounted, AudioInv
<1>11. TimesSuffice'
  BY <1>2, <1>5, <1>9, AudioNumbers DEF AudioInv, TimesSuffice
<1>12. TimesMatch'
  <2> SUFFICES ASSUME restarts = 0 PROVE TimesMatch'
    BY <1>4 DEF TimesMatch
  <2>1. /\ Len(times) = Outstanding /\ Len(times) < BlockCount
        /\ ablock # NoBlock => times[1] = ablock
    BY <1>4, <1>5, AudioNumbers DEF AudioInv, TimesMatch
  <2>2. \A k \in 1 .. Len(Complete) : times[Held(ablock) + k] = Complete[k]
    BY <1>5, CompleteQueue, AudioNumbers DEF AudioInv, TimesMatch, Held
  <2>3. /\ Len(times') = Outstanding + 1
        /\ times'[Held(ablock) + Len(Complete) + 1] = i2s.number
        /\ \A k \in 1 .. Len(times) : times'[k] = times[k]
    BY <2>1, <1>2, <1>5, AudioNumbers DEF AudioInv
  <2>4. ablock # NoBlock => times'[1] = ablock
    BY <2>1, <2>3, <1>5, CompleteQueue DEF Held
  <2>5. \A k \in 1 .. Len(Complete) : times'[Held(ablock) + k] = Complete[k]
    BY <2>1, <2>2, <2>3, <1>5, CompleteQueue
  <2>6. Held(ablock)' = Held(ablock)
    BY <1>4 DEF Held
  <2>7. CASE GoesOn
    <3>1. Outstanding' = Outstanding + 1
      BY <2>6, <2>7, <1>5, CompleteQueue, AudioNumbers
         DEF GoesOn, Outstanding, Held, AudioInv, AudioTypeOK
    <3>2. i2s'.block = i2s.number /\ rxq' = Complete
      BY <2>7 DEF GoesOn, AudioInv, AudioTypeOK
    <3>3. QED
      BY <2>3, <2>4, <2>5, <2>6, <3>1, <3>2, <1>4 DEF TimesMatch
  <2>8. CASE Stops
    <3>1. i2s'.block = NoBlock /\ i2s'.state = "error"
      BY <2>8 DEF Stops, AudioInv, AudioTypeOK
    <3>2. \A k \in 1 .. Len(rxq') : times'[Held(ablock) + k] = rxq'[k]
      <4>1. Complete \in Seq(Number) /\ i2s.number \in Number
        BY CompleteQueue, AudioNumbers DEF AudioInv
      <4>2. CASE rxq' = Complete
        BY <2>5, <4>2
      <4>3. CASE rxq' = Append(Complete, i2s.number)
        <5>1. /\ Len(rxq') = Len(Complete) + 1 /\ rxq'[Len(Complete) + 1] = i2s.number
              /\ \A k \in 1 .. Len(Complete) : rxq'[k] = Complete[k]
              /\ Len(Complete) \in Nat
          BY <4>1, <4>3
        <5>2. times'[Held(ablock) + (Len(Complete) + 1)] = i2s.number
          BY <2>3, <5>1, <1>5
        <5>3. QED
          BY <2>5, <5>1, <5>2
      <4>4. QED
        BY <2>8, <4>2, <4>3 DEF Stops
    <3>3. QED
      BY <2>4, <2>6, <3>1, <3>2, <1>4 DEF TimesMatch
  <2>9. QED
    BY <1>1, <2>7, <2>8
<1>13. OwnTime'
  BY <1>4 DEF AudioInv, OwnTime
<1>14. DriverIdle'
  BY <1>1, <1>4 DEF GoesOn, Stops, AudioInv, AudioTypeOK, DriverIdle
<1>15. QED
  BY <1>8, <1>10, <1>11, <1>12, <1>13, <1>14 DEF AudioInv

\* A driver that is started has an empty queue and takes its first buffer.
LEMMA StartedKeepsInv ==
  ASSUME AudioInv, Started(i2s), i2s.state # "running",
         rxq = <<>>, ablock = NoBlock, athread' = "read",
         restarts' = restarts \/ restarts' \in 1 .. 2,
         i2s.state = "ready" \/ restarts' # 0,
         UNCHANGED <<rxq, times, ablock, ainit, paired, adrops>>
  PROVE  AudioInv'
<1>1. i2s.block = NoBlock /\ ~i2s.next /\ Outstanding = 0
  BY DEF AudioInv, DriverIdle, Outstanding, Held
<1>2. i2s'.block = NoBlock /\ i2s'.next /\ i2s'.state = "running"
  BY <1>1 DEF Started, AudioInv, AudioTypeOK
<1>3. AudioTypeOK'
  <2>1. i2s' \in [state : {"ready", "running", "error"}, block : BlockOr,
                  next : BOOLEAN, number : Number]
    BY DEF Started, AudioInv, AudioTypeOK
  <2>2. restarts' \in 0 .. 2 /\ athread' \in {"start", "read", "time", "dead"}
    BY DEF AudioInv, AudioTypeOK
  <2>3. QED
    BY <2>1, <2>2 DEF AudioInv, AudioTypeOK
<1>4. Outstanding' = 0
  BY <1>1, <1>2 DEF Outstanding, Held
<1>5. BuffersCounted'
  BY <1>2, AudioNumbers DEF AudioInv, BuffersCounted, BuffersUsed
<1>6. DriverIdle' /\ TimesSuffice' /\ OwnTime'
  BY <1>2, <1>4, AudioNumbers DEF AudioInv, AudioTypeOK, DriverIdle, TimesSuffice, OwnTime
<1>7. TimesMatch'
  BY <1>1, <1>2, <1>4 DEF AudioInv, AudioTypeOK, TimesMatch, Held
<1>8. QED
  BY <1>3, <1>5, <1>6, <1>7 DEF AudioInv

\* The thread starts the stream, or ends.
LEMMA ThreadStartKeepsInv ==
  ASSUME AudioInv, ThreadStart
  PROVE  AudioInv'
<1>1. CASE athread' = "read" /\ Started(i2s)
  <2>1. i2s.state = "ready" /\ rxq = <<>> /\ ablock = NoBlock
    BY DEF ThreadStart, AudioInv, DriverIdle, BuffersCounted
  <2>2. QED
    BY <1>1, <2>1, StartedKeepsInv DEF ThreadStart
<1>2. CASE athread' = "dead" /\ UNCHANGED i2s
  BY <1>2 DEF ThreadStart, AudioInv, AudioTypeOK, BuffersCounted, BuffersUsed, DriverIdle,
     TimesSuffice, TimesMatch, OwnTime, Outstanding, Held
<1>3. QED
  BY <1>1, <1>2 DEF ThreadStart

\* So it does after an error, when all blocks have been read.
LEMMA ThreadRestartKeepsInv ==
  ASSUME AudioInv, ThreadRestart
  PROVE  AudioInv'
<1>1. /\ restarts' \in 1 .. 2 /\ ablock = NoBlock /\ rxq = <<>> /\ i2s.state = "error"
      /\ UNCHANGED <<rxq, times, ablock, ainit, paired, adrops>>
  BY DEF ThreadRestart, AudioInv, AudioTypeOK, BuffersCounted
<1>2. CASE athread' = "read" /\ Started(i2s)
  BY <1>1, <1>2, StartedKeepsInv
<1>3. CASE athread' = "dead" /\ i2s' = [i2s EXCEPT !.state = "ready"]
  <2>1. AudioTypeOK'
    BY <1>1, <1>3 DEF AudioInv, AudioTypeOK
  <2>2. i2s'.block = i2s.block /\ i2s'.next = i2s.next
    BY <1>3 DEF AudioInv, AudioTypeOK
  <2>3. BuffersCounted' /\ DriverIdle' /\ TimesSuffice'
    BY <1>1, <1>3, <2>2 DEF AudioInv, BuffersCounted, BuffersUsed, DriverIdle, TimesSuffice,
       Outstanding, Held
  <2>4. TimesMatch' /\ OwnTime'
    BY <1>1 DEF TimesMatch, OwnTime
  <2>5. QED
    BY <2>1, <2>3, <2>4 DEF AudioInv
<1>4. QED
  BY <1>2, <1>3 DEF ThreadRestart

\* A block that is read is still outstanding.
LEMMA ThreadReadKeepsInv ==
  ASSUME AudioInv, ThreadRead
  PROVE  AudioInv'
<1>1. /\ ablock = NoBlock /\ rxq # <<>> /\ ablock' = Head(rxq) /\ rxq' = Tail(rxq)
      /\ athread = "read" /\ athread' = "time"
      /\ UNCHANGED <<i2s, times, ainit, paired, adrops, restarts>>
  BY DEF ThreadRead, AudioInv, BuffersCounted
<1>2. /\ Head(rxq) \in Number /\ Head(rxq) # NoBlock /\ Head(rxq) = rxq[1]
      /\ Tail(rxq) \in Seq(Number) /\ Len(Tail(rxq)) = Len(rxq) - 1
      /\ \A k \in 1 .. Len(Tail(rxq)) : Tail(rxq)[k] = rxq[k + 1]
      /\ Len(rxq) \in Nat \ {0} /\ BlockCount \in Nat
  BY <1>1, AudioNumbers DEF AudioInv
<1>3. Held(ablock) = 0 /\ Held(ablock') = 1 /\ Held(i2s.block) \in {0, 1}
  BY <1>1, <1>2 DEF Held
<1>4. AudioTypeOK'
  BY <1>1, <1>2 DEF AudioInv, AudioTypeOK, BlockOr
<1>5. Outstanding' = Outstanding
  <2>1. Outstanding' = Held(ablock') + Len(rxq') + Held(i2s.block)
    BY <1>1 DEF Outstanding, Held
  <2>2. QED
    BY <2>1, <1>1, <1>2, <1>3 DEF Outstanding
<1>6. BuffersUsed' = BuffersUsed
  BY <1>1, <1>2 DEF BuffersUsed
<1>7. BuffersCounted' /\ DriverIdle' /\ TimesSuffice' /\ OwnTime'
  BY <1>1, <1>2, <1>5, <1>6 DEF AudioInv, BuffersCounted, DriverIdle, TimesSuffice, OwnTime
<1>8. TimesMatch'
  <2> SUFFICES ASSUME restarts = 0 PROVE TimesMatch'
    BY <1>1 DEF TimesMatch
  <2>1. \A k \in 1 .. Len(rxq) : times[k] = rxq[k]
    BY <1>3, AudioNumbers DEF AudioInv, TimesMatch
  <2>2. times[1] = ablock'
    BY <2>1, <1>1, <1>2
  <2>3. \A k \in 1 .. Len(rxq') : times[1 + k] = rxq'[k]
    BY <2>1, <1>1, <1>2
  <2>4. i2s.block # NoBlock => times[1 + Len(rxq') + 1] = i2s.block
    BY <1>1, <1>2, <1>3 DEF AudioInv, TimesMatch
  <2>5. QED
    BY <2>2, <2>3, <2>4, <1>1, <1>3, <1>5 DEF AudioInv, TimesMatch, Held
<1>9. QED
  BY <1>4, <1>7, <1>8 DEF AudioInv

\* A block takes the first time, and all others move up.
LEMMA ThreadTimeKeepsInv ==
  ASSUME AudioInv, ThreadTime
  PROVE  AudioInv'
<1>1. /\ ablock # NoBlock /\ times # <<>> /\ times' = Tail(times)
      /\ ablock' = NoBlock /\ athread = "time" /\ athread' = "read"
      /\ paired' = [block |-> ablock, time |-> Head(times)]
      /\ UNCHANGED <<i2s, rxq, adrops, restarts>>
  BY DEF ThreadTime, AudioInv, BuffersCounted
<1>2. /\ Head(times) \in Number /\ Head(times) = times[1]
      /\ Tail(times) \in Seq(Number) /\ Len(Tail(times)) = Len(times) - 1
      /\ \A k \in 1 .. Len(times) - 1 : Tail(times)[k] = times[k + 1]
      /\ Len(times) \in Nat \ {0} /\ BlockCount \in Nat
  BY <1>1, AudioNumbers DEF AudioInv
<1>3. /\ Held(ablock) = 1 /\ Held(ablock') = 0 /\ Held(i2s.block) \in {0, 1}
      /\ Len(rxq) \in Nat
  BY <1>1, AudioNumbers DEF Held, AudioInv
<1>4. AudioTypeOK'
  <2>1. paired' \in [block : BlockOr, time : BlockOr] /\ ablock' \in BlockOr
    BY <1>1, <1>2 DEF AudioInv, AudioTypeOK, BlockOr
  <2>2. ainit' \in {"waiting", "given", "ready", "failed"}
    BY DEF ThreadTime, AudioInv, AudioTypeOK
  <2>3. QED
    BY <2>1, <2>2, <1>1, <1>2 DEF AudioInv, AudioTypeOK
<1>5. Outstanding' = Outstanding - 1
  <2>1. Outstanding' = Held(ablock') + Len(rxq) + Held(i2s.block)
    BY <1>1 DEF Outstanding, Held
  <2>2. QED
    BY <2>1, <1>3 DEF Outstanding
<1>6. BuffersUsed' = BuffersUsed - 1 /\ BuffersUsed \in Nat
  <2>1. i2s.next \in BOOLEAN
    BY AudioNumbers DEF AudioInv
  <2>2. /\ BuffersUsed = Len(rxq) + Held(i2s.block) + (IF i2s.next THEN 1 ELSE 0)
                            + Held(ablock)
        /\ BuffersUsed' = Len(rxq) + Held(i2s.block) + (IF i2s.next THEN 1 ELSE 0)
                            + Held(ablock')
    BY <1>1 DEF BuffersUsed, Held
  <2>3. QED
    BY <2>1, <2>2, <1>3
<1>7. BuffersCounted' /\ DriverIdle' /\ TimesSuffice'
  BY <1>1, <1>2, <1>3, <1>5, <1>6, BuffersAreBlocks
     DEF AudioInv, BuffersCounted, DriverIdle, TimesSuffice
<1>8. TimesMatch' /\ OwnTime'
  <2> SUFFICES ASSUME restarts = 0 PROVE TimesMatch' /\ OwnTime'
    BY <1>1 DEF TimesMatch, OwnTime
  <2>1. /\ times[1] = ablock
        /\ \A k \in 1 .. Len(rxq) : times[1 + k] = rxq[k]
        /\ i2s.block # NoBlock => times[1 + Len(rxq) + 1] = i2s.block
        /\ i2s.state \in {"ready", "running"} => Len(times) = Outstanding
        /\ Outstanding <= Len(times)
    BY <1>1, <1>3 DEF AudioInv, TimesMatch, TimesSuffice
  <2>2. 1 + Len(rxq) <= Len(times) /\ (i2s.block # NoBlock => 1 + Len(rxq) + 1 <= Len(times))
    <3>1. Outstanding = 1 + Len(rxq) + Held(i2s.block)
      BY <1>3 DEF Outstanding
    <3>2. i2s.block # NoBlock => Held(i2s.block) = 1
      BY DEF Held
    <3>3. QED
      BY <2>1, <3>1, <3>2, <1>2, <1>3
  <2>3. \A k \in 1 .. Len(rxq) : times'[k] = rxq[k]
    BY <2>1, <2>2, <1>1, <1>2, <1>3
  <2>4. i2s.block # NoBlock => times'[Len(rxq) + 1] = i2s.block
    BY <2>1, <2>2, <1>1, <1>2, <1>3
  <2>5. TimesMatch'
    <3>1. i2s.state \in {"ready", "running"} => Len(times') = Outstanding'
      BY <2>1, <1>1, <1>2, <1>5
    <3>2. \A k \in 1 .. Len(rxq) : Held(ablock)' + k = k
      BY <1>3
    <3>3. Held(ablock)' + Len(rxq) + 1 = Len(rxq) + 1
      BY <1>3
    <3>4. rxq' = rxq /\ i2s' = i2s /\ ablock' = NoBlock
      BY <1>1
    <3>5. QED
      BY <2>3, <2>4, <3>1, <3>2, <3>3, <3>4, Zenon DEF TimesMatch
  <2>6. OwnTime'
    BY <2>1, <1>1, <1>2 DEF OwnTime
  <2>7. QED
    BY <2>5, <2>6
<1>9. QED
  BY <1>4, <1>7, <1>8 DEF AudioInv

\* There is always a time for a block that has been read.
LEMMA TimeForBlock == AudioInv => TimeIsThere
<1> SUFFICES ASSUME AudioInv, athread = "time" PROVE times # <<>>
  BY DEF TimeIsThere
<1>1. Held(ablock) = 1
  BY DEF AudioInv, BuffersCounted, Held
<1>2. Len(times) >= 1
  BY <1>1, BuffersAreBlocks, AudioNumbers DEF AudioInv, TimesSuffice, Outstanding
<1>3. QED
  BY <1>2

\* The thread gives up, or audio_init() goes on.
LEMMA OthersKeepInv ==
  ASSUME AudioInv, ThreadStalled \/ audio_init
  PROVE  AudioInv'
<1>1. /\ UNCHANGED <<i2s, rxq, times, ablock, paired, adrops, restarts>>
      /\ athread' = athread \/ athread' = "dead"
      /\ ainit' \in {"waiting", "given", "ready", "failed"}
  BY DEF ThreadStalled, audio_init, AudioInv, AudioTypeOK
<1>2. QED
  BY <1>1 DEF AudioInv, AudioTypeOK, BuffersCounted, BuffersUsed, DriverIdle,
     TimesSuffice, TimesMatch, OwnTime, Outstanding, Held

\* Blocks and times stay together (audio.c:204-289).
THEOREM AudioInvariant == AudioSpec => []AudioInv
<1>1. AudioInit => AudioInv
  BY AudioInvInit
<1>2. AudioInv /\ [AudioNext]_audioVars => AudioInv'
  <2> SUFFICES ASSUME AudioInv, [AudioNext]_audioVars PROVE AudioInv'
    OBVIOUS
  <2>1. CASE BlockBegins
    BY <2>1, BlockBeginsKeepsInv
  <2>2. CASE ThreadStart
    BY <2>2, ThreadStartKeepsInv
  <2>3. CASE ThreadRead
    BY <2>3, ThreadReadKeepsInv
  <2>4. CASE ThreadRestart
    BY <2>4, ThreadRestartKeepsInv
  <2>5. CASE ThreadTime
    BY <2>5, ThreadTimeKeepsInv
  <2>6. CASE ThreadNoTime
    BY <2>6, TimeForBlock DEF ThreadNoTime, TimeIsThere
  <2>7. CASE ThreadStalled \/ audio_init
    BY <2>7, OthersKeepInv
  <2>8. CASE UNCHANGED audioVars
    BY <2>8 DEF audioVars, AudioInv, AudioTypeOK, BuffersCounted, BuffersUsed, DriverIdle,
       TimesSuffice, TimesMatch, OwnTime, Outstanding, Held
  <2>9. QED
    BY <2>1, <2>2, <2>3, <2>4, <2>5, <2>6, <2>7, <2>8 DEF AudioNext, AudioThread
<1>3. QED
  BY <1>1, <1>2, PTL DEF AudioSpec

\* In a stream that has not been restarted every block the recorder gets has
\* the time at which it began, and the thread never ends for the lack of a time
\* (audio.c:237-248).
THEOREM BlocksHaveTheirTime == AudioSpec => []BlocksGetTheirTime
<1>1. AudioInv => BlocksGetTheirTime
  BY TimeForBlock DEF AudioInv, BlocksGetTheirTime
<1>2. QED
  BY <1>1, AudioInvariant, PTL

-----------------------------------------------------------------------------
(***************************************************************************)
(* Ftp: every open descriptor has exactly one place it will be closed      *)
(* from, for any number of connections and descriptors, unless PASV        *)
(* cannot find the address of its client. The holders of the descriptors   *)
(* are counted over places: the two sockets of the server and the three    *)
(* of each connection.                                                     *)
(***************************************************************************)

\* The sockets of a connection
Roles == {"control", "listen", "transfer"}

\* The places that keep a descriptor, and what each keeps.
Place == ({"server"} \X {"listen", "client"})
           \cup (Conn \X Roles)

Part(k, role) ==
  IF role = "control" THEN k.socket
  ELSE IF role = "listen" THEN k.data_socket ELSE k.transfer

Kept(p) ==
  IF p[1] # "server" THEN Part(conn[p[1]], p[2])
  ELSE IF p[2] = "listen" THEN server.socket ELSE server.client

FdAt == [p \in Place |-> Kept(p)]

\* The server is not one of the connection threads.
ThreadsDiffer == "server" \notin Conn

\* Every descriptor of a table is kept in exactly one place.
Owns(held, table) ==
  /\ table \subseteq Fd
  /\ held \in [Place -> FdOr]
  /\ \A p \in Place : held[p] # Unopened => held[p] \in table
  /\ \A p, q \in Place : held[p] # Unopened /\ held[p] = held[q] => p = q
  /\ \A f \in table : \E p \in Place : held[p] = f

SameBut(old, new, S) == \A p \in Place \ S : new[p] = old[p]

\* A descriptor that was not in the table goes to an empty place.
LEMMA OwnsOpened ==
  ASSUME NEW old, NEW table, Owns(old, table), NEW new \in [Place -> FdOr],
         NEW p \in Place, old[p] = Unopened, NEW f \in Fd, f \notin table,
         new[p] = f, SameBut(old, new, {p})
  PROVE  Owns(new, table \cup {f})
<1>1. f # Unopened
  BY FtpAssumption DEF Fd, Unopened
<1>2. \A q \in Place : q # p => new[q] = old[q]
  BY DEF SameBut
<1>3. \A q \in Place : new[q] # Unopened => new[q] \in table \cup {f}
  BY <1>2 DEF Owns
<1>4. \A q, r \in Place : new[q] # Unopened /\ new[q] = new[r] => q = r
  BY <1>2 DEF Owns
<1>5. \A g \in table \cup {f} : \E q \in Place : new[q] = g
  <2> SUFFICES ASSUME NEW g \in table PROVE \E q \in Place : new[q] = g
    OBVIOUS
  <2>1. PICK q \in Place : old[q] = g
    BY DEF Owns
  <2>2. g # Unopened
    BY FtpAssumption DEF Owns, Fd, Unopened
  <2>3. q # p
    BY <2>1, <2>2
  <2>4. QED
    BY <1>2, <2>1, <2>3
<1>6. QED
  BY <1>3, <1>4, <1>5 DEF Owns

\* The descriptors of some places are closed, and the places emptied.
LEMMA OwnsClosed ==
  ASSUME NEW old, NEW table, Owns(old, table), NEW new \in [Place -> FdOr],
         NEW S \in SUBSET Place, NEW closed,
         \A p \in S : new[p] = Unopened /\ old[p] \in closed,
         \A f \in closed : f = Unopened \/ \E p \in S : old[p] = f,
         SameBut(old, new, S)
  PROVE  Owns(new, table \ closed)
<1>1. \A q \in Place : q \notin S => new[q] = old[q]
  BY DEF SameBut
<1>2. \A q \in Place : new[q] # Unopened => new[q] \in table \ closed
  <2> SUFFICES ASSUME NEW q \in Place, new[q] # Unopened PROVE new[q] \in table \ closed
    OBVIOUS
  <2>1. q \notin S /\ new[q] = old[q] /\ old[q] \in table
    BY <1>1 DEF Owns
  <2>2. ASSUME old[q] \in closed PROVE FALSE
    <3>1. PICK p \in S : old[p] = old[q]
      BY <2>1, <2>2
    <3>2. p = q
      BY <2>1, <3>1 DEF Owns
    <3>3. QED
      BY <2>1, <3>2
  <2>3. QED
    BY <2>1, <2>2
<1>3. \A q, r \in Place : new[q] # Unopened /\ new[q] = new[r] => q = r
  BY <1>1 DEF Owns
<1>4. \A g \in table \ closed : \E q \in Place : new[q] = g
  BY <1>1 DEF Owns
<1>5. QED
  BY <1>2, <1>3, <1>4 DEF Owns

\* A descriptor goes from one place to another.
LEMMA OwnsMoved ==
  ASSUME NEW old, NEW table, Owns(old, table), NEW new \in [Place -> FdOr],
         NEW p \in Place, NEW q \in Place, p # q, old[q] = Unopened,
         new[p] = Unopened, new[q] = old[p], SameBut(old, new, {p, q})
  PROVE  Owns(new, table)
<1>1. \A r \in Place : r # p /\ r # q => new[r] = old[r]
  BY DEF SameBut
<1>2. \A r \in Place : new[r] # Unopened => new[r] \in table
  BY <1>1 DEF Owns
<1>3. \A r, s \in Place : new[r] # Unopened /\ new[r] = new[s] => r = s
  BY <1>1 DEF Owns
<1>4. \A g \in table : \E r \in Place : new[r] = g
  <2> SUFFICES ASSUME NEW g \in table PROVE \E r \in Place : new[r] = g
    OBVIOUS
  <2>1. PICK r \in Place : old[r] = g
    BY DEF Owns
  <2>2. g # Unopened
    BY FtpAssumption DEF Owns, Fd, Unopened
  <2>3. QED
    BY <1>1, <2>1, <2>2
<1>5. QED
  BY <1>2, <1>3, <1>4 DEF Owns

LEMMA OwnsSame ==
  ASSUME NEW old, NEW table, Owns(old, table), NEW new \in [Place -> FdOr],
         SameBut(old, new, {})
  PROVE  Owns(new, table)
BY DEF Owns, SameBut

\* The lowest free descriptor is free.
LEMMA NewFdIsFree ==
  ASSUME FdLeft, fdtable \subseteq Fd
  PROVE  NewFd \in Fd \ fdtable
<1>1. Fd \ fdtable # {} /\ Fd \ fdtable \subseteq Nat
  <2>1. Fd \subseteq Nat
    BY FtpAssumption DEF Fd
  <2>2. Fd \ fdtable # {}
    BY DEF FdLeft
  <2>3. QED
    BY <2>1, <2>2
<1>2. PICK f \in Fd \ fdtable : \A g \in Fd \ fdtable : ~(<<g, f>> \in OpToRel(<, Nat))
  BY <1>1, NatLessThanWellFounded, WFMin
<1>3. ASSUME NEW g \in Fd \ fdtable PROVE f <= g
  <2>1. f \in Nat /\ g \in Nat
    BY <1>1
  <2>2. ~(g < f)
    BY <1>2, <2>1, Zenon DEF OpToRel
  <2>3. QED
    BY <2>1, <2>2
<1>4. \E h \in Fd \ fdtable : \A g \in Fd \ fdtable : h <= g
  BY <1>3, Zenon
<1>5. QED
  BY <1>4, Zenon DEF NewFd

ConnRec == [at : {"get", "greet", "read", "accept", "begin", "open",
                  "move", "close", "leave", "exit"},
            cmd : Commands, file : BOOLEAN,
            socket : FdOr, data_socket : FdOr, transfer : FdOr]

Untransferring == {"get", "greet", "read", "accept", "exit"}

\* A connection that waits for a client has no socket, one has the socket of a
\* transfer from the accept to the exit of the command, and a file in between.
Settled(k) ==
  /\ k.at = "get" => k.socket = Unopened /\ k.data_socket = Unopened
  /\ k.transfer = Unopened <=> k.at \in Untransferring
  /\ k.file => k.at = "move"

FtpInv ==
  /\ FtpTypeOK
  /\ Owns(FdAt, fdtable)
  /\ server.at # "put" => server.client = Unopened
  /\ \A c \in Conn : Settled(conn[c])

\* The type invariant says of conn what ConnRec does.
LEMMA FtpConnType == FtpTypeOK => conn \in [Conn -> ConnRec]
BY DEF FtpTypeOK, ConnRec

\* What each place keeps is a descriptor or none.
LEMMA HeldType ==
  ASSUME ThreadsDiffer, FtpTypeOK
  PROVE  FdAt \in [Place -> FdOr]
<1>1. conn \in [Conn -> ConnRec]
  BY FtpConnType
<1>2. ASSUME NEW p \in Place PROVE Kept(p) \in FdOr
  <2>1. CASE p[1] = "server"
    BY <2>1 DEF Kept, FtpTypeOK
  <2>2. CASE p[1] # "server"
    <3>1. p[1] \in Conn
      BY <2>2 DEF Place
    <3>2. QED
      BY <1>1, <2>2, <3>1 DEF Kept, Part, ConnRec
  <2>3. QED
    BY <2>1, <2>2
<1>3. QED
  BY <1>2 DEF FdAt

\* The places of a connection are those of its sockets.
LEMMA ConnPlaces ==
  ASSUME ThreadsDiffer, NEW c \in Conn
  PROVE  /\ \A r \in Roles : <<c, r>> \in Place /\ FdAt[<<c, r>>] = Part(conn[c], r)
         /\ \A p \in Place : p[1] = c => p[2] \in Roles /\ p = <<c, p[2]>>
<1>1. ASSUME NEW r \in Roles
      PROVE  <<c, r>> \in Place /\ FdAt[<<c, r>>] = Part(conn[c], r)
  <2>1. <<c, r>> \in Place /\ c # "server"
    BY DEF Place, ThreadsDiffer
  <2>2. FdAt[<<c, r>>] = Kept(<<c, r>>)
    BY <2>1 DEF FdAt
  <2>3. Kept(<<c, r>>) = Part(conn[c], r)
    BY <2>1 DEF Kept
  <2>4. QED
    BY <2>1, <2>2, <2>3
<1>2. ASSUME NEW p \in Place, p[1] = c
      PROVE  p[2] \in Roles /\ p = <<c, p[2]>>
  BY <1>2 DEF Place, ThreadsDiffer
<1>3. QED
  BY <1>1, <1>2

\* What a step of a connection does to the records and to the places.
LEMMA GoesHeld ==
  ASSUME ThreadsDiffer, FtpTypeOK, fdtable' \subseteq Fd, NEW c \in Conn, NEW from, NEW to,
         NEW new \in ConnRec, [new EXCEPT !.at = to] \in ConnRec, Goes(c, from, to, new)
  PROVE  /\ FtpTypeOK'
         /\ FdAt' \in [Place -> FdOr]
         /\ \A d \in Conn : conn'[d] = IF d = c THEN [new EXCEPT !.at = to] ELSE conn[d]
         /\ \A p \in Place : p[1] # c => FdAt'[p] = FdAt[p]
         /\ \A r \in Roles : FdAt'[<<c, r>>] = Part(new, r)
<1>1. conn \in [Conn -> ConnRec]
  BY FtpConnType
<1>2. /\ conn' \in [Conn -> ConnRec]
      /\ \A d \in Conn : conn'[d] = IF d = c THEN [new EXCEPT !.at = to] ELSE conn[d]
  BY <1>1 DEF Goes
<1>3. FtpTypeOK'
  BY <1>2 DEF Goes, FtpTypeOK, ConnRec
<1>4. ASSUME NEW p \in Place
      PROVE  Kept(p)' = IF p[1] = c THEN Part(new, p[2]) ELSE Kept(p)
  <2>1. CASE p[1] = "server"
    BY <2>1 DEF Kept, Goes, ThreadsDiffer
  <2>2. CASE p[1] # "server" /\ p[1] # c
    <3>1. p[1] \in Conn
      BY <2>2 DEF Place
    <3>2. conn'[p[1]] = conn[p[1]]
      BY <1>2, <2>2, <3>1
    <3>3. QED
      BY <2>2, <3>2 DEF Kept, Part
  <2>3. CASE p[1] = c
    <3>1. conn'[c] = [new EXCEPT !.at = to]
      BY <1>2
    <3>2. /\ conn'[c].socket = new.socket
          /\ conn'[c].data_socket = new.data_socket
          /\ conn'[c].transfer = new.transfer
      BY <3>1 DEF ConnRec
    <3>3. QED
      BY <2>3, <3>2 DEF Kept, Part, ThreadsDiffer
  <2>4. QED
    BY <2>1, <2>2, <2>3
<1>5. \A p \in Place : FdAt'[p] = IF p[1] = c THEN Part(new, p[2]) ELSE FdAt[p]
  BY <1>4 DEF FdAt
<1>6. FdAt' \in [Place -> FdOr]
  <2>1. ASSUME NEW p \in Place PROVE Kept(p)' \in FdOr
    <3>1. CASE p[1] = c
      BY <1>4, <3>1 DEF Part, ConnRec
    <3>2. CASE p[1] # c
      <4>1. FdAt \in [Place -> FdOr] /\ FdAt[p] = Kept(p)
        BY HeldType DEF FdAt
      <4>2. QED
        BY <1>4, <3>2, <4>1
    <3>3. QED
      BY <3>1, <3>2
  <2>2. QED
    BY <2>1 DEF FdAt
<1>7. \A r \in Roles : FdAt'[<<c, r>>] = Part(new, r)
  BY <1>5, ConnPlaces
<1>8. QED
  BY <1>2, <1>3, <1>5, <1>6, <1>7

\* A step of a connection that leaves its sockets alone
LEMMA GoesSame ==
  ASSUME ThreadsDiffer, FtpInv, UNCHANGED fdtable, NEW c \in Conn, NEW from, NEW to,
         NEW new \in ConnRec, [new EXCEPT !.at = to] \in ConnRec, Goes(c, from, to, new),
         \A r \in Roles : Part(new, r) = Part(conn[c], r),
         Settled([new EXCEPT !.at = to])
  PROVE  FtpInv'
<1>1. FtpTypeOK /\ Owns(FdAt, fdtable) /\ fdtable' \subseteq Fd
  BY DEF FtpInv, FtpTypeOK
<1>2. /\ FtpTypeOK'
      /\ FdAt' \in [Place -> FdOr]
      /\ \A d \in Conn : conn'[d] = IF d = c THEN [new EXCEPT !.at = to] ELSE conn[d]
      /\ \A p \in Place : p[1] # c => FdAt'[p] = FdAt[p]
      /\ \A r \in Roles : FdAt'[<<c, r>>] = Part(new, r)
  BY <1>1, GoesHeld
<1>3. \A p \in Place : FdAt'[p] = FdAt[p]
  BY <1>2, ConnPlaces
<1>4. PICK new2 : new2 = FdAt'
  OBVIOUS
<1>5. Owns(new2, fdtable)
  BY <1>1, <1>2, <1>3, <1>4, OwnsSame DEF SameBut
<1>6. Owns(FdAt, fdtable)'
  BY <1>4, <1>5 DEF Owns
<1>7. \A d \in Conn : Settled(conn[d])'
  <2> SUFFICES ASSUME NEW d \in Conn PROVE Settled(conn[d])'
    OBVIOUS
  <2>1. PICK k : k = conn'[d]
    OBVIOUS
  <2>2. Settled(k)
    BY <1>2, <2>1 DEF FtpInv
  <2>3. QED
    BY <2>1, <2>2 DEF Settled
<1>8. (server.at # "put" => server.client = Unopened)'
  BY DEF FtpInv, Goes
<1>9. QED
  BY <1>2, <1>6, <1>7, <1>8 DEF FtpInv

\* A step of a connection that opens a socket where there was none
LEMMA GoesOpened ==
  ASSUME ThreadsDiffer, FtpInv, FdLeft, fdtable' = fdtable \cup {NewFd},
         NEW c \in Conn, NEW from, NEW to,
         NEW new \in ConnRec, [new EXCEPT !.at = to] \in ConnRec, Goes(c, from, to, new),
         NEW role \in Roles,
         Part(conn[c], role) = Unopened, Part(new, role) = NewFd,
         \A r \in Roles \ {role} : Part(new, r) = Part(conn[c], r),
         Settled([new EXCEPT !.at = to])
  PROVE  FtpInv'
<1>1. FtpTypeOK /\ Owns(FdAt, fdtable) /\ NewFd \in Fd \ fdtable /\ fdtable' \subseteq Fd
  <2>1. fdtable \subseteq Fd
    BY DEF FtpInv, FtpTypeOK
  <2>2. NewFd \in Fd \ fdtable
    BY <2>1, NewFdIsFree
  <2>3. QED
    BY <2>1, <2>2 DEF FtpInv
<1>2. /\ FtpTypeOK'
      /\ FdAt' \in [Place -> FdOr]
      /\ \A d \in Conn : conn'[d] = IF d = c THEN [new EXCEPT !.at = to] ELSE conn[d]
      /\ \A p \in Place : p[1] # c => FdAt'[p] = FdAt[p]
      /\ \A r \in Roles : FdAt'[<<c, r>>] = Part(new, r)
  BY <1>1, GoesHeld
<1>3. <<c, role>> \in Place /\ FdAt[<<c, role>>] = Unopened /\ FdAt'[<<c, role>>] = NewFd
  BY <1>2, ConnPlaces
<1>4. \A p \in Place \ {<<c, role>>} : FdAt'[p] = FdAt[p]
  BY <1>2, ConnPlaces
<1>5. PICK held2 : held2 = FdAt'
  OBVIOUS
<1>6. Owns(held2, fdtable \cup {NewFd})
  BY <1>1, <1>2, <1>3, <1>4, <1>5, OwnsOpened DEF SameBut
<1>7. Owns(FdAt, fdtable)'
  BY <1>5, <1>6 DEF Owns
<1>8. \A d \in Conn : Settled(conn[d])'
  <2> SUFFICES ASSUME NEW d \in Conn PROVE Settled(conn[d])'
    OBVIOUS
  <2>1. PICK k : k = conn'[d]
    OBVIOUS
  <2>2. Settled(k)
    BY <1>2, <2>1 DEF FtpInv
  <2>3. QED
    BY <2>1, <2>2 DEF Settled
<1>9. (server.at # "put" => server.client = Unopened)'
  BY DEF FtpInv, Goes
<1>10. QED
  BY <1>2, <1>7, <1>8, <1>9 DEF FtpInv

\* A step of a connection that closes some of its sockets
LEMMA GoesClosed ==
  ASSUME ThreadsDiffer, FtpInv, NEW c \in Conn, NEW from, NEW to,
         NEW new \in ConnRec, [new EXCEPT !.at = to] \in ConnRec, Goes(c, from, to, new),
         NEW S \in SUBSET Roles,
         fdtable' = fdtable \ {Part(conn[c], r) : r \in S},
         \A r \in S : Part(new, r) = Unopened,
         \A r \in Roles \ S : Part(new, r) = Part(conn[c], r),
         Settled([new EXCEPT !.at = to])
  PROVE  FtpInv'
<1>1. FtpTypeOK /\ Owns(FdAt, fdtable) /\ fdtable' \subseteq Fd
  BY DEF FtpInv, FtpTypeOK
<1>2. /\ FtpTypeOK'
      /\ FdAt' \in [Place -> FdOr]
      /\ \A d \in Conn : conn'[d] = IF d = c THEN [new EXCEPT !.at = to] ELSE conn[d]
      /\ \A p \in Place : p[1] # c => FdAt'[p] = FdAt[p]
      /\ \A r \in Roles : FdAt'[<<c, r>>] = Part(new, r)
  BY <1>1, GoesHeld
<1> DEFINE P == {c} \X S
           closed == {Part(conn[c], r) : r \in S}
<1>3. P \in SUBSET Place
  BY ConnPlaces
<1>4. \A p \in P : FdAt'[p] = Unopened /\ FdAt[p] \in closed
  BY <1>2, ConnPlaces
<1>5. \A f \in closed : \E p \in P : FdAt[p] = f
  <2> SUFFICES ASSUME NEW r \in S PROVE \E p \in P : FdAt[p] = Part(conn[c], r)
    OBVIOUS
  <2>1. <<c, r>> \in P /\ <<c, r>> \in Place
    BY <1>3
  <2>2. FdAt[<<c, r>>] = Part(conn[c], r)
    BY ConnPlaces
  <2>3. QED
    BY <2>1, <2>2
<1>6. \A p \in Place \ P : FdAt'[p] = FdAt[p]
  BY <1>2, ConnPlaces
<1>7. PICK held2 : held2 = FdAt'
  OBVIOUS
<1>8. Owns(held2, fdtable \ closed)
  <2> HIDE DEF P, closed
  <2>1. SameBut(FdAt, held2, P)
    BY <1>6, <1>7 DEF SameBut
  <2>2. PICK held1, table1 : held1 = FdAt /\ table1 = fdtable
    OBVIOUS
  <2>3. /\ Owns(held1, table1) /\ held2 \in [Place -> FdOr] /\ SameBut(held1, held2, P)
        /\ \A p \in P : held2[p] = Unopened /\ held1[p] \in closed
        /\ \A f \in closed : f = Unopened \/ \E p \in P : held1[p] = f
    BY <1>1, <1>2, <1>4, <1>5, <1>7, <2>1, <2>2
  <2>4. Owns(held2, table1 \ closed)
    BY <1>3, <2>3, OwnsClosed
  <2>5. QED
    BY <2>2, <2>4
<1>9. Owns(FdAt, fdtable)'
  BY <1>7, <1>8 DEF Owns
<1>10. \A d \in Conn : Settled(conn[d])'
  <2> SUFFICES ASSUME NEW d \in Conn PROVE Settled(conn[d])'
    OBVIOUS
  <2>1. PICK k : k = conn'[d]
    OBVIOUS
  <2>2. Settled(k)
    BY <1>2, <2>1 DEF FtpInv
  <2>3. QED
    BY <2>1, <2>2 DEF Settled
<1>11. (server.at # "put" => server.client = Unopened)'
  BY DEF FtpInv, Goes
<1>12. QED
  BY <1>2, <1>9, <1>10, <1>11 DEF FtpInv

\* What the invariant says of one connection
LEMMA OfConn ==
  ASSUME ThreadsDiffer, FtpInv, NEW c \in Conn
  PROVE  /\ conn[c] \in ConnRec /\ Settled(conn[c])
         /\ HasListener(c) => conn[c].data_socket \in fdtable
<1>1. FtpTypeOK /\ Settled(conn[c]) /\ Owns(FdAt, fdtable)
  BY DEF FtpInv
<1>2. conn[c] \in ConnRec
  BY <1>1, FtpConnType
<1>3. <<c, "listen">> \in Place /\ FdAt[<<c, "listen">>] = conn[c].data_socket
  BY ConnPlaces DEF Roles, Part
<1>4. HasListener(c) => conn[c].data_socket \in fdtable
  BY <1>1, <1>3 DEF HasListener, Owns
<1>5. QED
  BY <1>1, <1>2, <1>4

Where == {"get", "greet", "read", "accept", "begin", "open", "move", "close", "leave", "exit"}

\* A connection goes on with the sockets it has.
LEMMA ConnGoesOn ==
  ASSUME ThreadsDiffer, FtpInv, UNCHANGED fdtable, NEW c \in Conn,
         NEW from \in Where \ {"get"}, NEW to \in Where \ {"get"}, NEW new \in ConnRec,
         Goes(c, from, to, new),
         from \in Untransferring <=> to \in Untransferring,
         new.socket = conn[c].socket, new.data_socket = conn[c].data_socket,
         new.transfer = conn[c].transfer, new.file => to = "move"
  PROVE  FtpInv'
<1>1. conn[c] \in ConnRec /\ Settled(conn[c]) /\ conn[c].at = from
  BY OfConn DEF Goes
<1>2. [new EXCEPT !.at = to] \in ConnRec
  BY DEF ConnRec, Where
<1>3. PICK k : k = [new EXCEPT !.at = to]
  OBVIOUS
<1>4. k.at = to /\ k.transfer = conn[c].transfer /\ (k.file => to = "move")
  BY <1>3 DEF ConnRec
<1>5. Settled(k)
  BY <1>1, <1>4 DEF Settled
<1>6. \A r \in Roles : Part(new, r) = Part(conn[c], r)
  BY DEF Roles, Part
<1>7. QED
  BY <1>2, <1>3, <1>5, <1>6, GoesSame

\* An answer keeps the invariant.
LEMMA RepliesOn ==
  ASSUME ThreadsDiffer, FtpInv, UNCHANGED fdtable, NEW c \in Conn,
         NEW from \in {"greet", "read", "accept"}, Replies(c, from, conn[c])
  PROVE  FtpInv'
<1>1. PICK to \in {"read", "exit"} : Goes(c, from, to, conn[c])
  BY DEF Replies
<1>2. conn[c] \in ConnRec /\ Settled(conn[c]) /\ conn[c].at = from
  BY <1>1, OfConn DEF Goes
<1>3. QED
  BY <1>1, <1>2, ConnGoesOn DEF Settled, Where, Untransferring

\* The steps between two transfers
LEMMA IdleSteps ==
  ASSUME ThreadsDiffer, FtpInv, NEW c \in Conn,
         Greet(c) \/ Simple(c) \/ Leave(c) \/ Transfer(c)
  PROVE  FtpInv'
<1>1. conn[c] \in ConnRec /\ Settled(conn[c])
  BY OfConn
<1>2. CASE Greet(c) \/ Simple(c)
  BY <1>2, RepliesOn DEF Greet, Simple
<1>3. CASE Leave(c)
  <2>1. Goes(c, "read", "exit", conn[c]) /\ ~conn[c].file
    BY <1>1, <1>3 DEF Leave, Goes, Settled
  <2>2. QED
    BY <1>1, <1>3, <2>1, ConnGoesOn DEF Leave, Where, Untransferring
<1>4. CASE Transfer(c)
  <2>1. CASE Replies(c, "read", conn[c])
    BY <1>4, <2>1, RepliesOn DEF Transfer
  <2>2. CASE ~Replies(c, "read", conn[c])
    <3>1. PICK command \in Commands :
                 Goes(c, "read", "accept", [conn[c] EXCEPT !.cmd = command])
      BY <1>4, <2>2 DEF Transfer
    <3>2. PICK k : k = [conn[c] EXCEPT !.cmd = command]
      OBVIOUS
    <3>3. /\ k \in ConnRec
          /\ k.socket = conn[c].socket /\ k.transfer = conn[c].transfer
          /\ k.data_socket = conn[c].data_socket
      BY <1>1, <3>2 DEF ConnRec
    <3>4. k.file = conn[c].file
      BY <1>1, <3>2, Zenon DEF ConnRec
    <3>5. Goes(c, "read", "accept", k) /\ ~k.file
      BY <1>1, <3>1, <3>2, <3>4 DEF Goes, Settled
    <3>6. QED
      BY <1>4, <3>3, <3>5, ConnGoesOn DEF Transfer, Where, Untransferring
  <2>3. QED
    BY <2>1, <2>2
<1>5. QED
  BY <1>2, <1>3, <1>4

\* Opening and reading or writing the file of a transfer
LEMMA FileSteps ==
  ASSUME ThreadsDiffer, FtpInv, UNCHANGED fdtable, NEW c \in Conn, Opens(c) \/ Moves(c)
  PROVE  FtpInv'
<1>1. conn[c] \in ConnRec /\ Settled(conn[c])
  BY OfConn
<1>2. CASE Goes(c, "open", "close", conn[c])
  <2>1. ~conn[c].file
    BY <1>1, <1>2 DEF Goes, Settled
  <2>2. QED
    BY <1>1, <1>2, <2>1, ConnGoesOn DEF Where, Untransferring
<1>3. CASE Goes(c, "open", "move", [conn[c] EXCEPT !.file = TRUE])
  <2>1. PICK k : k = [conn[c] EXCEPT !.file = TRUE]
    OBVIOUS
  <2>2. /\ k \in ConnRec /\ k.socket = conn[c].socket
        /\ k.transfer = conn[c].transfer /\ k.data_socket = conn[c].data_socket
    BY <1>1, <2>1 DEF ConnRec
  <2>3. Goes(c, "open", "move", k)
    BY <1>3, <2>1
  <2>4. QED
    BY <2>2, <2>3, ConnGoesOn DEF Where, Untransferring
<1>4. CASE Moves(c)
  <2>1. PICK k : k = [conn[c] EXCEPT !.file = FALSE]
    OBVIOUS
  <2>2. /\ k \in ConnRec /\ k.file = FALSE /\ k.socket = conn[c].socket
        /\ k.transfer = conn[c].transfer /\ k.data_socket = conn[c].data_socket
    BY <1>1, <2>1 DEF ConnRec
  <2>3. Goes(c, "move", "close", k)
    BY <1>4, <2>1 DEF Moves, FileClosed
  <2>4. QED
    BY <2>2, <2>3, ConnGoesOn DEF Where, Untransferring
<1>5. QED
  BY <1>2, <1>3, <1>4 DEF Opens

\* The steps of a transfer until its socket is closed
LEMMA TransferSteps ==
  ASSUME ThreadsDiffer, FtpInv, NEW c \in Conn,
         \/ cmd_list(c) \/ cmd_nlst(c) \/ cmd_retr(c) \/ cmd_stor(c)
         \/ send_list(c) \/ send_nlst(c) \/ send_file(c) \/ receive_file(c)
  PROVE  FtpInv'
<1>1. conn[c] \in ConnRec /\ Settled(conn[c])
  BY OfConn
<1>2. UNCHANGED fdtable
  BY DEF cmd_list, cmd_nlst, cmd_retr, cmd_stor, send_list, send_nlst, send_file,
         receive_file, IsCmd
<1>3. CASE Begins(c) \/ Goes(c, "begin", "open", conn[c])
  <2>1. PICK to \in {"open", "close", "leave"} : Goes(c, "begin", to, conn[c])
    BY <1>3 DEF Begins
  <2>2. ~conn[c].file
    BY <1>1, <2>1 DEF Goes, Settled
  <2>3. QED
    BY <1>1, <1>2, <2>1, <2>2, ConnGoesOn DEF Where, Untransferring
<1>4. CASE Opens(c) \/ Moves(c)
  BY <1>2, <1>4, FileSteps
<1>5. QED
  BY <1>3, <1>4 DEF cmd_list, cmd_nlst, cmd_retr, cmd_stor, send_list, send_nlst,
                    send_file, receive_file

\* A listening socket is opened, or the one there is serves again.
LEMMA ListenSteps ==
  ASSUME ThreadsDiffer, "pasv" \notin FtpFaults, FtpInv, NEW c \in Conn,
         cmd_epsv(c) \/ cmd_pasv(c)
  PROVE  FtpInv'
<1>1. conn[c] \in ConnRec /\ Settled(conn[c])
  BY OfConn
<1>2. CASE ListenFails(c)
  BY <1>2, RepliesOn DEF ListenFails
<1>3. CASE ~ListenFails(c)
  <2>1. /\ HasListener(c) \/ FdLeft
        /\ fdtable' = fdtable \cup {Listening(c).data_socket}
        /\ \E to \in {"read", "exit"} : Goes(c, "read", to, Listening(c))
    BY <1>3 DEF cmd_epsv, cmd_pasv, Replies
  <2>2. PICK to \in {"read", "exit"} : Goes(c, "read", to, Listening(c))
    BY <2>1
  <2>3. conn[c].at = "read" /\ ~conn[c].file /\ conn[c].transfer = Unopened
    BY <1>1, <2>2 DEF Goes, Settled, Untransferring
  <2>4. CASE HasListener(c)
    <3>1. Listening(c) = conn[c]
      BY <2>4 DEF Listening
    <3>2. UNCHANGED fdtable
      BY <2>1, <2>4, <3>1, OfConn
    <3>3. QED
      BY <1>1, <2>2, <2>3, <3>1, <3>2, ConnGoesOn DEF Where, Untransferring
  <2>5. CASE ~HasListener(c)
    <3>1. PICK k : k = [conn[c] EXCEPT !.data_socket = NewFd]
      OBVIOUS
    <3>2. NewFd \in Fd
      <4>1. fdtable \subseteq Fd
        BY DEF FtpInv, FtpTypeOK
      <4>2. QED
        BY <2>1, <2>5, <4>1, NewFdIsFree
    <3>3. k \in ConnRec /\ k.data_socket = NewFd /\ k.socket = conn[c].socket
          /\ k.transfer = conn[c].transfer
      BY <1>1, <3>1, <3>2 DEF ConnRec, FdOr
    <3>4. k.file = conn[c].file
      BY <1>1, <3>1, Zenon DEF ConnRec
    <3>5. Goes(c, "read", to, k) /\ fdtable' = fdtable \cup {NewFd} /\ FdLeft
      BY <2>1, <2>2, <2>5, <3>1, <3>3 DEF Listening
    <3>6. PICK k2 : k2 = [k EXCEPT !.at = to]
      OBVIOUS
    <3>7. k2 \in ConnRec /\ k2.at = to /\ k2.transfer = Unopened
      BY <2>3, <3>3, <3>6 DEF ConnRec
    <3>8. ~k2.file
      BY <2>3, <3>3, <3>4, <3>6, Zenon DEF ConnRec
    <3>9. Settled(k2)
      BY <3>7, <3>8 DEF Settled, Untransferring
    <3>10. /\ "listen" \in Roles
           /\ Part(conn[c], "listen") = Unopened /\ Part(k, "listen") = NewFd
           /\ \A r \in Roles \ {"listen"} : Part(k, r) = Part(conn[c], r)
      BY <2>5, <3>3 DEF Roles, Part, HasListener
    <3>11. QED
      BY <3>3, <3>5, <3>6, <3>7, <3>9, <3>10, GoesOpened
  <2>6. QED
    BY <2>4, <2>5
<1>4. QED
  BY <1>2, <1>3

\* The socket of a transfer is accepted, or the listening socket is closed.
LEMMA AcceptSteps ==
  ASSUME ThreadsDiffer, FtpInv, NEW c \in Conn, accept_data_connection(c)
  PROVE  FtpInv'
<1>1. conn[c] \in ConnRec /\ Settled(conn[c]) /\ conn[c].at = "accept"
  BY OfConn DEF accept_data_connection, Replies, Goes
<1>2. ~conn[c].file /\ conn[c].transfer = Unopened
  BY <1>1 DEF Settled, Untransferring
<1>3. CASE /\ FdLeft /\ Goes(c, "accept", "begin", [conn[c] EXCEPT !.transfer = NewFd])
           /\ fdtable' = fdtable \cup {NewFd}
  <2>1. PICK k : k = [conn[c] EXCEPT !.transfer = NewFd]
    OBVIOUS
  <2>2. NewFd \in Fd /\ NewFd # Unopened
    <3>1. fdtable \subseteq Fd
      BY DEF FtpInv, FtpTypeOK
    <3>2. NewFd \in Fd
      BY <1>3, <3>1, NewFdIsFree
    <3>3. Unopened \notin Fd
      BY FtpAssumption DEF Fd, Unopened
    <3>4. QED
      BY <3>2, <3>3
  <2>3. k \in ConnRec /\ k.data_socket = conn[c].data_socket /\ k.socket = conn[c].socket
        /\ k.transfer = NewFd
    BY <1>1, <2>1, <2>2 DEF ConnRec, FdOr
  <2>4. k.file = conn[c].file
    BY <1>1, <2>1, Zenon DEF ConnRec
  <2>5. PICK k2 : k2 = [k EXCEPT !.at = "begin"]
    OBVIOUS
  <2>6. k2 \in ConnRec /\ k2.at = "begin" /\ k2.transfer = NewFd
    BY <2>3, <2>5 DEF ConnRec
  <2>7. ~k2.file
    BY <1>2, <2>3, <2>4, <2>5, Zenon DEF ConnRec
  <2>8. Settled(k2)
    BY <2>2, <2>6, <2>7 DEF Settled, Untransferring
  <2>9. /\ "transfer" \in Roles
        /\ Part(conn[c], "transfer") = Unopened /\ Part(k, "transfer") = NewFd
        /\ \A r \in Roles \ {"transfer"} : Part(k, r) = Part(conn[c], r)
    BY <1>2, <2>3 DEF Roles, Part
  <2>10. Goes(c, "accept", "begin", k)
    BY <1>3, <2>1
  <2>11. QED
    BY <1>3, <2>3, <2>5, <2>6, <2>8, <2>9, <2>10, GoesOpened
<1>4. CASE /\ Replies(c, "accept", AcceptFailed(conn[c]))
           /\ fdtable' = fdtable \ {conn[c].data_socket}
  <2>1. PICK k : k = [conn[c] EXCEPT !.data_socket = Unopened]
    OBVIOUS
  <2>2. PICK to \in {"read", "exit"} : Goes(c, "accept", to, k)
    BY <1>4, <2>1 DEF Replies, AcceptFailed
  <2>3. k \in ConnRec /\ k.data_socket = Unopened /\ k.socket = conn[c].socket
        /\ k.transfer = conn[c].transfer
    BY <1>1, <2>1 DEF ConnRec, FdOr
  <2>4. k.file = conn[c].file
    BY <1>1, <2>1, Zenon DEF ConnRec
  <2>5. PICK k2 : k2 = [k EXCEPT !.at = to]
    OBVIOUS
  <2>6. k2 \in ConnRec /\ k2.at = to /\ k2.transfer = Unopened
    BY <1>2, <2>3, <2>5 DEF ConnRec
  <2>7. ~k2.file
    BY <1>2, <2>3, <2>4, <2>5, Zenon DEF ConnRec
  <2>8. Settled(k2)
    BY <2>6, <2>7 DEF Settled, Untransferring
  <2>9. PICK S : S = {"listen"}
    OBVIOUS
  <2>10. /\ S \in SUBSET Roles
         /\ \A r \in S : Part(k, r) = Unopened
         /\ \A r \in Roles \ S : Part(k, r) = Part(conn[c], r)
    BY <2>3, <2>9 DEF Roles, Part
  <2>11. {Part(conn[c], r) : r \in S} = {conn[c].data_socket}
    BY <2>9 DEF Part
  <2>12. QED
    BY <1>4, <2>2, <2>3, <2>5, <2>6, <2>8, <2>10, <2>11, GoesClosed
<1>5. QED
  BY <1>3, <1>4 DEF accept_data_connection

\* The socket of a transfer is closed at its end.
LEMMA EndSteps ==
  ASSUME ThreadsDiffer, FtpInv, NEW c \in Conn, TransferEnds(c)
  PROVE  FtpInv'
<1>1. PICK k : k = [conn[c] EXCEPT !.transfer = Unopened]
  OBVIOUS
<1>2. PICK from \in {"close", "leave"}, to \in {"read", "exit"} : Goes(c, from, to, k)
  BY <1>1 DEF TransferEnds, Replies
<1>3. conn[c] \in ConnRec /\ Settled(conn[c]) /\ conn[c].at = from
  BY <1>2, OfConn DEF Goes
<1>4. ~conn[c].file
  BY <1>3 DEF Settled
<1>5. k \in ConnRec /\ k.data_socket = conn[c].data_socket /\ k.socket = conn[c].socket
      /\ k.transfer = Unopened
  BY <1>1, <1>3 DEF ConnRec, FdOr
<1>6. k.file = conn[c].file
  BY <1>1, <1>3, Zenon DEF ConnRec
<1>7. PICK k2 : k2 = [k EXCEPT !.at = to]
  OBVIOUS
<1>8. k2 \in ConnRec /\ k2.at = to /\ k2.transfer = Unopened
  BY <1>5, <1>7 DEF ConnRec
<1>9. ~k2.file
  BY <1>4, <1>5, <1>6, <1>7, Zenon DEF ConnRec
<1>10. Settled(k2)
  BY <1>8, <1>9 DEF Settled, Untransferring
<1>11. PICK S : S = {"transfer"}
  OBVIOUS
<1>12. /\ S \in SUBSET Roles
       /\ \A r \in S : Part(k, r) = Unopened
       /\ \A r \in Roles \ S : Part(k, r) = Part(conn[c], r)
  BY <1>5, <1>11 DEF Roles, Part
<1>13. fdtable' = fdtable \ {Part(conn[c], r) : r \in S}
  <2>1. {Part(conn[c], r) : r \in S} = {conn[c].transfer}
    BY <1>11 DEF Part
  <2>2. QED
    BY <2>1 DEF TransferEnds, TransferClosed
<1>14. QED
  BY <1>2, <1>5, <1>7, <1>8, <1>10, <1>12, <1>13, GoesClosed

\* A connection that ends closes its other two sockets.
LEMMA ExitSteps ==
  ASSUME ThreadsDiffer, FtpInv, NEW c \in Conn, Exit(c)
  PROVE  FtpInv'
<1>1. PICK k : k = Unconnected
  OBVIOUS
<1>2. Goes(c, "exit", "get", k)
  BY <1>1 DEF Exit
<1>3. conn[c] \in ConnRec /\ Settled(conn[c]) /\ conn[c].at = "exit"
  BY <1>2, OfConn DEF Goes
<1>4. conn[c].transfer = Unopened
  BY <1>3 DEF Settled, Untransferring
<1>5. k \in ConnRec /\ k.data_socket = Unopened /\ k.socket = Unopened /\ k.transfer = Unopened
      /\ [k EXCEPT !.at = "get"] = k
  <2>1. k \in ConnRec
    BY <1>1 DEF ConnRec, Unconnected, FdOr, Commands
  <2>2. k.at = "get"
    BY <1>1 DEF Unconnected
  <2>3. [k EXCEPT !.at = "get"] = k
    BY <2>1, <2>2 DEF ConnRec
  <2>4. QED
    BY <1>1, <2>1, <2>3 DEF Unconnected
<1>6. Settled(k)
  BY <1>1 DEF Settled, Untransferring, Unconnected
<1>7. PICK S : S = {"control", "listen"}
  OBVIOUS
<1>8. /\ S \in SUBSET Roles
      /\ \A r \in S : Part(k, r) = Unopened
      /\ \A r \in Roles \ S : Part(k, r) = Part(conn[c], r)
  BY <1>4, <1>5, <1>7 DEF Roles, Part
<1>9. fdtable' = fdtable \ {Part(conn[c], r) : r \in S}
  <2>1. {Part(conn[c], r) : r \in S} = {conn[c].socket, conn[c].data_socket}
    BY <1>7 DEF Part
  <2>2. QED
    BY <2>1 DEF Exit
<1>10. QED
  BY <1>2, <1>5, <1>6, <1>8, <1>9, GoesClosed

\* The places of the server, and those of the connections
LEMMA ServerPlaces ==
  /\ <<"server", "listen">> \in Place /\ FdAt[<<"server", "listen">>] = server.socket
  /\ <<"server", "client">> \in Place /\ FdAt[<<"server", "client">>] = server.client
  /\ ThreadsDiffer =>
       \A p \in Place \ {<<"server", "listen">>, <<"server", "client">>} :
         p[1] \in Conn /\ p[2] \in Roles /\ p = <<p[1], p[2]>> /\ FdAt[p] = Part(conn[p[1]], p[2])
<1>1. /\ <<"server", "listen">> \in Place /\ FdAt[<<"server", "listen">>] = server.socket
      /\ <<"server", "client">> \in Place /\ FdAt[<<"server", "client">>] = server.client
  BY DEF Place, FdAt, Kept
<1>2. ASSUME ThreadsDiffer,
             NEW p \in Place \ {<<"server", "listen">>, <<"server", "client">>}
      PROVE  p[1] \in Conn /\ p[2] \in Roles /\ p = <<p[1], p[2]>>
             /\ FdAt[p] = Part(conn[p[1]], p[2])
  <2>1. p[1] \in Conn /\ p[2] \in Roles /\ p = <<p[1], p[2]>>
    BY DEF Place
  <2>2. FdAt[p] = Kept(p) /\ p[1] # "server"
    BY <1>2, <2>1 DEF FdAt, ThreadsDiffer
  <2>3. QED
    BY <2>1, <2>2 DEF Kept
<1>3. QED
  BY <1>1, <1>2

ServerRec == [at : {"accept", "put", "ended"}, socket : FdOr, client : FdOr]

\* A step of the server that leaves the connections alone
LEMMA ServerHeld ==
  ASSUME ThreadsDiffer, FtpInv, UNCHANGED conn, server' \in ServerRec, fdtable' \subseteq Fd
  PROVE  /\ FtpTypeOK' /\ FdAt' \in [Place -> FdOr]
         /\ FdAt'[<<"server", "listen">>] = server'.socket
         /\ FdAt'[<<"server", "client">>] = server'.client
         /\ \A p \in Place \ {<<"server", "listen">>, <<"server", "client">>} :
              FdAt'[p] = FdAt[p]
         /\ \A c \in Conn : Settled(conn[c])'
<1>1. FtpTypeOK'
  BY DEF FtpInv, FtpTypeOK, ServerRec
<1>2. ASSUME NEW p \in Place \ {<<"server", "listen">>, <<"server", "client">>}
      PROVE  Kept(p)' = Kept(p)
  <2>1. p[1] \in Conn
    BY ServerPlaces
  <2>2. QED
    BY <2>1 DEF Kept, Part, ThreadsDiffer
<1>3. \A p \in Place \ {<<"server", "listen">>, <<"server", "client">>} : FdAt'[p] = FdAt[p]
  BY <1>2 DEF FdAt
<1>4. /\ FdAt'[<<"server", "listen">>] = server'.socket
      /\ FdAt'[<<"server", "client">>] = server'.client
  BY DEF FdAt, Kept, Place
<1>5. FdAt' \in [Place -> FdOr]
  <2>1. FtpTypeOK
    BY DEF FtpInv
  <2>2. FdAt \in [Place -> FdOr]
    BY <2>1, HeldType
  <2>3. \A p \in Place : FdAt'[p] \in FdOr
    BY <1>3, <1>4, <2>2 DEF ServerRec
  <2>4. FdAt' = [p \in Place |-> FdAt'[p]]
    BY DEF FdAt
  <2>5. QED
    BY <2>3, <2>4
<1>6. \A c \in Conn : Settled(conn[c])'
  BY Zenon DEF FtpInv, Settled
<1>7. QED
  BY <1>1, <1>3, <1>4, <1>5, <1>6

\* The server accepts a client, or it cannot and ends.
LEMMA ServerAcceptKeeps ==
  ASSUME ThreadsDiffer, FtpInv, ServerAccept
  PROVE  FtpInv'
<1>1. /\ fdtable \subseteq Fd /\ server \in ServerRec /\ server.client = Unopened
      /\ server.at = "accept" /\ Owns(FdAt, fdtable)
  BY DEF FtpInv, FtpTypeOK, ServerRec, ServerAccept
<1>2. PICK held1, table1 : held1 = FdAt /\ table1 = fdtable
  OBVIOUS
<1>3. PICK held2 : held2 = FdAt'
  OBVIOUS
<1>4. CASE FdLeft
  <2>1. NewFd \in Fd \ fdtable
    BY <1>1, <1>4, NewFdIsFree
  <2>2. server' \in ServerRec /\ server'.at = "put" /\ server'.client = NewFd
        /\ server'.socket = server.socket
    BY <1>1, <1>4, <2>1 DEF ServerAccept, ServerRec, FdOr
  <2>3. fdtable' = fdtable \cup {NewFd} /\ fdtable' \subseteq Fd
    BY <1>1, <1>4, <2>1 DEF ServerAccept
  <2>4. /\ FtpTypeOK' /\ FdAt' \in [Place -> FdOr]
        /\ FdAt'[<<"server", "listen">>] = server'.socket
        /\ FdAt'[<<"server", "client">>] = server'.client
        /\ \A p \in Place \ {<<"server", "listen">>, <<"server", "client">>} :
             FdAt'[p] = FdAt[p]
        /\ \A c \in Conn : Settled(conn[c])'
    BY <2>2, <2>3, ServerHeld DEF ServerAccept
  <2>5. PICK p : p = <<"server", "client">>
    OBVIOUS
  <2>6. PICK f : f = NewFd
    OBVIOUS
  <2>7. /\ p \in Place /\ held1[p] = Unopened /\ f \in Fd /\ f \notin table1 /\ held2[p] = f
        /\ held2 \in [Place -> FdOr] /\ Owns(held1, table1)
    BY <1>1, <1>2, <1>3, <2>1, <2>2, <2>4, <2>5, <2>6, ServerPlaces
  <2>8. SameBut(held1, held2, {p})
    BY <1>2, <1>3, <2>2, <2>4, <2>5, ServerPlaces DEF SameBut
  <2>9. Owns(held2, table1 \cup {f})
    BY <2>7, <2>8, OwnsOpened
  <2>10. Owns(FdAt, fdtable)'
    BY <1>2, <1>3, <2>3, <2>6, <2>9 DEF Owns
  <2>11. QED
    BY <2>2, <2>4, <2>10 DEF FtpInv
<1>5. CASE ~FdLeft
  <2>1. server' \in ServerRec /\ server'.at = "ended" /\ server'.client = Unopened
        /\ server'.socket = Unopened
    BY <1>1, <1>5 DEF ServerAccept, ServerRec, FdOr
  <2>2. fdtable' = fdtable \ {server.socket} /\ fdtable' \subseteq Fd
    BY <1>1, <1>5 DEF ServerAccept
  <2>3. /\ FtpTypeOK' /\ FdAt' \in [Place -> FdOr]
        /\ FdAt'[<<"server", "listen">>] = server'.socket
        /\ FdAt'[<<"server", "client">>] = server'.client
        /\ \A p \in Place \ {<<"server", "listen">>, <<"server", "client">>} :
             FdAt'[p] = FdAt[p]
        /\ \A c \in Conn : Settled(conn[c])'
    BY <2>1, <2>2, ServerHeld DEF ServerAccept
  <2>4. PICK S, closed : S = {<<"server", "listen">>} /\ closed = {server.socket}
    OBVIOUS
  <2>5. /\ S \in SUBSET Place /\ held2 \in [Place -> FdOr] /\ Owns(held1, table1)
        /\ \A p \in S : held2[p] = Unopened /\ held1[p] \in closed
        /\ \A f \in closed : f = Unopened \/ \E p \in S : held1[p] = f
    BY <1>1, <1>2, <1>3, <2>1, <2>3, <2>4, ServerPlaces
  <2>6. SameBut(held1, held2, S)
    BY <1>1, <1>2, <1>3, <2>1, <2>3, <2>4, ServerPlaces DEF SameBut
  <2>7. Owns(held2, table1 \ closed)
    BY <2>5, <2>6, OwnsClosed
  <2>8. Owns(FdAt, fdtable)'
    BY <1>2, <1>3, <2>2, <2>4, <2>7 DEF Owns
  <2>9. QED
    BY <2>1, <2>3, <2>8 DEF FtpInv
<1>6. QED
  BY <1>4, <1>5

\* The server hands its client to a thread that waits, or closes it.
LEMMA ServerPutKeeps ==
  ASSUME ThreadsDiffer, FtpInv, ServerPut
  PROVE  FtpInv'
<1>1. /\ fdtable \subseteq Fd /\ server \in ServerRec /\ Owns(FdAt, fdtable)
      /\ conn \in [Conn -> ConnRec] /\ \A c \in Conn : Settled(conn[c])
  BY FtpConnType DEF FtpInv, FtpTypeOK, ServerRec
<1>2. server' \in ServerRec /\ server'.at = "accept" /\ server'.client = Unopened
      /\ server'.socket = server.socket
  BY <1>1 DEF ServerPut, ServerRec, FdOr
<1>3. PICK held1, table1 : held1 = FdAt /\ table1 = fdtable
  OBVIOUS
<1>4. PICK held2 : held2 = FdAt'
  OBVIOUS
<1>5. CASE fdtable' = fdtable \ {server.client} /\ UNCHANGED conn
  <2>1. fdtable' \subseteq Fd
    BY <1>1, <1>5
  <2>2. /\ FtpTypeOK' /\ FdAt' \in [Place -> FdOr]
        /\ FdAt'[<<"server", "listen">>] = server'.socket
        /\ FdAt'[<<"server", "client">>] = server'.client
        /\ \A p \in Place \ {<<"server", "listen">>, <<"server", "client">>} :
             FdAt'[p] = FdAt[p]
        /\ \A c \in Conn : Settled(conn[c])'
    BY <1>2, <1>5, <2>1, ServerHeld
  <2>3. PICK S, closed : S = {<<"server", "client">>} /\ closed = {server.client}
    OBVIOUS
  <2>4. /\ S \in SUBSET Place /\ held2 \in [Place -> FdOr] /\ Owns(held1, table1)
        /\ \A p \in S : held2[p] = Unopened /\ held1[p] \in closed
        /\ \A f \in closed : f = Unopened \/ \E p \in S : held1[p] = f
    BY <1>1, <1>2, <1>3, <1>4, <2>2, <2>3, ServerPlaces
  <2>5. SameBut(held1, held2, S)
    BY <1>2, <1>3, <1>4, <2>2, <2>3, ServerPlaces DEF SameBut
  <2>6. Owns(held2, table1 \ closed)
    BY <2>4, <2>5, OwnsClosed
  <2>7. Owns(FdAt, fdtable)'
    BY <1>3, <1>4, <1>5, <2>3, <2>6 DEF Owns
  <2>8. QED
    BY <1>2, <2>2, <2>7 DEF FtpInv
<1>6. ASSUME NEW c \in Waiting,
             conn' = [conn EXCEPT ![c].at = "greet", ![c].socket = server.client],
             UNCHANGED fdtable
      PROVE  FtpInv'
  <2>1. c \in Conn /\ conn[c].at = "get"
    BY DEF Waiting
  <2>2. conn[c].socket = Unopened /\ conn[c].transfer = Unopened /\ ~conn[c].file
        /\ conn[c] \in ConnRec
    BY <1>1, <2>1 DEF Settled, Untransferring
  <2>3. PICK k1 : k1 = [conn[c] EXCEPT !.at = "greet"]
    OBVIOUS
  <2>4. PICK k : k = [k1 EXCEPT !.socket = server.client]
    OBVIOUS
  <2>5. conn' = [conn EXCEPT ![c] = k]
    BY <1>1, <1>6, <2>1, <2>3, <2>4
  <2>6. k1 \in ConnRec /\ k1.at = "greet" /\ k1.transfer = Unopened
        /\ k1.data_socket = conn[c].data_socket
    BY <2>2, <2>3 DEF ConnRec
  <2>7. k \in ConnRec /\ k.at = "greet" /\ k.transfer = Unopened /\ k.socket = server.client
        /\ k.data_socket = conn[c].data_socket
    BY <1>1, <2>4, <2>6 DEF ConnRec, ServerRec
  <2>8. ~k1.file
    BY <2>2, <2>3, Zenon DEF ConnRec
  <2>9. ~k.file
    BY <2>4, <2>6, <2>8, Zenon DEF ConnRec
  <2>10. Settled(k)
    BY <2>7, <2>9 DEF Settled, Untransferring
  <2>11. conn' \in [Conn -> ConnRec] /\ \A d \in Conn : conn'[d] = IF d = c THEN k ELSE conn[d]
    BY <1>1, <2>5, <2>7
  <2>12. FtpTypeOK'
    BY <1>1, <1>2, <1>6, <2>11 DEF FtpTypeOK, ConnRec, ServerRec
  <2>13. \A d \in Conn : Settled(conn[d])'
    <3> SUFFICES ASSUME NEW d \in Conn PROVE Settled(conn[d])'
      OBVIOUS
    <3>1. PICK k2 : k2 = conn'[d]
      OBVIOUS
    <3>2. Settled(k2)
      BY <1>1, <2>10, <2>11, <3>1
    <3>3. QED
      BY <3>1, <3>2 DEF Settled
  <2>14. PICK from, to : from = <<"server", "client">> /\ to = <<c, "control">>
    OBVIOUS
  <2>15. from \in Place /\ to \in Place /\ from # to
    BY <2>1, <2>14, ServerPlaces, ConnPlaces DEF Roles, ThreadsDiffer
  <2>16. held1[from] = server.client /\ held1[to] = Unopened
    BY <1>3, <2>1, <2>2, <2>14, ServerPlaces, ConnPlaces DEF Roles, Part
  <2>17. held2[from] = Unopened
    BY <1>2, <1>4, <2>14 DEF FdAt, Kept, Place
  <2>18. held2[to] = server.client
    <3>1. Kept(to)' = k.socket
      BY <2>1, <2>11, <2>14 DEF Kept, Part, ThreadsDiffer
    <3>2. QED
      BY <1>4, <2>7, <2>15, <3>1 DEF FdAt
  <2>19. ASSUME NEW p \in Place \ {from, to} PROVE held2[p] = held1[p]
    <3>1. CASE p = <<"server", "listen">>
      BY <1>2, <1>3, <1>4, <3>1 DEF FdAt, Kept
    <3>2. CASE p # <<"server", "listen">>
      <4>1. p[1] \in Conn /\ p[2] \in Roles /\ p = <<p[1], p[2]>>
        BY <2>14, <3>2, ServerPlaces
      <4>2. Part(conn'[p[1]], p[2]) = Part(conn[p[1]], p[2])
        <5>1. CASE p[1] # c
          BY <2>11, <4>1, <5>1 DEF Part
        <5>2. CASE p[1] = c
          <6>1. p[2] # "control"
            BY <2>14, <4>1, <5>2
          <6>2. conn'[p[1]] = k /\ conn[p[1]] = conn[c]
            BY <2>1, <2>11, <5>2
          <6>3. QED
            BY <2>2, <2>7, <6>1, <6>2 DEF Part
        <5>3. QED
          BY <5>1, <5>2
      <4>3. Kept(p)' = Kept(p)
        BY <4>1, <4>2 DEF Kept, Part, ThreadsDiffer
      <4>4. QED
        BY <1>3, <1>4, <4>3 DEF FdAt
    <3>3. QED
      BY <3>1, <3>2
  <2>20. held2 \in [Place -> FdOr]
    <3>1. held2 = [p \in Place |-> held2[p]]
      BY <1>4 DEF FdAt
    <3>2. ASSUME NEW p \in Place PROVE held2[p] \in FdOr
      BY <1>1, <1>3, <2>17, <2>18, <2>19 DEF Owns, ServerRec, FdOr
    <3>3. QED
      BY <3>1, <3>2
  <2>21. SameBut(held1, held2, {from, to})
    BY <2>19 DEF SameBut
  <2>22. Owns(held2, table1)
    BY <1>1, <1>3, <2>15, <2>16, <2>17, <2>18, <2>20, <2>21, OwnsMoved
  <2>23. Owns(FdAt, fdtable)'
    BY <1>3, <1>4, <1>6, <2>22 DEF Owns
  <2>24. QED
    BY <1>2, <2>12, <2>13, <2>23 DEF FtpInv
<1>7. QED
  BY <1>5, <1>6 DEF ServerPut

\* Who holds a descriptor is its place.
LEMMA HoldersArePlaces ==
  ASSUME ThreadsDiffer
  PROVE  /\ \A p \in Place : FdAt[p] # Unopened =>
              p = <<p[1], p[2]>> /\ <<p[1], p[2], FdAt[p]>> \in Holders
         /\ \A h \in Holders :
              /\ h = <<h[1], h[2], h[3]>> /\ <<h[1], h[2]>> \in Place
              /\ h[3] = FdAt[<<h[1], h[2]>>] /\ h[3] # Unopened
<1>1. ASSUME NEW p \in Place, FdAt[p] # Unopened
      PROVE  p = <<p[1], p[2]>> /\ <<p[1], p[2], FdAt[p]>> \in Holders
  <2>1. CASE p \in {<<"server", "listen">>, <<"server", "client">>}
    BY <1>1, <2>1, ServerPlaces DEF Holders
  <2>2. CASE p \notin {<<"server", "listen">>, <<"server", "client">>}
    <3>1. p[1] \in Conn /\ p[2] \in Roles /\ p = <<p[1], p[2]>> /\ FdAt[p] = Part(conn[p[1]], p[2])
      BY <2>2, ServerPlaces
    <3>2. PICK c, r : c = p[1] /\ r = p[2]
      OBVIOUS
    <3>3. <<c, r, Part(conn[c], r)>> \in {<<c, "control", conn[c].socket>>,
                                          <<c, "listen", conn[c].data_socket>>,
                                          <<c, "transfer", conn[c].transfer>>}
      BY <3>1, <3>2 DEF Roles, Part
    <3>4. c \in Conn /\ Part(conn[c], r) # Unopened
      BY <1>1, <3>1, <3>2
    <3>5. <<c, r, Part(conn[c], r)>> \in Holders
      BY <3>3, <3>4 DEF Holders
    <3>6. QED
      BY <3>1, <3>2, <3>5
  <2>3. QED
    BY <2>1, <2>2
<1>2. ASSUME NEW h \in Holders
      PROVE  /\ h = <<h[1], h[2], h[3]>> /\ <<h[1], h[2]>> \in Place
             /\ h[3] = FdAt[<<h[1], h[2]>>] /\ h[3] # Unopened
  <2>1. h[3] # Unopened
    BY DEF Holders
  <2>2. CASE h \in {<<"server", "listen", server.socket>>, <<"server", "client", server.client>>}
    BY <2>1, <2>2, ServerPlaces
  <2>3. CASE h \notin {<<"server", "listen", server.socket>>, <<"server", "client", server.client>>}
    <3>1. PICK c \in Conn : h \in {<<c, "control", conn[c].socket>>,
                                   <<c, "listen", conn[c].data_socket>>,
                                   <<c, "transfer", conn[c].transfer>>}
      BY <2>3 DEF Holders
    <3>2. h = <<c, h[2], Part(conn[c], h[2])>> /\ h[1] = c /\ h[2] \in Roles
      BY <3>1 DEF Roles, Part
    <3>3. <<c, h[2]>> \in Place /\ FdAt[<<c, h[2]>>] = Part(conn[c], h[2])
      BY <3>2, ConnPlaces
    <3>4. QED
      BY <2>1, <3>2, <3>3
  <2>4. QED
    BY <2>2, <2>3
<1>3. QED
  BY <1>1, <1>2

\* What the invariant says of the holders of descriptors
LEMMA OwnedHolders ==
  ASSUME ThreadsDiffer, FtpInv
  PROVE  FdsOwned
<1>1. FtpTypeOK /\ Owns(FdAt, fdtable) /\ fdtable \subseteq Fd
      /\ conn \in [Conn -> ConnRec] /\ \A c \in Conn : Settled(conn[c])
  BY FtpConnType DEF FtpInv, FtpTypeOK
<1>2. ASSUME NEW h \in Holders PROVE h[3] \in fdtable
  BY <1>1, HoldersArePlaces DEF Owns
<1>3. ASSUME NEW f \in fdtable PROVE \E h \in Holders : h[3] = f
  <2>1. PICK p \in Place : FdAt[p] = f
    BY <1>1 DEF Owns
  <2>2. f # Unopened
    BY <1>1, FtpAssumption DEF Fd, Unopened
  <2>3. PICK h : h = <<p[1], p[2], FdAt[p]>>
    OBVIOUS
  <2>4. h \in Holders /\ h[3] = f
    BY <2>1, <2>2, <2>3, HoldersArePlaces
  <2>5. QED
    BY <2>4
<1>4. ASSUME NEW h \in Holders, NEW g \in Holders, h[3] = g[3] PROVE h = g
  <2>1. /\ h = <<h[1], h[2], h[3]>> /\ <<h[1], h[2]>> \in Place
        /\ h[3] = FdAt[<<h[1], h[2]>>] /\ h[3] # Unopened
    BY HoldersArePlaces
  <2>2. /\ g = <<g[1], g[2], g[3]>> /\ <<g[1], g[2]>> \in Place
        /\ g[3] = FdAt[<<g[1], g[2]>>]
    BY HoldersArePlaces
  <2>3. <<h[1], h[2]>> = <<g[1], g[2]>>
    BY <1>1, <1>4, <2>1, <2>2 DEF Owns
  <2>4. h[1] = g[1] /\ h[2] = g[2]
    BY <2>3
  <2>5. QED
    BY <1>4, <2>1, <2>2, <2>4
<1>5. {h[3] : h \in Holders} = fdtable
  BY <1>2, <1>3
<1>6. Cardinality(Holders) = Cardinality(fdtable)
  <2>1. IsFiniteSet(fdtable)
    <3>1. IsFiniteSet(Fd)
      BY FtpAssumption, FS_Interval DEF Fd
    <3>2. QED
      BY <1>1, <3>1, FS_Subset
  <2>2. PICK F : F = [h \in Holders |-> h[3]]
    OBVIOUS
  <2>3. F \in [Holders -> fdtable] /\ (\A h, g \in Holders : F[h] = F[g] => h = g)
        /\ \A f \in fdtable : \E h \in Holders : F[h] = f
    BY <1>2, <1>3, <1>4, <2>2
  <2>4. F \in Bijection(Holders, fdtable)
    BY <2>3, Fun_IsBij
  <2>5. ExistsBijection(Holders, fdtable)
    BY <2>4, Fun_ExistsBij
  <2>6. ExistsBijection(fdtable, Holders)
    BY <2>5, Fun_ExistsBijSymmetric
  <2>7. QED
    BY <2>1, <2>6, FS_Bijection
<1>7. ASSUME NEW c \in Conn, conn[c].file PROVE conn[c].transfer # Unopened
  BY <1>1, <1>7 DEF Settled, Untransferring
<1>8. QED
  BY <1>5, <1>6, <1>7 DEF FdsOwned

\* Every open descriptor of the FTP server has exactly one place it will be
\* closed from, whatever the connections do and however their sends, accepts
\* and files fail, as long as PASV finds the address of its client: the sockets
\* that lftpd.c opens and closes on its error paths are neither lost nor closed
\* twice.
THEOREM EveryFdHasOneOwner ==
  ThreadsDiffer /\ "pasv" \notin FtpFaults => (FtpSpec => []FdsOwned)
<1> SUFFICES ASSUME ThreadsDiffer, "pasv" \notin FtpFaults PROVE FtpSpec => []FdsOwned
  OBVIOUS
<1>1. FtpInit => FtpInv
  <2> SUFFICES ASSUME FtpInit PROVE FtpInv
    OBVIOUS
  <2>1. 1 \in Fd /\ 1 # Unopened /\ fdtable = {1}
    BY FtpAssumption DEF FtpInit, Fd, Unopened
  <2>2. Unconnected \in ConnRec
    BY DEF Unconnected, ConnRec, FdOr, Commands
  <2>3. conn = [c \in Conn |-> Unconnected] /\ \A c \in Conn : conn[c] \in ConnRec
    BY <2>2 DEF FtpInit
  <2>4. server \in ServerRec /\ server.socket = 1 /\ server.client = Unopened
    BY <2>1 DEF FtpInit, ServerRec, FdOr
  <2>5. FtpTypeOK
    BY <2>1, <2>3, <2>4 DEF FtpTypeOK, ConnRec, ServerRec
  <2>6. Settled(Unconnected)
    BY DEF Settled, Unconnected, Untransferring
  <2>7. FdAt \in [Place -> FdOr]
    BY <2>5, HeldType
  <2>8. ASSUME NEW p \in Place
        PROVE  FdAt[p] = IF p = <<"server", "listen">> THEN 1 ELSE Unopened
    <3>1. CASE p \in {<<"server", "listen">>, <<"server", "client">>}
      BY <2>4, <3>1, ServerPlaces
    <3>2. CASE p \notin {<<"server", "listen">>, <<"server", "client">>}
      <4>1. p[1] \in Conn /\ FdAt[p] = Part(conn[p[1]], p[2])
        BY <3>2, ServerPlaces
      <4>2. conn[p[1]] = Unconnected
        BY <2>3, <4>1
      <4>3. QED
        BY <3>2, <4>1, <4>2 DEF Part, Unconnected
    <3>3. QED
      BY <3>1, <3>2
  <2>9. Owns(FdAt, fdtable)
    BY <2>1, <2>7, <2>8, ServerPlaces DEF Owns
  <2>10. QED
    BY <2>3, <2>4, <2>5, <2>6, <2>9 DEF FtpInv
<1>2. FtpInv /\ [FtpNext]_ftpVars => FtpInv'
  <2> SUFFICES ASSUME FtpInv, [FtpNext]_ftpVars PROVE FtpInv'
    OBVIOUS
  <2>1. CASE ServerAccept
    BY <2>1, ServerAcceptKeeps
  <2>2. CASE ServerPut
    BY <2>2, ServerPutKeeps
  <2>3. ASSUME NEW c \in Conn, Greet(c) \/ Simple(c) \/ Leave(c) \/ Transfer(c)
        PROVE  FtpInv'
    BY <2>3, IdleSteps
  <2>4. ASSUME NEW c \in Conn, cmd_epsv(c) \/ cmd_pasv(c) PROVE FtpInv'
    BY <2>4, ListenSteps
  <2>5. ASSUME NEW c \in Conn, accept_data_connection(c) PROVE FtpInv'
    BY <2>5, AcceptSteps
  <2>6. ASSUME NEW c \in Conn,
               \/ cmd_list(c) \/ cmd_nlst(c) \/ cmd_retr(c) \/ cmd_stor(c)
               \/ send_list(c) \/ send_nlst(c) \/ send_file(c) \/ receive_file(c)
        PROVE  FtpInv'
    BY <2>6, TransferSteps
  <2>7. ASSUME NEW c \in Conn, TransferEnds(c) PROVE FtpInv'
    BY <2>7, EndSteps
  <2>8. ASSUME NEW c \in Conn, Exit(c) PROVE FtpInv'
    BY <2>8, ExitSteps
  <2>9. CASE UNCHANGED ftpVars
    <3>1. FtpTypeOK' /\ (server.at # "put" => server.client = Unopened)'
      BY <2>9 DEF ftpVars, FtpInv, FtpTypeOK
    <3>2. PICK held1, held2 : held1 = FdAt /\ held2 = FdAt'
      OBVIOUS
    <3>3. held1 = held2
      BY <2>9, <3>2 DEF ftpVars, FdAt, Kept, Part
    <3>4. Owns(held2, fdtable)
      BY <3>2, <3>3 DEF FtpInv
    <3>5. Owns(FdAt, fdtable)'
      BY <2>9, <3>2, <3>4 DEF ftpVars, Owns
    <3>6. \A c \in Conn : Settled(conn[c])'
      BY <2>9, Zenon DEF ftpVars, FtpInv, Settled
    <3>7. QED
      BY <3>1, <3>5, <3>6 DEF FtpInv
  <2>10. QED
    BY <2>1, <2>2, <2>3, <2>4, <2>5, <2>6, <2>7, <2>8, <2>9 DEF FtpNext
<1>3. FtpInv => FdsOwned
  BY OwnedHolders
<1>4. QED
  BY <1>1, <1>2, <1>3, PTL DEF FtpSpec

=============================================================================
