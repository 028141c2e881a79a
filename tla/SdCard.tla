------------------------------- MODULE SdCard -------------------------------
(***************************************************************************)
(* The SD card manager: audio/app/src/sd_card.c over the disk cache.       *)
(*                                                                         *)
(* The card interrupt schedules a work item 100 ms later; the item looks   *)
(* at the slot once and then initialises, mounts and announces the card,   *)
(* or unmounts and deinitialises it.  The card may be pulled between any   *)
(* two of these calls, each of which may fail, and then the handler stops. *)
(*                                                                         *)
(* The recorder is here the scan that record_card_inserted() makes, and    *)
(* the cache the cards whose sectors it holds; their own modules are       *)
(* Record and DiskCache.                                                   *)
(***************************************************************************)
EXTENDS Integers

CONSTANTS
  Card,     \* the cards
  SdFaults  \* what the instance may meet

\* The faults an instance may enable:
\*   init, info, mount     these calls fail when a card is inserted
\*   scan                  record_card_inserted() fails
\*   unmount, deinit       these calls fail when a card was removed
\*   bounce                a card is inserted before the work item has dealt
\*                         with the removal of the one before
SdFaultKind == {"init", "info", "mount", "scan", "unmount", "deinit", "bounce"}

ASSUME SdAssumption == SdFaults \subseteq SdFaultKind /\ "none" \notin Card

VARIABLES
  slot,     \* the card in the slot
  sd,       \* the flags of struct sd_card_data
  disk,     \* what is below: the card initialised, the cards cached
  sdwork,   \* sd_card_work is scheduled
  sdpc,     \* where its handler is
  scanned,  \* the card that the recorder's index is of
  sderr     \* history: the handler's last run ended with an error

sdVars == <<slot, sd, disk, sdwork, sdpc, scanned, sderr>>

Slot == Card \cup {"none"}

SdTypeOK ==
  /\ slot \in Slot /\ scanned \in Slot
  /\ sd \in [disk_init : BOOLEAN, mounted : BOOLEAN]
  /\ disk \in [card : Slot, cached : SUBSET Card]
  /\ sdpc \in {"idle", "init", "info", "mount", "notify", "unmount", "deinit"}
  /\ {sdwork, sderr} \subseteq BOOLEAN

\* sd_card_init() schedules the work item at once.
SdInit ==
  /\ slot \in Slot /\ scanned = "none"
  /\ sd = [disk_init |-> FALSE, mounted |-> FALSE]
  /\ disk = [card |-> "none", cached |-> {}]
  /\ sdwork = TRUE /\ sdpc = "idle" /\ sderr = FALSE

-----------------------------------------------------------------------------
(***************************************************************************)
(* The slot and its interrupt.                                             *)
(***************************************************************************)

\* Mutant: an event is dropped while the handler runs.
Scheduled_WhenIdle == sdpc = "idle"

\* sd_card_interrupt(): k_work_reschedule() of an item that may be running.
Scheduled == TRUE

SdSettled == ~sdwork /\ sdpc = "idle"

Insert ==
  /\ slot = "none" /\ slot' \in Card
  /\ SdSettled \/ "bounce" \in SdFaults
  /\ sdwork' = (sdwork \/ Scheduled)
  /\ UNCHANGED <<sd, disk, sdpc, scanned, sderr>>

Remove ==
  /\ slot # "none" /\ slot' = "none"
  /\ sdwork' = (sdwork \/ Scheduled)
  /\ UNCHANGED <<sd, disk, sdpc, scanned, sderr>>

-----------------------------------------------------------------------------
(***************************************************************************)
(* The handler.                                                            *)
(***************************************************************************)
Deinit == IF sd.disk_init THEN "deinit" ELSE "idle"

sd_card_work_handler ==
  /\ sdwork /\ sdpc = "idle"
  /\ sdwork' = FALSE /\ sderr' = FALSE
  /\ sdpc' = CASE slot # "none" /\ ~sd.disk_init -> "init"
               [] slot # "none" /\ sd.disk_init /\ ~sd.mounted -> "mount"
               [] slot # "none" /\ sd.disk_init /\ sd.mounted -> "notify"
               [] slot = "none" -> IF sd.mounted THEN "unmount" ELSE Deinit
  /\ UNCHANGED <<slot, sd, disk, scanned>>

At(p, next) == sdpc = p /\ sdpc' = next /\ sderr' = sderr
Fails(p, f) == sdpc = p /\ f /\ sdpc' = "idle" /\ sderr' = TRUE
May(f) == f \in SdFaults

\* disk_cache_flush() at CTRL_INIT and CTRL_DEINIT, if the disk below agreed
FlushedForCard == {}

\* The size of the card is read without the cache; without a card it fails.
sd_card_inserted_init ==
  /\ \/ /\ At("init", "info") /\ slot # "none"
        /\ sd' = [sd EXCEPT !.disk_init = TRUE]
        /\ disk' = [card |-> slot, cached |-> FlushedForCard]
     \/ /\ Fails("init", slot = "none" \/ May("init"))
        /\ UNCHANGED <<sd, disk>>
     \/ /\ \/ At("info", "mount") /\ slot = disk.card
           \/ Fails("info", slot # disk.card \/ May("info"))
        /\ UNCHANGED <<sd, disk>>
  /\ UNCHANGED <<slot, sdwork, scanned>>

\* What reads now: the card that was initialised, and what is cached.
Answers == (IF slot = disk.card THEN {slot} \ {"none"} ELSE {}) \cup disk.cached

\* fs_mount() reads the card through the cache.
sd_card_inserted_mount ==
  /\ \/ /\ At("mount", "notify") /\ Answers # {}
        /\ sd' = [sd EXCEPT !.mounted = TRUE]
        /\ disk' = [disk EXCEPT !.cached = Answers]
     \/ /\ Fails("mount", Answers = {} \/ May("mount"))
        /\ disk' \in {disk, [disk EXCEPT !.cached = Answers]} /\ UNCHANGED sd
  /\ UNCHANGED <<slot, sdwork, scanned>>

\* record_card_inserted() scans the file system; see Record.
sd_card_inserted_notify ==
  /\ \/ At("notify", "idle") /\ \E c \in Answers : scanned' = c
     \/ Fails("notify", Answers = {} \/ May("scan")) /\ UNCHANGED scanned
  /\ disk' = [disk EXCEPT !.cached = Answers]
  /\ UNCHANGED <<slot, sd, sdwork>>

Unmounted == [sd EXCEPT !.mounted = FALSE]

sd_card_removed ==
  /\ \/ At("unmount", Deinit)
          /\ sd' = Unmounted /\ UNCHANGED disk
     \/ Fails("unmount", May("unmount")) /\ UNCHANGED <<sd, disk>>
     \/ At("deinit", "idle") /\ sd' = [sd EXCEPT !.disk_init = FALSE]
          /\ disk' = [card |-> "none", cached |-> FlushedForCard]
     \/ Fails("deinit", May("deinit")) /\ UNCHANGED <<sd, disk>>
  /\ UNCHANGED <<slot, sdwork, scanned>>

SdHandler ==
  \/ sd_card_work_handler \/ sd_card_inserted_init \/ sd_card_inserted_mount
  \/ sd_card_inserted_notify \/ sd_card_removed

SdNext == Insert \/ Remove \/ SdHandler

SdSpec == SdInit /\ [][SdNext]_sdVars

-----------------------------------------------------------------------------
(***************************************************************************)
(* Properties.                                                             *)
(***************************************************************************)

\* Once the handler has nothing left to do, what is mounted, cached and, if
\* no call failed, indexed is the card in the slot, whenever cards were
\* pulled and whatever failed when they were inserted (sd_card.c:83-157).
CardFollowsSlot ==
  SdSettled =>
    /\ sd.mounted => slot # "none" /\ disk.card = slot
    /\ disk.cached \subseteq {slot}
    /\ slot # "none" /\ ~sderr => sd.mounted /\ scanned = slot

=============================================================================
