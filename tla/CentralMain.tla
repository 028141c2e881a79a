---------------------------- MODULE CentralMain ----------------------------
(***************************************************************************)
(* The central node's application, central/app/src/main.c, on top of       *)
(* CentralSync: its three states, pairing, and the one button that is also *)
(* held down to switch the device on.                                      *)
(*                                                                         *)
(* central_pair(), central_start(), central_stop() and central_toggle()    *)
(* run under central_mutex and never block in it: one step each.           *)
(***************************************************************************)
EXTENDS CentralSync

VARIABLES
  state,         \* central_data.state
  advertising,   \* the connectable advertising set is on
  filtered,      \* it accepts bonded nodes only
  booted,        \* how far button_init() has come
  button,        \* the button's level
  released,      \* central_data.button_boot_released
  release_work,  \* central_button_release_work is scheduled
  boot_press,    \* history: the press that switched the device on goes on,
                 \* or its release has not been handled
  before         \* history: the commands issued before the last boot

mainVars == <<state, advertising, filtered>>
buttonVars == <<booted, button, released, release_work, boot_press, before>>
vars == <<syncVars, mainVars, buttonVars>>

STATES == {"IDLE", "PAIRING", "RECORDING"}

TypeOK ==
  /\ SyncTypeOK
  /\ state \in STATES
  /\ advertising \in BOOLEAN /\ filtered \in BOOLEAN
  /\ booted \in {"no", "irq", "ready"}
  /\ button \in {"down", "up"}
  /\ released \in BOOLEAN /\ release_work \in BOOLEAN /\ boot_press \in BOOLEAN
  /\ before \in Ordinal

Init ==
  /\ SyncInit
  /\ state = "IDLE" /\ advertising = TRUE /\ filtered = TRUE
  /\ booted = "no" /\ button \in {"down", "up"}
  /\ released = FALSE /\ release_work = FALSE
  /\ boot_press = (button = "down")
  /\ before = 0

-----------------------------------------------------------------------------
(***************************************************************************)
(* State changes.                                                          *)
(***************************************************************************)

\* Mutant: the state changes whether or not the command was accepted.
StateAfter_Unchecked(s) == state' = s

\* The state only changes when the command went into the queue.
StateAfter(s) == state' = IF Len(cmd_queue) < QueueSize THEN s ELSE state

CmdStart == sync_cmd_start \/ (QueueFull /\ UNCHANGED syncVars)
CmdStop  == sync_cmd_stop \/ (QueueFull /\ UNCHANGED syncVars)

\* -EBUSY while pairing.
central_start ==
  /\ IF state = "PAIRING" THEN UNCHANGED <<syncVars, state>>
                          ELSE CmdStart /\ StateAfter("RECORDING")
  /\ UNCHANGED <<advertising, filtered, buttonVars>>

central_stop ==
  /\ IF state = "PAIRING" THEN UNCHANGED <<syncVars, state>>
                          ELSE CmdStop /\ StateAfter("IDLE")
  /\ UNCHANGED <<advertising, filtered, buttonVars>>

Toggle ==
  \/ state = "PAIRING" /\ UNCHANGED <<syncVars, state>>
  \/ state = "IDLE" /\ CmdStart /\ StateAfter("RECORDING")
  \/ state = "RECORDING" /\ CmdStop /\ StateAfter("IDLE")

\* Mutant: a recording does not keep pairing out.
MayPair_Recording == state # "PAIRING"

MayPair == state = "IDLE"

\* Advertising stops, its parameters change, and it starts again; each of the
\* three calls may fail, and what was done before it stays done.
central_pair ==
  /\ \/ /\ MayPair
        /\ \/ /\ state' = "PAIRING" /\ advertising' = TRUE /\ filtered' = FALSE
           \/ "adv" \in Faults /\ UNCHANGED mainVars
           \/ /\ "adv" \in Faults
              /\ advertising' = FALSE /\ filtered' \in {filtered, FALSE}
              /\ UNCHANGED state
     \/ ~MayPair /\ UNCHANGED mainVars
  /\ UNCHANGED <<syncVars, buttonVars>>

-----------------------------------------------------------------------------
(***************************************************************************)
(* The button.  button_init() enables its interrupt, then reads its level; *)
(* the interrupt reschedules a work item that runs 50 ms later.            *)
(***************************************************************************)
button_init_irq ==
  /\ booted = "no" /\ booted' = "irq"
  /\ UNCHANGED <<syncVars, mainVars, button, released, release_work, boot_press, before>>

button_init_level ==
  /\ booted = "irq" /\ booted' = "ready"
  /\ released' = (released \/ button = "up")
  /\ UNCHANGED <<syncVars, mainVars, button, release_work, boot_press, before>>

button_press ==
  /\ button = "up" /\ button' = "down"
  /\ UNCHANGED <<syncVars, mainVars, booted, released, release_work, boot_press,
                 before>>

\* Without "early" the button is not let go in the microseconds between the
\* two steps of button_init().  A release before them raises no interrupt.
button_release_handler ==
  /\ button = "down" /\ button' = "up"
  /\ booted # "irq" \/ "early" \in Faults
  /\ IF booted = "no" THEN boot_press' = FALSE /\ UNCHANGED release_work
                      ELSE release_work' = TRUE /\ UNCHANGED boot_press
  /\ UNCHANGED <<syncVars, mainVars, booted, released, before>>

\* Mutant: the release of the boot press is not told apart.
WasReleased_Always == TRUE

\* The old value atomic_set() returns.
WasReleased == released

button_release_work_handler ==
  /\ release_work /\ release_work' = FALSE
  /\ released' = TRUE /\ boot_press' = FALSE
  /\ IF WasReleased THEN Toggle ELSE UNCHANGED <<syncVars, state>>
  /\ UNCHANGED <<advertising, filtered, booted, button, before>>

-----------------------------------------------------------------------------
Reboot ==
  /\ SyncReboot
  /\ state' = "IDLE" /\ advertising' = TRUE /\ filtered' = TRUE
  /\ booted' = "no" /\ button' \in {"down", "up"}
  /\ released' = FALSE /\ release_work' = FALSE
  /\ boot_press' = (button' = "down")
  /\ before' = Len(issued)

Sync ==
  /\ packet_sent \/ sync_adv_update
  /\ UNCHANGED <<mainVars, buttonVars>>

Next ==
  \/ Sync
  \/ central_start \/ central_stop \/ central_pair
  \/ button_init_irq \/ button_init_level \/ button_press
  \/ button_release_handler \/ button_release_work_handler
  \/ Reboot

Spec == Init /\ [][Next]_vars

-----------------------------------------------------------------------------
(***************************************************************************)
(* Properties.                                                             *)
(***************************************************************************)

\* The commands given since the central booted.
Given == before < Len(issued)

\* What the central believes is what it has told the nodes: it is in the
\* RECORDING state exactly if the last command it could send was a START,
\* across refused commands, the shell and the button.
StateFollowsCommands ==
  state = "RECORDING" <=> Given /\ IsStart(Len(issued))

\* While nodes are being paired none of them has been told to record since the
\* central booted.
PairingIsExclusive ==
  state = "PAIRING" =>
    /\ advertising /\ ~filtered
    /\ Given => IsStop(Len(issued))

\* The button held down to switch the device on does not start a recording
\* when it is let go (main.c:265-267).
BootReleaseIgnored ==
  [][boot_press /\ release_work /\ ~release_work' /\ booted' = booted
      => UNCHANGED syncVars]_vars

\* A START given while idle, or a STOP while recording, is a state change the
\* LED shows once the queue has drained: button, state and light agree.
LightFollowsState ==
  cmd_queue = <<>> =>
    (light \in {"waiting", "started"} <=> state = "RECORDING")

=============================================================================
