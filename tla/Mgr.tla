-------------------------------- MODULE Mgr --------------------------------
(***************************************************************************)
(* The node manager of an audio node: audio/app/src/mgr.cpp on the         *)
(* coroutines of coroutine.hpp.                                            *)
(*                                                                         *)
(* mgr_run() is one coroutine.  A callback of the Bluetooth thread loans   *)
(* it an event and resumes it under a mutex; it goes on from where it      *)
(* waits, as far as it gets, and yields.  mgr_pair_start(), called by the  *)
(* shell, sets a command and cancels what the coroutine waits for, both    *)
(* without the mutex, and then resumes it too.                             *)
(*                                                                         *)
(* What a packet does to the recorder is in Distribution, and to the clock *)
(* in SyncTime.  One connection is tried at a time, so the events of other *)
(* connections, which mgr_loan_get_conn() skips, are left out.             *)
(***************************************************************************)
EXTENDS Integers

CONSTANT MgrFaults  \* what the instance may meet

\* The faults an instance may enable:
\*   scan     bt_le_scan_start() fails
\*   call     another call to the Bluetooth host fails
\*   race     mgr_pair_start() writes between two steps of mgr_run()
\*   reenter  deleting a sync calls mgr_per_adv_sync_term() from within
MgrFaultKind == {"scan", "call", "race", "reenter"}

ASSUME MgrAssumption == MgrFaults \subseteq MgrFaultKind

VARIABLES
  cmd,       \* mgr.cmd
  cancel_command,
  at,        \* where mgr_run() is, or what it awaits
  arg,       \* the argument `cancel' of the awaited coroutine
  taken,     \* the local cmd of mgr_run()
  nested,    \* mgr_run() has been called from within itself
  lock,      \* who holds the mutex of co_sync
  loan,      \* the event on loan
  bt,        \* the Bluetooth thread: "idle" or in a "call"
  shell,     \* the shell's thread: "idle", has written the "cmd", in a "call"
  radio,     \* what the Bluetooth host has: scanning, sync, connection, bond
  light,     \* the LED shows a sync
  asked      \* history: a request to pair has not been begun

mgrVars == <<cmd, cancel_command, at, arg, taken, nested, lock, loan, bt,
             shell, radio, light, asked>>

ScanStates == {"scan_sync", "scan_central"}
ConnStates == {"connecting", "securing"}
Awaits     == ScanStates \cup ConnStates \cup {"unpaired", "syncing"}
Steps      == {"top", "cleared", "taken"}

Reports == {"periodic", "connectable"}
Event   == Reports \cup {"synced", "term", "recv", "connected", "refused",
                         "secure", "insecure", "paired", "unpaired"}

MgrTypeOK ==
  /\ cmd \in {"none", "pair"} /\ taken \in {"none", "pair"}
  /\ at \in {"start"} \cup Awaits \cup Steps
  /\ lock \in {"none", "main", "bt", "shell"}
  /\ loan \in Event \cup {"none"}
  /\ bt \in {"idle", "call"} /\ shell \in {"idle", "cmd", "call"}
  /\ radio \in [scan : BOOLEAN, sync : {"none", "pending", "synced"},
                conn : {"none", "pending", "up"}, bond : BOOLEAN]
  /\ {cancel_command, arg, nested, light, asked} \subseteq BOOLEAN

\* mgr_init() has called mgr_run() from the main thread.
MgrInit ==
  /\ cmd = "none" /\ cancel_command = FALSE
  /\ at = "start" /\ arg = FALSE /\ taken = "none" /\ nested = FALSE
  /\ lock = "main" /\ loan = "none" /\ bt = "idle" /\ shell = "idle"
  /\ radio \in [scan : {FALSE}, sync : {"none"}, conn : {"none"}, bond : BOOLEAN]
  /\ light = FALSE /\ asked = FALSE

-----------------------------------------------------------------------------
(***************************************************************************)
(* The Bluetooth thread: the host reports something, and the callback      *)
(* loans it to the coroutine until its own call of mgr_run() is over.      *)
(***************************************************************************)
Heard(e) ==
  \/ e \in Reports /\ radio.scan /\ radio' = radio
  \/ e = "synced" /\ radio.sync = "pending" /\ radio' = [radio EXCEPT !.sync = "synced"]
  \/ e = "term" /\ radio.sync # "none" /\ radio' = [radio EXCEPT !.sync = "none"]
  \/ e = "recv" /\ radio.sync = "synced" /\ radio' = radio
  \/ e = "connected" /\ radio.conn = "pending" /\ radio' = [radio EXCEPT !.conn = "up"]
  \/ e = "refused" /\ radio.conn = "pending" /\ radio' = radio
  \/ e = "paired" /\ radio.conn = "up" /\ ~radio.bond
       /\ radio' = [radio EXCEPT !.bond = TRUE]
  \/ e \in {"secure", "insecure", "unpaired"} /\ radio.conn = "up" /\ radio' = radio

Callback ==
  /\ bt = "idle" /\ at # "start"
  /\ \E e \in Event : Heard(e) /\ loan' = e
  /\ bt' = "call"
  /\ UNCHANGED <<cmd, cancel_command, at, arg, taken, nested, lock, shell,
                 light, asked>>

-----------------------------------------------------------------------------
(***************************************************************************)
(* mgr_pair_start().                                                       *)
(***************************************************************************)
Racing == "race" \in MgrFaults

\* Mutant: what the coroutine waits for is not cancelled.
Cancels_Not == FALSE

Cancels == TRUE

\* Unless it races it writes while mgr_run() is not between two steps, and
\* both variables before anyone else goes on.
pair_start ==
  /\ shell = "idle" /\ at # "start"
  /\ Racing \/ at \notin Steps
  /\ cmd' = "pair" /\ asked' = TRUE
  /\ shell' = "cmd"
  /\ UNCHANGED <<cancel_command, at, arg, taken, nested, lock, loan, bt, radio,
                 light>>

pair_cancel ==
  /\ shell = "cmd" /\ shell' = "call"
  /\ cancel_command' = Cancels
  /\ UNCHANGED <<cmd, at, arg, taken, nested, lock, loan, bt, radio, light, asked>>

-----------------------------------------------------------------------------
(***************************************************************************)
(* The mutex, and the loan's guard.                                        *)
(***************************************************************************)
Enter ==
  /\ lock = "none"
  /\ \/ bt = "call" /\ lock' = "bt"
     \/ shell = "call" /\ lock' = "shell"
  /\ arg' = cancel_command
  /\ UNCHANGED <<cmd, cancel_command, at, taken, nested, loan, bt, shell,
                 radio, light, asked>>

\* The call returns; the callback ends its loan.  A call from within leaves
\* the outer one to return from the sync, in whose place the inner one may
\* have begun another coroutine.
Yield(next) ==
  IF nested
  THEN /\ nested' = FALSE /\ at' = "top"
       /\ UNCHANGED <<lock, bt, shell, loan>>
  ELSE /\ lock' = "none" /\ at' = next
       /\ bt' = IF lock = "bt" THEN "idle" ELSE bt
       /\ loan' = IF lock = "bt" THEN "none" ELSE loan
       /\ shell' = IF lock = "shell" THEN "idle" ELSE shell
       /\ UNCHANGED nested

Stays == UNCHANGED <<nested, lock, bt, shell, loan>>

-----------------------------------------------------------------------------
(***************************************************************************)
(* The loop of mgr_run(), which shares cmd and cancel_command with         *)
(* mgr_pair_start().                                                       *)
(***************************************************************************)
Start ==
  /\ lock # "none" /\ at = "start" /\ at' = "top"
  /\ UNCHANGED <<cmd, cancel_command, arg, taken, nested, lock, loan, bt,
                 shell, radio, light, asked>>

Clear ==
  /\ at = "top" /\ at' = "cleared"
  /\ cancel_command' = FALSE
  /\ UNCHANGED <<cmd, arg, taken, nested, lock, loan, bt, shell, radio, light,
                 asked>>

Take ==
  /\ at = "cleared" /\ at' = "taken"
  /\ taken' = cmd
  /\ UNCHANGED <<cmd, cancel_command, arg, nested, lock, loan, bt, shell,
                 radio, light, asked>>

\* A coroutine is begun; it scans.  If that fails it stops the scan there is.
Scan(next) ==
  /\ arg' = cancel_command
  /\ \/ /\ ~radio.scan
        /\ at' = next /\ radio' = [radio EXCEPT !.scan = TRUE]
        /\ asked' = (asked /\ (next # "scan_central" \/ arg'))
     \/ /\ radio.scan \/ "scan" \in MgrFaults
        /\ at' = "top" /\ radio' = [radio EXCEPT !.scan = FALSE]
        /\ UNCHANGED asked

\* Without a bond it just waits for the next call.
Begin ==
  /\ at = "taken"
  /\ cmd' = "none"
  /\ \/ taken = "pair" /\ Scan("scan_central") /\ Stays
     \/ taken = "none" /\ radio.bond /\ Scan("scan_sync") /\ Stays
     \/ taken = "none" /\ ~radio.bond /\ Yield("unpaired") /\ UNCHANGED <<arg, radio, asked>>
  /\ UNCHANGED <<cancel_command, taken, light>>

Resumed ==
  /\ at = "unpaired" /\ lock # "none" /\ at' = "top"
  /\ UNCHANGED <<cmd, cancel_command, arg, taken, nested, lock, loan, bt,
                 shell, radio, light, asked>>

-----------------------------------------------------------------------------
(***************************************************************************)
(* What the coroutine awaits: a step looks at the argument and the loan,   *)
(* and yields if there is neither.                                         *)
(***************************************************************************)
Wants ==
  CASE at \in ScanStates -> Reports
    [] at = "syncing"    -> {"synced", "term", "recv"}
    [] at = "connecting" -> {"connected", "refused"}
    [] at = "securing"   -> {"secure", "insecure", "paired", "unpaired"}
    [] OTHER             -> {}

AwaitsSome == lock # "none" /\ at \in Awaits \ {"unpaired"}

Pending ==
  /\ AwaitsSome
  /\ ~arg /\ loan \notin Wants
  /\ Yield(at)
  /\ UNCHANGED <<cmd, cancel_command, arg, taken, radio, light, asked>>

\* Mutant: the event stays on loan.
Consumed_Not == loan

\* co_loan::get()
Consumed == "none"

\* What the event, or the cancellation, does.
Got(e) == AwaitsSome /\ ~arg /\ loan = e /\ loan' = Consumed
Canceled == AwaitsSome /\ arg /\ loan' = loan

CallFails == "call" \in MgrFaults

\* Mutant: the scan is left on.
StopScan_Not == radio

\* bt_le_scan_stop() at the exit of both scans.
StopScan == [radio EXCEPT !.scan = FALSE]

\* mgr_scan_for_sync(), then bt_le_per_adv_sync_create()
ScanForSync ==
  /\ at = "scan_sync" /\ UNCHANGED <<light, nested>>
  /\ \/ Canceled /\ at' = "top" /\ radio' = StopScan
     \/ Got("connectable") /\ at' = at /\ radio' = radio
     \/ /\ Got("periodic")
        /\ \/ at' = "syncing" /\ radio' = [StopScan EXCEPT !.sync = "pending"]
           \/ CallFails /\ at' = "top" /\ radio' = StopScan

\* bt_le_per_adv_sync_delete() at the exit of mgr_sync()
DeleteSync == [radio EXCEPT !.sync = "none"]

\* mgr_sync(): the sync's events, until it terminates or is cancelled.
Syncing ==
  /\ at = "syncing"
  /\ \/ /\ Canceled /\ at' = "top" /\ radio' = DeleteSync
        /\ nested' = (nested \/ ("reenter" \in MgrFaults /\ radio.sync = "synced"))
        /\ UNCHANGED light
     \/ /\ Got("term") /\ at' = "top" /\ radio' = DeleteSync
        /\ light' = FALSE /\ UNCHANGED nested
     \/ /\ Got("synced") /\ light' = TRUE /\ UNCHANGED <<at, radio, nested>>
     \/ /\ Got("recv") /\ UNCHANGED <<at, radio, light, nested>>

\* mgr_scan_for_central(), then bt_conn_le_create()
ScanForCentral ==
  /\ at = "scan_central" /\ UNCHANGED <<light, nested>>
  /\ \/ Canceled /\ at' = "top" /\ radio' = StopScan
     \/ Got("periodic") /\ at' = at /\ radio' = radio
     \/ /\ Got("connectable")
        /\ \/ at' = "connecting" /\ radio' = [StopScan EXCEPT !.conn = "pending"]
           \/ CallFails /\ at' = "top" /\ radio' = StopScan

\* The exit of mgr_pair(): on an error the connection is closed, and in any
\* case no longer held.
EndConn == [radio EXCEPT !.conn = "none"]

\* mgr_pair(): the connection, then bt_conn_set_security()
Connecting ==
  /\ at = "connecting" /\ UNCHANGED <<light, nested>>
  /\ \/ (Canceled \/ Got("refused")) /\ at' = "top" /\ radio' = EndConn
     \/ /\ Got("connected")
        /\ \/ at' = "securing" /\ radio' = radio
           \/ CallFails /\ at' = "top" /\ radio' = EndConn

\* mgr_pair(): security, and the bond that it makes.
Securing ==
  /\ at = "securing" /\ UNCHANGED <<light, nested>>
  /\ \/ Got("paired") /\ at' = at /\ radio' = radio
     \/ /\ Canceled \/ Got("secure") \/ Got("insecure") \/ Got("unpaired")
        /\ at' = "top" /\ radio' = EndConn

Await ==
  /\ ScanForSync \/ Syncing \/ ScanForCentral \/ Connecting \/ Securing
  /\ UNCHANGED <<cmd, cancel_command, arg, taken, lock, bt, shell, asked>>

mgr_run == Start \/ Clear \/ Take \/ Begin \/ Resumed \/ Pending \/ Await

MgrNext ==
  \/ pair_start \/ pair_cancel
  \/ (shell = "cmd" => Racing) /\ (Callback \/ Enter \/ mgr_run)

MgrSpec == MgrInit /\ [][MgrNext]_mgrVars

\* A thread that has the mutex goes on, and one that waits for it gets it.
MgrServed == mgr_run \/ pair_cancel

MgrFairness == WF_mgrVars(MgrServed) /\ WF_mgrVars(Enter)

-----------------------------------------------------------------------------
(***************************************************************************)
(* Properties.                                                             *)
(***************************************************************************)

\* Between two calls the radio does what the coroutine is waiting for and
\* nothing else: a scan, a sync or a connection that were left behind would
\* make the next one fail (the exits of mgr.cpp:381, 420, 513 and 657).
NothingLeftOn ==
  lock = "none" =>
    /\ radio.scan <=> at \in ScanStates
    /\ radio.sync # "none" => at = "syncing"
    /\ radio.conn # "none" => at \in ConnStates

\* When mgr_pair_start() has returned the node has begun to pair, whatever it
\* was doing and whatever was reported meanwhile (shell.c:50, "Pair with a
\* central node").
PairingBegins == (lock = "none" /\ shell = "idle") => ~asked

=============================================================================
