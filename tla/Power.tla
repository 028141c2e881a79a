------------------------------- MODULE Power -------------------------------
(***************************************************************************)
(* Power: common/src/power.c on top of the BQ2515x charger                 *)
(* (drivers/mfd/mfd_bq2515x.c, drivers/charger/charger_bq2515x.c,          *)
(* drivers/regulator/regulator_bq2515x.c), composed with the status light. *)
(*                                                                         *)
(* The charger latches events as flags.  Its interrupt submits a work item *)
(* that reads and so clears them all; those that are masked are kept, the  *)
(* others are given to the callbacks.  power_init() runs in the main       *)
(* thread and decides whether the device stays on; the callback runs in    *)
(* the system work queue, where the pulse of the light runs too, and is    *)
(* what shuts the device down.                                             *)
(*                                                                         *)
(* The recorder and the sync appear as the calls they make to the light.   *)
(***************************************************************************)
EXTENDS Led

VARIABLES
  mfd,      \* struct mfd_bq2515x_data, and the flag and mask registers
  charger,  \* the supply and the state of the charge
  events,   \* power_event
  main,     \* where the main thread is
  wq,       \* where the power callback in the system work queue is
  reset,    \* the reset cause
  on,       \* power_on of power_init()
  woke,     \* history: the button was held while the device was asleep
  stale     \* history: a charge event did not reach the light

bqVars    == <<mfd, charger>>
powerVars == <<events, main, wq, reset, on, woke, stale>>
vars      == <<node, ledVars, bqVars, powerVars>>

\* The faults of the instance:
\*   i2c       a transfer to the light fails
\*   bq        a transfer to the charger fails
\*   preempt   the main thread is delayed within mfd_bq2515x_add_callback() or
\*             between power_init() and led_boot()
\*   slow      the work queue is delayed by more than 100 ms
\*   recharge  the charger starts again by itself when the charge was done
FaultKind == {"i2c", "bq", "preempt", "slow", "recharge"}

ASSUME PowerAssumption == Faults \subseteq FaultKind

\* The events that power.c asks for; the three that the charger driver asks
\* for are only logged and left out.
Event == {"wake2", "done", "pgood"}

\* Mutant: the callback does not ask for the supply.
PinMask_NoSupply(cb) == IF cb = "charger" THEN {} ELSE {"wake2", "done"}

\* gpio_init_callback()
PinMask(cb) == IF cb = "charger" THEN {} ELSE {"wake2", "done", "pgood"}

TypeOK ==
  /\ LedTypeOK
  /\ mfd \in [int_mask  : SUBSET Event,  \* data->int_mask
              mask      : SUBSET Event,  \* the mask registers
              flags     : SUBSET Event,  \* the flag registers
              pending   : SUBSET Event,  \* data->pending_flags
              callbacks : SUBSET {"charger", "power"},
              work      : BOOLEAN]       \* int_work is queued
  /\ charger \in [vin : BOOLEAN, charge : {"cc", "cv", "done"}]
  /\ events \subseteq {"booted", "wake2", "charge"}
  /\ main \in {"drivers", "charge", "unmask", "register", "decide", "wait",
               "dark", "sleep", "boot", "run", "off", "ship"}
  /\ wq \in {"idle", "hooks", "dark", "sleep"}
  /\ reset \in {"wake", "soft", "power"}
  /\ {on, woke, stale} \subseteq BOOLEAN

Up == main \notin {"off", "ship"}

\* Before the drivers run: nothing is unmasked yet.
MfdReset == [int_mask |-> Event, mask |-> Event, flags |-> {}, pending |-> {},
             callbacks |-> {}, work |-> FALSE]

Init ==
  /\ LedInit
  /\ mfd = MfdReset
  /\ charger \in [vin : BOOLEAN, charge : {"cc"}]
  /\ events = {} /\ main = "drivers" /\ wq = "idle"
  /\ reset = "power" /\ on = FALSE
  /\ woke = FALSE /\ stale = FALSE

-----------------------------------------------------------------------------
(***************************************************************************)
(* The charger and its interrupt.                                          *)
(***************************************************************************)

\* bq2515x_get_status(); the charger is never disabled by this firmware.
Status(c) ==
  IF ~c.vin THEN "discharging"
  ELSE IF c.charge = "done" THEN "full" ELSE "charging"

\* power_update_charge_status()
power_update_charge_status ==
  \/ led_battery(Status(charger)) /\ stale' = FALSE
  \/ /\ "bq" \in Faults
     /\ stale' = TRUE
     /\ UNCHANGED ledVars

\* Mutant: the mask is written before the events are taken out of it.
Unmask_Stale(m, cb) ==
  [m EXCEPT !.int_mask = @ \ PinMask(cb), !.mask = m.int_mask, !.work = TRUE]

\* The first half of mfd_bq2515x_add_callback(): if the mask cannot be
\* written, the callback is not added.
Unmask(m, cb) ==
  [m EXCEPT !.int_mask = @ \ PinMask(cb), !.mask = m.int_mask \ PinMask(cb),
            !.work = TRUE]
UnmaskFails(m, cb) == [m EXCEPT !.int_mask = @ \ PinMask(cb)]

Register(m, cb) == [m EXCEPT !.callbacks = @ \cup {cb}]

\* bq2515x_int_handler(): the level of the interrupt pin.
Interrupt ==
  /\ Up /\ main # "drivers"
  /\ mfd.flags \ mfd.mask # {} /\ ~mfd.work
  /\ mfd' = [mfd EXCEPT !.work = TRUE]
  /\ UNCHANGED <<node, ledVars, charger, powerVars>>

\* Mutant: flags that are masked when they are read are dropped.
Kept_Nothing == {}

\* The flags that are saved, and those that fire.
Kept  == (mfd.flags \cup mfd.pending) \cap mfd.int_mask
Fired == (mfd.flags \cup mfd.pending) \ mfd.int_mask

\* What reaches the handler of power.c
Delivered == IF "power" \in mfd.callbacks THEN Fired \cap PinMask("power") ELSE {}

\* bq2515x_int_work_handler() when the flags cannot be read
IntWorkFails ==
  /\ "bq" \in Faults
  /\ Up /\ wq = "idle" /\ mfd.work
  /\ mfd' = [mfd EXCEPT !.work = TRUE]
  /\ UNCHANGED <<node, ledVars, charger, powerVars>>

\* bq2515x_int_work_handler() with power_mr_wake2_handler(): a shutdown
\* does not come back for the charge events of the same call.
IntWork ==
  /\ Up /\ wq = "idle" /\ mfd.work
  /\ main \in {"register", "boot"} => "preempt" \in Faults
  /\ mfd' = [mfd EXCEPT !.flags = {}, !.pending = Kept, !.work = FALSE]
  /\ LET shutdown == "wake2" \in Delivered /\ "booted" \in events
         charged  == Delivered \cap {"done", "pgood"} # {}
     IN  /\ wq' = IF shutdown THEN "hooks" ELSE "idle"
         /\ events' = events
              \cup (IF "wake2" \in Delivered THEN {"wake2"} ELSE {})
              \cup (IF charged /\ ~shutdown THEN {"charge"} ELSE {})
         /\ IF charged /\ ~shutdown
            THEN power_update_charge_status
            ELSE /\ stale' = (stale \/ charged)
                 /\ UNCHANGED ledVars
  /\ UNCHANGED <<node, charger, main, reset, on, woke>>

-----------------------------------------------------------------------------
(***************************************************************************)
(* The main thread: the drivers, power_init(), led_boot().                 *)
(***************************************************************************)
MainGoes(from, to) == main = from /\ main' = to

\* mfd_bq2515x_init() masks all, charger_bq2525x_init() adds its callback.
\* If the chip does not answer power_init() gives up at once.
DeviceInit ==
  /\ LET m == [mfd EXCEPT !.mask = Event]
     IN  \/ MainGoes("drivers", "charge")
            /\ mfd' = Register(Unmask(m, "charger"), "charger")
         \/ "bq" \in Faults /\ MainGoes("drivers", "boot") /\ mfd' = m
  /\ UNCHANGED <<node, ledVars, charger, events, wq, reset, on, woke,
                 stale>>

InitStatus ==
  /\ MainGoes("charge", "unmask")
  /\ power_update_charge_status
  /\ UNCHANGED <<node, bqVars, events, wq, reset, on, woke>>

AddCallback ==
  /\ \/ MainGoes("unmask", "register") /\ mfd' = Unmask(mfd, "power")
     \/ /\ "bq" \in Faults
        /\ MainGoes("unmask", "boot") /\ mfd' = UnmaskFails(mfd, "power")
     \/ MainGoes("register", "decide") /\ mfd' = Register(mfd, "power")
  /\ UNCHANGED <<node, ledVars, charger, events, wq, reset, on, woke,
                 stale>>

\* The button or a software reset, and after a wake-up what the charger says.
Decide ==
  /\ main = "decide"
  /\ \E button \in BOOLEAN : on' = (button \/ reset = "soft")
  /\ main' = IF reset = "wake" THEN "wait" ELSE IF on' THEN "boot" ELSE "dark"
  /\ events' = IF main' = "boot" THEN events \cup {"booted"} ELSE events
  /\ UNCHANGED <<node, ledVars, bqVars, wq, reset, woke, stale>>

\* The 100 ms that the main thread waits are enough for the work queue.
Quiet == ~mfd.work /\ mfd.flags \ mfd.mask = {} /\ wq = "idle"
TimePasses == Quiet \/ "slow" \in Faults

\* k_event_wait() for either event, or 100 ms.
Wait ==
  /\ main = "wait"
  /\ \/ events \cap {"wake2", "charge"} # {}
     \/ TimePasses
  /\ on' = (on \/ "wake2" \in events)
  /\ main' = IF on' THEN "boot" ELSE "dark"
  /\ events' = IF on' THEN events \cup {"booted"} ELSE events
  /\ UNCHANGED <<node, ledVars, bqVars, wq, reset, woke, stale>>

\* main() goes on whether or not power_init() succeeded.
Boot ==
  /\ MainGoes("boot", "run")
  /\ led_boot
  /\ UNCHANGED <<node, bqVars, events, wq, reset, on, woke, stale>>

-----------------------------------------------------------------------------
(***************************************************************************)
(* Shutting down: power_shutdown() in the work queue, power_off() there or *)
(* in the main thread.                                                     *)
(***************************************************************************)

\* power.c of the audio node: record_shutdown().
StopsRecording == node = "audio"

ShutdownHooks ==
  /\ wq = "hooks" /\ wq' = "dark"
  /\ IF StopsRecording THEN led_record_stopped ELSE UNCHANGED ledVars
  /\ UNCHANGED <<node, bqVars, events, main, reset, on, woke, stale>>

OffLight ==
  /\ \/ MainGoes("dark", "sleep") /\ UNCHANGED wq
     \/ wq = "dark" /\ wq' = "sleep" /\ UNCHANGED main
  /\ led_shutdown
  /\ UNCHANGED <<node, bqVars, events, reset, on, woke, stale>>

\* After 100 ms: ship mode cuts the supply unless the charger has its own;
\* otherwise sys_poweroff() stops the processor, not the light.
PowerOff ==
  /\ (main = "sleep" /\ TimePasses) \/ wq = "sleep"
  /\ \/ /\ charger.vin \/ "bq" \in Faults
        /\ main' = "off" /\ UNCHANGED <<ledVars, mfd, stale>>
     \/ /\ ~charger.vin
        /\ main' = "ship" /\ LedReboot
        /\ mfd' = MfdReset /\ stale' = FALSE
  /\ wq' = "idle"
  /\ woke' = FALSE
  /\ UNCHANGED <<node, charger, events, reset, on>>

\* The processor starts: everything but the charger is as after reset.
Restart(cause) ==
  /\ main' = "drivers" /\ wq' = "idle" /\ events' = {} /\ on' = FALSE
  /\ reset' = cause
  /\ LedReboot
  /\ mfd' = [MfdReset EXCEPT !.mask = mfd.mask, !.flags = mfd.flags]
  /\ woke' = (cause = "wake" /\ "wake2" \in mfd.flags)
  /\ stale' = FALSE
  /\ UNCHANGED <<node, charger>>

Wake == main = "off" /\ mfd.flags \ mfd.mask # {} /\ Restart("wake")
LeaveShip == main = "ship" /\ Restart("power")
SoftwareReset == main = "run" /\ wq = "idle" /\ Restart("soft")

-----------------------------------------------------------------------------
(***************************************************************************)
(* The world: the button, the supply, the charge, and the threads that     *)
(* call the light.                                                         *)
(***************************************************************************)
\* The button has been held.
Hold ==
  /\ main # "ship"
  /\ mfd' = [mfd EXCEPT !.flags = @ \cup {"wake2"}]
  /\ UNCHANGED <<node, ledVars, charger, powerVars>>

Supply ==
  /\ charger' = [vin |-> ~charger.vin, charge |-> "cc"]
  /\ mfd' = IF main = "ship" THEN mfd
            ELSE [mfd EXCEPT !.flags = @ \cup {"pgood"}]
  /\ UNCHANGED <<node, ledVars, powerVars>>

Charge ==
  /\ charger.vin
  /\ \/ /\ charger.charge = "cc" /\ charger' = [charger EXCEPT !.charge = "cv"]
        /\ UNCHANGED mfd
     \/ /\ charger.charge = "cv" /\ charger' = [charger EXCEPT !.charge = "done"]
        /\ mfd' = [mfd EXCEPT !.flags = @ \cup {"done"}]
     \/ /\ "recharge" \in Faults /\ charger.charge = "done"
        /\ charger' = [charger EXCEPT !.charge = "cc"] /\ UNCHANGED mfd
  /\ UNCHANGED <<node, ledVars, powerVars>>

\* Of the central these run in the system work queue; of the audio node in
\* other threads, but not once record_shutdown() has run.
LightCalls ==
  /\ main = "run"
  /\ \/ /\ IF node = "central" THEN wq = "idle" ELSE wq \in {"idle", "hooks"}
        /\ \/ led_record_waiting \/ led_record_started
           \/ led_record_stopped \/ led_record_sync
     \/ node = "audio" /\ (led_sync_started \/ led_sync_terminated)
  /\ UNCHANGED <<node, bqVars, powerVars>>

Pulse ==
  /\ Up /\ wq = "idle"
  /\ led_record_sync_work_handler
  /\ UNCHANGED <<node, bqVars, powerVars>>

Main == DeviceInit \/ InitStatus \/ AddCallback \/ Decide \/ Wait \/ Boot

Next ==
  \/ Interrupt \/ IntWork \/ IntWorkFails \/ Main
  \/ ShutdownHooks \/ OffLight \/ PowerOff \/ Wake \/ LeaveShip \/ SoftwareReset
  \/ Hold \/ Supply \/ Charge \/ LightCalls \/ Pulse

Spec == Init /\ [][Next]_vars

\* The work queue, the main thread and the interrupt are served, and the time
\* of power_off() passes.
Fairness ==
  /\ WF_vars(Interrupt) /\ WF_vars(IntWork) /\ WF_vars(Main)
  /\ WF_vars(ShutdownHooks) /\ WF_vars(OffLight) /\ WF_vars(PowerOff)

FairSpec == Spec /\ Fairness

-----------------------------------------------------------------------------
(***************************************************************************)
(* Properties.                                                             *)
(***************************************************************************)

\* The light is that of the state, in every channel: no colour of an earlier
\* pattern or of a late pulse remains in it (led.c:576-694).
LightFollowsState ==
  \A c \in Channel : chip.shown[c] = LookOf(Script(led.pattern), c)

\* While the device sleeps on the charger the light tells the state of the
\* charge, although the processor is off (power.c:49-63): an event that came
\* meanwhile is still flagged and will wake it.
SleepingLightIsCurrent ==
  (main = "off" /\ mfd.flags \cap {"done", "pgood"} = {} /\ ~stale)
    => led.battery = Status(charger)

\* A device that was woken by its button does not switch itself off again
\* before it has started, even if the button was let go (power.c:184-190).
ButtonWakes == [][MainGoes("wait", "dark") => ~woke]_vars

\* A held button switches a started device off, whatever it is doing
\* (power.c:103-110).
ButtonSwitchesOff ==
  (main = "run" /\ "booted" \in events /\ "wake2" \in mfd.flags)
    ~> main \in {"off", "ship", "drivers"}

=============================================================================
