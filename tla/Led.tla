------------------------------- MODULE Led -------------------------------
(***************************************************************************)
(* The status light: common/src/led.c on top of the LP58xx driver,         *)
(* drivers/led/lp58xx.c.                                                   *)
(*                                                                         *)
(* led.c keeps four layers of state (power, battery, sync, recording) and  *)
(* derives one pattern from them; a pattern is a script of driver calls    *)
(* that programs the animation engine of each colour and starts it.  All   *)
(* of this runs under led_mutex, so an operation is one step, but any I2C  *)
(* transfer may fail, and then a script stops half way with whatever it    *)
(* has already told the chip.                                              *)
(*                                                                         *)
(* An animation is named by what it looks like in the end; currents,       *)
(* brightness and the start of a fade are left out.  This module has the   *)
(* operations; Power composes them into a system.                          *)
(***************************************************************************)
EXTENDS Integers, Sequences

CONSTANT
  Faults  \* what may go wrong; "i2c" concerns this module

VARIABLES
  node,    \* the build: "audio" or "central" (CONFIG_ZEUS_NODE_*)
  led,     \* led_data
  chip,    \* the LP58xx: programs, modes, and what it plays
  pulse    \* led_record_sync_work is scheduled

ledVars == <<led, chip, pulse>>

Channel   == {"blue", "green", "red"}
Animation == {"dark", "steady", "breathe", "blink", "flash"}
Pattern   == {"off", "startup", "charging", "full", "synced", "not_synced",
              "central_idle", "record_waiting", "record_running"}

LedTypeOK ==
  /\ node \in {"audio", "central"}
  /\ led \in [power   : {"unknown", "on", "off"},
              battery : {"discharging", "charging", "full"},
              synced  : BOOLEAN,
              record  : {"waiting", "running", "idle"},
              pattern : Pattern]
  /\ chip \in [program : [Channel -> Animation],  \* the AE registers
               auto    : SUBSET Channel,          \* DEV_CONFIG_3
               shown   : [Channel -> Animation]]
  /\ pulse \in BOOLEAN

\* lp58xx_init(): the chip is reset, enabled and dark.
ChipReset == [program |-> [c \in Channel |-> "dark"], auto |-> {},
              shown   |-> [c \in Channel |-> "dark"]]

\* What reset leaves of led.c.
LedReset ==
  [power |-> "unknown", battery |-> "discharging", synced |-> FALSE,
   record |-> "idle", pattern |-> "off"]

LedInit ==
  /\ node \in {"audio", "central"}
  /\ led = LedReset /\ chip = ChipReset
  /\ pulse = FALSE

LedReboot ==
  /\ led' = LedReset /\ chip' = ChipReset
  /\ pulse' = FALSE

-----------------------------------------------------------------------------
(***************************************************************************)
(* The patterns: the channels that a script configures, in its order, and  *)
(* what each is to look like.                                              *)
(***************************************************************************)
Set(c, a) == [channel |-> c, look |-> a]

led_configure_fade_out(c) == Set(c, "dark")

\* A script that lights one of the three channels and fades the others out.
OneLit(lit, a) ==
  [k \in 1 .. 3 |-> LET c == <<"blue", "green", "red">>[k]
                    IN  IF c = lit THEN Set(c, a) ELSE led_configure_fade_out(c)]

led_pattern_off == OneLit("none", "dark")

\* The startup scripts run on a dark chip and leave the rest of it alone.
led_pattern_startup_audio   == <<Set("blue", "breathe")>>
led_pattern_startup_central == <<Set("red", "steady"), Set("blue", "steady")>>

led_pattern_battery_charging == OneLit("green", "breathe")
led_pattern_battery_full     == OneLit("green", "steady")
led_pattern_idle_synced      == OneLit("blue", "steady")
led_pattern_idle_not_synced  == OneLit("blue", "breathe")
led_pattern_idle ==
  <<Set("red", "steady"), led_configure_fade_out("green"), Set("blue", "steady")>>
led_pattern_record_waiting == OneLit("green", "blink")
led_pattern_record_running == OneLit("red", "flash")

\* Another flash, which fades from the one before.
led_pattern_record_sync_pulse == OneLit("red", "flash")

\* led_config.patterns of the two builds
Scripts ==
  [n \in {"audio", "central"} |-> [p \in Pattern |->
     CASE p = "off"            -> led_pattern_off
       [] p = "startup"        -> IF n = "audio" THEN led_pattern_startup_audio
                                  ELSE led_pattern_startup_central
       [] p = "charging"       -> led_pattern_battery_charging
       [] p = "full"           -> led_pattern_battery_full
       [] p = "synced"         -> led_pattern_idle_synced
       [] p = "not_synced"     -> led_pattern_idle_not_synced
       [] p = "central_idle"   -> led_pattern_idle
       [] p = "record_waiting" -> led_pattern_record_waiting
       [] p = "record_running" -> led_pattern_record_running]]

Script(p) == Scripts[node][p]

\* What a script makes of a channel; one that it leaves alone is dark.
LookOf(script, c) ==
  IF \E k \in DOMAIN script : script[k].channel = c
  THEN (CHOOSE s \in {script[k] : k \in DOMAIN script} : s.channel = c).look
  ELSE "dark"

-----------------------------------------------------------------------------
(***************************************************************************)
(* The driver.  A script pauses the chip and reads the brightness to fade  *)
(* from (the startup patterns do neither), configures its channels and     *)
(* starts the chip.  n counts the transfers that changed something: two    *)
(* for each channel, and the start.                                        *)
(***************************************************************************)
Transfers(script) == 2 * Len(script) + 1

\* Mutant: a script that leaves the channels it does not light alone.
Programmed_LitOnly(script, n) ==
  {script[k].channel : k \in {l \in DOMAIN script : script[l].look # "dark"}}

\* lp58xx_ae_configure(): first the program of the channel ...
Programmed(script, n) ==
  {script[k].channel : k \in {l \in DOMAIN script : 2 * l - 1 <= n}}

\* ... then its mode, lp58xx_update_config().
Autonomous(script, n) ==
  {script[k].channel : k \in {l \in DOMAIN script : 2 * l <= n}}

lp58xx_ae_configure(script, n) ==
  [chip EXCEPT
     !.program = [c \in Channel |->
        IF c \in Programmed(script, n) THEN LookOf(script, c) ELSE @[c]],
     !.auto = @ \cup Autonomous(script, n)]

\* lp58xx_start() plays the programs of the channels in autonomous mode; the
\* others are never given a level.
lp58xx_start(ch) ==
  [ch EXCEPT !.shown =
     [c \in Channel |-> IF c \in ch.auto THEN ch.program[c] ELSE "dark"]]

\* A script as far as it gets.
Play(script) ==
  \E n \in 0 .. Transfers(script) :
    /\ n < Transfers(script) => "i2c" \in Faults
    /\ chip' = IF n = Transfers(script)
               THEN lp58xx_start(lp58xx_ae_configure(script, n))
               ELSE lp58xx_ae_configure(script, n)

\* led_set_pattern(): a pattern that is set already is not played again, and
\* it counts as set even if its script failed.
led_set_pattern(new) ==
  /\ led' = new
  /\ IF new.pattern # led.pattern
     THEN Play(Script(new.pattern))
     ELSE UNCHANGED chip

IdlePattern(l) ==
  IF node = "central" THEN "central_idle"
  ELSE IF l.synced THEN "synced" ELSE "not_synced"

PatternOf(l) ==
  CASE l.power = "on" /\ l.record = "waiting" -> "record_waiting"
    [] l.power = "on" /\ l.record = "running" -> "record_running"
    [] l.power = "on" /\ l.record = "idle"    -> IdlePattern(l)
    [] l.power = "off" /\ l.battery = "charging" -> "charging"
    [] l.power = "off" /\ l.battery = "full"     -> "full"
    [] OTHER -> "off"

led_update(new) == led_set_pattern([new EXCEPT !.pattern = PatternOf(new)])

-----------------------------------------------------------------------------
(***************************************************************************)
(* The operations.                                                         *)
(***************************************************************************)
led_boot ==
  /\ led_set_pattern([led EXCEPT !.power = "on", !.pattern = "startup"])
  /\ UNCHANGED pulse

led_battery(b)      == led_update([led EXCEPT !.battery = b]) /\ UNCHANGED pulse
led_sync_started    == led_update([led EXCEPT !.synced = TRUE]) /\ UNCHANGED pulse
led_sync_terminated == led_update([led EXCEPT !.synced = FALSE]) /\ UNCHANGED pulse
led_record_waiting  == led_update([led EXCEPT !.record = "waiting"]) /\ UNCHANGED pulse
led_record_started  == led_update([led EXCEPT !.record = "running"]) /\ UNCHANGED pulse
led_record_stopped  == led_update([led EXCEPT !.record = "idle"]) /\ UNCHANGED pulse

led_shutdown        == led_update([led EXCEPT !.power = "off"]) /\ UNCHANGED pulse

\* led_record_sync(): the pulse is due at the next multiple of the interval.
led_record_sync ==
  /\ led.record = "running"
  /\ pulse' = TRUE
  /\ UNCHANGED <<led, chip>>

PulseDue == led.record = "running"

\* led_record_sync_work_handler(): the pulse is due only if the recording still runs.
led_record_sync_work_handler ==
  /\ pulse /\ pulse' = FALSE
  /\ UNCHANGED led
  /\ IF PulseDue THEN Play(led_pattern_record_sync_pulse) ELSE UNCHANGED chip

=============================================================================
