------------------------------- MODULE Codec -------------------------------
(***************************************************************************)
(* The audio codec: drivers/tlv320adcx120.c, and the settings of audio.c   *)
(* that are applied to it.                                                 *)
(*                                                                         *)
(* The driver caches the volume, because a muted channel has volume 0 in   *)
(* the chip, and holds the chip awake with Zephyr's runtime power          *)
(* management: each register access holds it for a moment, recording for   *)
(* longer.  Any I2C transfer may fail.  audio.c saves what was applied and *)
(* applies what was saved, one setting at a time, when the node boots.     *)
(*                                                                         *)
(* All calls hold audio_mutex, so each is one step; the suspension, which  *)
(* the work queue does later, is a step of its own.  One channel stands    *)
(* for all: they share nothing but the reset.  A value is 1 or 2 of its    *)
(* range; 0 is the volume of a muted channel, and values out of range are  *)
(* refused before anything is done.                                        *)
(***************************************************************************)
EXTENDS Integers

CONSTANT CodecFaults  \* what the instance may meet

\* The faults an instance may enable:
\*   codec_i2c   a transfer to the codec fails
\*   codec_save  settings_save_one() fails
\*   codec_put   pm_device_runtime_put_async() fails
CodecFaultKind == {"codec_i2c", "codec_save", "codec_put"}

ASSUME CodecAssumption == CodecFaults \subseteq CodecFaultKind

VARIABLES
  regs,   \* the registers of the chip, and whether it is awake
  codec,  \* struct codec_driver_data
  pm,     \* the runtime power management of the device
  saved,  \* the settings in flash
  cpu,    \* how far the node has come
  todo,   \* the settings that are still to be loaded
  cerr    \* history: a call has failed since the codec came up

codecVars == <<regs, codec, pm, saved, cpu, todo, cerr>>

CodecSetting == {"a_gain", "d_gain", "imp"}
Value        == {1, 2}
NotSaved     == 0

CodecTypeOK ==
  /\ regs \in [awake : BOOLEAN, adc : BOOLEAN, a_gain : Value, imp : Value,
               dvol : Value \cup {0}]
  /\ codec \in [dvol : Value, mute : BOOLEAN, started : BOOLEAN]
  /\ pm \in [enabled : BOOLEAN, usage : 0 .. 1, idle : BOOLEAN]
  /\ saved \in [CodecSetting -> Value \cup {NotSaved}]
  /\ cpu \in {"init", "load", "configure", "ready", "noaudio"}
  /\ todo \subseteq CodecSetting /\ cerr \in BOOLEAN

\* CODEC_DEFAULT_DVOL, and what a reset or the device tree make of the rest.
Default == 1

RegsReset == [awake |-> FALSE, adc |-> FALSE, a_gain |-> Default,
              imp |-> Default, dvol |-> Default]
PmReset == [enabled |-> FALSE, usage |-> 0, idle |-> FALSE]

CodecInit ==
  /\ regs = RegsReset
  /\ codec = [dvol |-> Default, mute |-> FALSE, started |-> FALSE]
  /\ pm = PmReset
  /\ saved = [s \in CodecSetting |-> NotSaved]
  /\ cpu = "init" /\ todo = {} /\ cerr = FALSE

I2cFails == "codec_i2c" \in CodecFaults

-----------------------------------------------------------------------------
(***************************************************************************)
(* Registers and power.  pm_device_runtime_get() wakes the chip,           *)
(* pm_device_runtime_put_async() lets the work queue suspend it later; of  *)
(* a device that did not come up neither does anything.                    *)
(***************************************************************************)
Awake(r) == [r EXCEPT !.awake = @ \/ pm.enabled]

\* codec_write_reg(): held for the write, and let go.
Released == [pm EXCEPT !.idle = pm.enabled /\ pm.usage = 0]

Writes(r) == regs' = Awake(r) /\ pm' = Released

\* What a write leaves in the chip.
codec_soft_reset(r)             == RegsReset
codec_configure_power(r, sleep) == [r EXCEPT !.awake = ~sleep]
codec_set_cfg0_analog(r, imp)   == [r EXCEPT !.imp = imp]

\* Every channel gets the impedance of the device tree.
codec_configure_input(r) == codec_set_cfg0_analog(r, Default)

WriteFails ==
  /\ I2cFails
  /\ \/ ~regs.awake /\ UNCHANGED <<regs, pm>>
     \/ regs' = Awake(regs) /\ pm' = Released

\* codec_pm_action(), SUSPEND: a chip that does not answer stays awake.
codec_pm_action ==
  /\ pm.idle /\ pm' = [pm EXCEPT !.idle = FALSE]
  /\ \/ regs' = codec_configure_power(regs, TRUE)
     \/ I2cFails /\ UNCHANGED regs
  /\ UNCHANGED <<codec, saved, cpu, todo, cerr>>

-----------------------------------------------------------------------------
(***************************************************************************)
(* The properties of a channel.                                            *)
(***************************************************************************)
codec_set_analog_gain(v) == Writes([regs EXCEPT !.a_gain = v]) /\ UNCHANGED codec
codec_set_impedance(v)   == Writes(codec_set_cfg0_analog(regs, v)) /\ UNCHANGED codec

\* Nothing is written of a volume that is there already, or of a muted channel.
codec_set_digital_gain(v) ==
  /\ codec' = [codec EXCEPT !.dvol = v]
  /\ IF v = codec.dvol \/ codec.mute
     THEN UNCHANGED <<regs, pm>>
     ELSE Writes([regs EXCEPT !.dvol = v])

\* Mutant: the volume is cached before it is written.
CachedOnFailure_First(v) == [codec EXCEPT !.dvol = v]

CachedOnFailure(v) == codec

\* codec_set_property()
SetProperty(s, v) ==
  CASE s = "a_gain" -> codec_set_analog_gain(v)
    [] s = "d_gain" -> codec_set_digital_gain(v)
    [] s = "imp"    -> codec_set_impedance(v)

SetPropertyFails(s, v) ==
  /\ WriteFails
  /\ s = "d_gain" => v # codec.dvol /\ ~codec.mute
  /\ codec' = IF s = "d_gain" THEN CachedOnFailure(v) ELSE codec

\* Nothing calls it yet but the interface has it.
codec_set_mute ==
  /\ cpu = "ready"
  /\ \E mute \in BOOLEAN :
       /\ mute # codec.mute
       /\ \/ /\ Writes([regs EXCEPT !.dvol = IF mute THEN 0 ELSE codec.dvol])
             /\ codec' = [codec EXCEPT !.mute = mute] /\ UNCHANGED cerr
          \/ WriteFails /\ cerr' = TRUE /\ UNCHANGED codec
  /\ UNCHANGED <<saved, cpu, todo>>

-----------------------------------------------------------------------------
(***************************************************************************)
(* Recording.                                                              *)
(***************************************************************************)

AfterFailedStart == Released

Running == cpu \in {"ready", "noaudio"}

codec_start_input ==
  /\ Running /\ ~codec.started
  /\ \/ /\ regs' = [Awake(regs) EXCEPT !.adc = TRUE]
        /\ pm' = [pm EXCEPT !.usage = IF pm.enabled THEN 1 ELSE 0, !.idle = FALSE]
        /\ codec' = [codec EXCEPT !.started = TRUE] /\ UNCHANGED cerr
     \/ /\ I2cFails /\ cerr' = TRUE /\ UNCHANGED codec
        /\ \/ ~regs.awake /\ UNCHANGED <<regs, pm>>
           \/ regs' = Awake(regs) /\ pm' = AfterFailedStart
  /\ UNCHANGED <<saved, cpu, todo>>

\* It stays started if the chip, or the power management, does not agree.
codec_stop_input ==
  /\ Running /\ codec.started
  /\ \/ /\ regs' = [regs EXCEPT !.adc = FALSE]
        /\ pm' = [pm EXCEPT !.usage = 0, !.idle = pm.enabled]
        /\ codec' = [codec EXCEPT !.started = FALSE] /\ UNCHANGED cerr
     \/ /\ "codec_put" \in CodecFaults
        /\ regs' = [regs EXCEPT !.adc = FALSE]
        /\ cerr' = TRUE /\ UNCHANGED <<codec, pm>>
     \/ WriteFails /\ cerr' = TRUE /\ UNCHANGED codec
  /\ UNCHANGED <<saved, cpu, todo>>

-----------------------------------------------------------------------------
(***************************************************************************)
(* Boot.                                                                   *)
(***************************************************************************)

\* The chip as far as a boot gets: reset, awake, configured.
BootSteps ==
  LET r == codec_soft_reset(regs)
      w == codec_configure_power(r, FALSE)
  IN  <<regs, r, w, codec_configure_input(w)>>

\* In the end the power management suspends the chip; a failure at any step
\* leaves the device not ready, without power management.
codec_initialize ==
  /\ cpu = "init"
  /\ \/ /\ regs' = codec_configure_power(BootSteps[4], TRUE)
        /\ codec' = [dvol |-> Default, mute |-> FALSE, started |-> FALSE]
        /\ pm' = [PmReset EXCEPT !.enabled = TRUE]
        /\ cpu' = "load" /\ todo' = {s \in CodecSetting : saved[s] # NotSaved}
     \/ /\ I2cFails
        /\ \E k \in DOMAIN BootSteps : regs' = BootSteps[k]
        /\ cpu' = "noaudio"
        /\ UNCHANGED <<codec, pm, todo>>
  /\ UNCHANGED <<saved, cerr>>

Loaded(s) == saved[s]

\* audio_settings_load_cb(): a setting that cannot be applied is skipped.
audio_settings_load_cb ==
  /\ cpu = "load"
  /\ \E s \in todo :
       /\ todo' = todo \ {s}
       /\ \/ SetProperty(s, Loaded(s)) /\ UNCHANGED cerr
          \/ SetPropertyFails(s, Loaded(s)) /\ cerr' = TRUE
  /\ UNCHANGED <<saved, cpu>>

\* The rest of audio_init(): codec_configure(), then AudioPipeline.  Without it
\* the settings are refused, but recordings are not.
CodecConfigure ==
  /\ cpu = "load" /\ todo = {}
  /\ \/ Writes(regs) /\ cpu' = "ready"
     \/ WriteFails /\ cpu' = "noaudio"
  /\ UNCHANGED <<codec, saved, todo, cerr>>

\* audio_set_analog_gain(), audio_set_digital_gain(), audio_set_impedance()
audio_set ==
  /\ cpu = "ready"
  /\ \E s \in CodecSetting, v \in Value :
       \/ /\ SetProperty(s, v)
          /\ \/ saved' = [saved EXCEPT ![s] = v] /\ UNCHANGED cerr
             \/ "codec_save" \in CodecFaults /\ cerr' = TRUE /\ UNCHANGED saved
       \/ SetPropertyFails(s, v) /\ cerr' = TRUE /\ UNCHANGED saved
  /\ UNCHANGED <<cpu, todo>>

\* The processor starts again; the chip may have lost its supply too.
CodecReboot ==
  /\ cpu # "init" /\ cpu' = "init"
  /\ regs' \in {regs, RegsReset}
  /\ codec' = [dvol |-> Default, mute |-> FALSE, started |-> FALSE]
  /\ pm' = PmReset /\ todo' = {} /\ cerr' = FALSE
  /\ UNCHANGED saved

CodecNext ==
  \/ codec_pm_action \/ codec_set_mute \/ codec_start_input \/ codec_stop_input
  \/ codec_initialize \/ audio_settings_load_cb \/ CodecConfigure \/ audio_set
  \/ CodecReboot

CodecSpec == CodecInit /\ [][CodecNext]_codecVars

-----------------------------------------------------------------------------
(***************************************************************************)
(* Properties.                                                             *)
(***************************************************************************)
CameUp == cpu \in {"load", "ready"}

\* The volume in the chip is the cached one, or 0 of a muted channel.
VolumeFollowsCache == regs.dvol = IF codec.mute THEN 0 ELSE codec.dvol

\* The chip is held as long as it records and no longer, and is then awake.
PowerBalanced ==
  /\ codec.started <=> pm.usage = 1
  /\ codec.started <=> regs.adc
  /\ codec.started => regs.awake /\ ~pm.idle

\* The chip has what the flash has, so the next boot changes nothing.
SavedIsApplied ==
  cpu = "ready" /\ ~cerr =>
    /\ saved["a_gain"] \in {NotSaved, regs.a_gain}
    /\ saved["imp"]    \in {NotSaved, regs.imp}
    /\ saved["d_gain"] \in {NotSaved, codec.dvol}

\* Once the codec has come up, the chip, the driver's cache, its hold on the
\* power and the saved settings agree, whatever calls fail in whatever order
\* (tlv320adcx120.c:449-515 and 640-694, audio.c:342-423 and 572-668).
CodecConsistent ==
  CameUp => VolumeFollowsCache /\ PowerBalanced /\ SavedIsApplied

=============================================================================
