---------------------------- MODULE DriverProofs ----------------------------
(***************************************************************************)
(* Theorems about the boards: the settings and the power of the TLV320     *)
(* codec of the audio node, and the charger, the power decision and the    *)
(* status light of both nodes.                                             *)
(***************************************************************************)
EXTENDS Codec, Power, TLAPS

-----------------------------------------------------------------------------
(***************************************************************************)
(* Codec: what the settings, the driver's cached volume, the chip and      *)
(* the flash say agrees, and the device is powered for exactly who uses    *)
(* it, for any transfer that fails and any order of the shell, the         *)
(* settings and the recordings, as long as pm_device_runtime_put_async()   *)
(* does not fail.                                                          *)
(***************************************************************************)

\* Whatever is done with a register, the device that has power management is
\* awake, and a write lets it go unless a recording holds it.
CodecRegType ==
  [awake : BOOLEAN, adc : BOOLEAN, a_gain : Value, imp : Value, dvol : Value \cup {0}]
CodecPmType == [enabled : BOOLEAN, usage : 0 .. 1, idle : BOOLEAN]

\* What a setting has become in the chip, or in the driver for a muted channel.
Applied(s) ==
  CASE s = "a_gain" -> regs.a_gain
    [] s = "d_gain" -> codec.dvol
    [] s = "imp"    -> regs.imp

\* While the settings are loaded, those that are done agree with the flash.
LoadedIsApplied ==
  \A s \in CodecSetting \ todo : saved[s] \in {NotSaved, Applied(s)}

\* CodecConsistent also while the settings are loaded, and the device that came
\* up has its power management.
CodecInv ==
  /\ CodecTypeOK
  /\ CameUp => pm.enabled /\ VolumeFollowsCache /\ PowerBalanced
  /\ CameUp /\ ~cerr => LoadedIsApplied
  /\ cpu = "ready" => todo = {}
  /\ \A s \in todo : saved[s] # NotSaved

\* The codec keeps count of who holds it: pm_device_runtime_put_async() does
\* not fail (nothing in codec_stop_input() is undone if it does).
CountKept == "codec_put" \notin CodecFaults

\* Waking the chip changes nothing else of it.
LEMMA AwakeEffect ==
  ASSUME NEW r \in CodecRegType, pm.enabled \in BOOLEAN
  PROVE  /\ Awake(r) \in CodecRegType
         /\ pm.enabled => Awake(r).awake = TRUE
         /\ Awake(r).adc = r.adc /\ Awake(r).a_gain = r.a_gain
         /\ Awake(r).imp = r.imp /\ Awake(r).dvol = r.dvol
<1>1. r.awake \in BOOLEAN /\ (r.awake \/ pm.enabled) \in BOOLEAN
  BY DEF CodecRegType
<1>2. Awake(r) = [r EXCEPT !.awake = r.awake \/ pm.enabled]
  BY DEF Awake
<1>3. Awake(r) \in CodecRegType
  BY <1>1, <1>2 DEF CodecRegType
<1>4. pm.enabled => Awake(r).awake = TRUE
  BY <1>1, <1>2 DEF CodecRegType
<1>5. /\ Awake(r).adc = r.adc /\ Awake(r).a_gain = r.a_gain
      /\ Awake(r).imp = r.imp /\ Awake(r).dvol = r.dvol
  BY <1>2 DEF CodecRegType
<1>6. QED
  BY <1>3, <1>4, <1>5

\* Letting the chip go after a write leaves the count of its holders.
LEMMA ReleasedEffect ==
  ASSUME pm \in CodecPmType
  PROVE  /\ Released \in CodecPmType
         /\ Released.enabled = pm.enabled /\ Released.usage = pm.usage
         /\ pm.usage = 1 => Released.idle = FALSE
<1>1. (pm.enabled /\ pm.usage = 0) \in BOOLEAN
  OBVIOUS
<1>2. Released = [pm EXCEPT !.idle = (pm.enabled /\ pm.usage = 0)]
  BY DEF Released
<1>3. Released \in CodecPmType
  BY <1>1, <1>2 DEF CodecPmType
<1>4. Released.enabled = pm.enabled /\ Released.usage = pm.usage
  BY <1>2 DEF CodecPmType
<1>5. ASSUME pm.usage = 1 PROVE Released.idle = FALSE
  <2>1. (pm.enabled /\ pm.usage = 0) = FALSE
    BY <1>5
  <2>2. Released = [pm EXCEPT !.idle = FALSE]
    BY <1>2, <2>1
  <2>3. QED
    BY <2>2 DEF CodecPmType
<1>6. QED
  BY <1>3, <1>4, <1>5

LEMMA CodecRegTypes ==
  ASSUME CodecTypeOK
  PROVE  /\ regs \in CodecRegType /\ pm \in CodecPmType /\ pm.enabled \in BOOLEAN
         /\ saved \in [CodecSetting -> Value \cup {NotSaved}]
         /\ codec \in [dvol : Value, mute : BOOLEAN, started : BOOLEAN]
         /\ Default \in Value
<1>1. regs \in CodecRegType /\ pm \in CodecPmType
  BY DEF CodecTypeOK, CodecRegType, CodecPmType
<1>2. pm.enabled \in BOOLEAN
  BY <1>1 DEF CodecPmType
<1>3. QED
  BY <1>1, <1>2 DEF CodecTypeOK, Default, Value

LEMMA CodecInvInit == CodecInit => CodecInv
<1> SUFFICES ASSUME CodecInit PROVE CodecInv
  OBVIOUS
<1>1. /\ RegsReset \in CodecRegType /\ PmReset \in CodecPmType
      /\ RegsReset.dvol = Default /\ RegsReset.adc = FALSE
  BY DEF RegsReset, PmReset, Default, Value, CodecRegType, CodecPmType
<1>2. CodecTypeOK
  BY <1>1 DEF CodecInit, CodecTypeOK, CodecRegType, CodecPmType, Default, Value
<1>3. QED
  BY <1>2 DEF CodecInit, CodecInv, CameUp

\* A register access: the chip is awake, and is let go of.
CodecAccess(r) == regs' = Awake(r) /\ pm' = Released

LEMMA AccessEffect ==
  ASSUME CodecTypeOK, PowerBalanced, pm.enabled, NEW r \in CodecRegType,
         r.adc = regs.adc, CodecAccess(r), codec'.started = codec.started
  PROVE  /\ regs' \in CodecRegType /\ pm' \in CodecPmType /\ pm'.enabled
         /\ regs'.a_gain = r.a_gain /\ regs'.imp = r.imp /\ regs'.dvol = r.dvol
         /\ PowerBalanced'
<1>1. /\ regs' \in CodecRegType /\ regs'.awake = TRUE /\ regs'.adc = r.adc
      /\ regs'.a_gain = r.a_gain /\ regs'.imp = r.imp /\ regs'.dvol = r.dvol
  BY AwakeEffect, CodecRegTypes DEF CodecAccess
<1>2. /\ pm' \in CodecPmType /\ pm'.enabled = pm.enabled /\ pm'.usage = pm.usage
      /\ pm.usage = 1 => pm'.idle = FALSE
  BY ReleasedEffect, CodecRegTypes DEF CodecAccess
<1>3. PowerBalanced'
  <2>1. codec'.started <=> pm'.usage = 1
    BY <1>2 DEF PowerBalanced
  <2>2. codec'.started <=> regs'.adc
    BY <1>1 DEF PowerBalanced
  <2>3. codec'.started => regs'.awake /\ ~pm'.idle
    BY <1>1, <1>2 DEF PowerBalanced
  <2>4. QED
    BY <2>1, <2>2, <2>3 DEF PowerBalanced
<1>4. QED
  BY <1>1, <1>2, <1>3

\* What a recording needs, when nothing is written.
LEMMA NoAccess ==
  ASSUME CodecTypeOK, PowerBalanced, pm.enabled, UNCHANGED <<regs, pm>>,
         codec'.started = codec.started
  PROVE  /\ regs' \in CodecRegType /\ pm' \in CodecPmType /\ pm'.enabled
         /\ PowerBalanced'
BY CodecRegTypes DEF PowerBalanced

LEMMA FailedAccess ==
  ASSUME CodecTypeOK, PowerBalanced, pm.enabled, WriteFails,
         codec'.started = codec.started
  PROVE  /\ regs' \in CodecRegType /\ pm' \in CodecPmType /\ pm'.enabled
         /\ regs'.a_gain = regs.a_gain /\ regs'.imp = regs.imp /\ regs'.dvol = regs.dvol
         /\ PowerBalanced'
<1>1. CASE UNCHANGED <<regs, pm>>
  BY <1>1, NoAccess
<1>2. CASE CodecAccess(regs)
  BY <1>2, AccessEffect, CodecRegTypes
<1>3. QED
  BY <1>1, <1>2 DEF WriteFails, CodecAccess

CodecDataType == [dvol : Value, mute : BOOLEAN, started : BOOLEAN]

\* A setting that is applied, or is not, leaves the rest alone.
PropertyKept(s) ==
  /\ regs' \in CodecRegType /\ pm' \in CodecPmType /\ codec' \in CodecDataType
  /\ pm'.enabled /\ VolumeFollowsCache' /\ PowerBalanced'
  /\ \A t \in CodecSetting \ {s} : Applied(t)' = Applied(t)

LEMMA AnalogGainKeeps ==
  ASSUME CodecTypeOK, pm.enabled, VolumeFollowsCache, PowerBalanced,
         NEW v \in Value, codec_set_analog_gain(v)
  PROVE  PropertyKept("a_gain") /\ regs'.a_gain = v
<1>1. regs \in CodecRegType /\ codec' = codec /\ codec \in CodecDataType
  BY CodecRegTypes DEF codec_set_analog_gain, CodecDataType
<1>2. PICK r \in CodecRegType :
        r.a_gain = v /\ r.imp = regs.imp /\ r.dvol = regs.dvol /\ r.adc = regs.adc
        /\ CodecAccess(r)
  <2>1. [regs EXCEPT !.a_gain = v] \in CodecRegType
    BY <1>1 DEF CodecRegType
  <2>2. CodecAccess([regs EXCEPT !.a_gain = v])
    BY DEF codec_set_analog_gain, Writes, CodecAccess
  <2>3. QED
    BY <1>1, <2>1, <2>2 DEF CodecRegType
<1>3. /\ regs' \in CodecRegType /\ pm' \in CodecPmType /\ pm'.enabled
      /\ regs'.a_gain = v /\ regs'.imp = regs.imp /\ regs'.dvol = regs.dvol
      /\ PowerBalanced'
  BY <1>1, <1>2, AccessEffect
<1>4. VolumeFollowsCache'
  BY <1>1, <1>3 DEF VolumeFollowsCache
<1>5. \A t \in CodecSetting \ {"a_gain"} : Applied(t)' = Applied(t)
  BY <1>1, <1>3 DEF CodecSetting, Applied
<1>6. QED
  BY <1>1, <1>3, <1>4, <1>5 DEF PropertyKept

LEMMA ImpedanceKeeps ==
  ASSUME CodecTypeOK, pm.enabled, VolumeFollowsCache, PowerBalanced,
         NEW v \in Value, codec_set_impedance(v)
  PROVE  PropertyKept("imp") /\ regs'.imp = v
<1>1. regs \in CodecRegType /\ codec' = codec /\ codec \in CodecDataType
  BY CodecRegTypes DEF codec_set_impedance, CodecDataType
<1>2. PICK r \in CodecRegType :
        r.imp = v /\ r.a_gain = regs.a_gain /\ r.dvol = regs.dvol /\ r.adc = regs.adc
        /\ CodecAccess(r)
  <2>1. [regs EXCEPT !.imp = v] \in CodecRegType
    BY <1>1 DEF CodecRegType
  <2>2. CodecAccess([regs EXCEPT !.imp = v])
    BY DEF codec_set_impedance, codec_set_cfg0_analog, Writes, CodecAccess
  <2>3. QED
    BY <1>1, <2>1, <2>2 DEF CodecRegType
<1>3. /\ regs' \in CodecRegType /\ pm' \in CodecPmType /\ pm'.enabled
      /\ regs'.imp = v /\ regs'.a_gain = regs.a_gain /\ regs'.dvol = regs.dvol
      /\ PowerBalanced'
  BY <1>1, <1>2, AccessEffect
<1>4. VolumeFollowsCache'
  BY <1>1, <1>3 DEF VolumeFollowsCache
<1>5. \A t \in CodecSetting \ {"imp"} : Applied(t)' = Applied(t)
  BY <1>1, <1>3 DEF CodecSetting, Applied
<1>6. QED
  BY <1>1, <1>3, <1>4, <1>5 DEF PropertyKept

\* A volume that is there already, or is that of a muted channel, is only kept.
LEMMA DigitalGainKeeps ==
  ASSUME CodecTypeOK, pm.enabled, VolumeFollowsCache, PowerBalanced,
         NEW v \in Value, codec_set_digital_gain(v)
  PROVE  PropertyKept("d_gain") /\ codec'.dvol = v
<1>1. regs \in CodecRegType /\ codec \in CodecDataType
  BY CodecRegTypes DEF CodecDataType
<1>2. /\ codec' \in CodecDataType /\ codec'.dvol = v
      /\ codec'.mute = codec.mute /\ codec'.started = codec.started
  BY <1>1 DEF codec_set_digital_gain, CodecDataType
<1>3. CASE v = codec.dvol \/ codec.mute
  <2>1. UNCHANGED <<regs, pm>>
    BY <1>3 DEF codec_set_digital_gain
  <2>2. /\ regs' \in CodecRegType /\ pm' \in CodecPmType /\ pm'.enabled
        /\ PowerBalanced'
    BY <1>2, <2>1, NoAccess
  <2>3. VolumeFollowsCache'
    BY <1>2, <1>3, <2>1 DEF VolumeFollowsCache
  <2>4. \A t \in CodecSetting \ {"d_gain"} : Applied(t)' = Applied(t)
    BY <2>1 DEF CodecSetting, Applied
  <2>5. QED
    BY <1>2, <2>2, <2>3, <2>4 DEF PropertyKept
<1>4. CASE ~(v = codec.dvol \/ codec.mute)
  <2>1. PICK r \in CodecRegType :
          r.dvol = v /\ r.a_gain = regs.a_gain /\ r.imp = regs.imp /\ r.adc = regs.adc
          /\ CodecAccess(r)
    <3>1. [regs EXCEPT !.dvol = v] \in CodecRegType
      BY <1>1 DEF CodecRegType
    <3>2. CodecAccess([regs EXCEPT !.dvol = v])
      BY <1>4 DEF codec_set_digital_gain, Writes, CodecAccess
    <3>3. QED
      BY <1>1, <3>1, <3>2 DEF CodecRegType
  <2>2. /\ regs' \in CodecRegType /\ pm' \in CodecPmType /\ pm'.enabled
        /\ regs'.dvol = v /\ regs'.a_gain = regs.a_gain /\ regs'.imp = regs.imp
        /\ PowerBalanced'
    BY <1>2, <2>1, AccessEffect
  <2>3. VolumeFollowsCache'
    BY <1>2, <1>4, <2>2 DEF VolumeFollowsCache
  <2>4. \A t \in CodecSetting \ {"d_gain"} : Applied(t)' = Applied(t)
    BY <2>2 DEF CodecSetting, Applied
  <2>5. QED
    BY <1>2, <2>2, <2>3, <2>4 DEF PropertyKept
<1>5. QED
  BY <1>3, <1>4

LEMMA PropertyApplied ==
  ASSUME CodecTypeOK, pm.enabled, VolumeFollowsCache, PowerBalanced,
         NEW s \in CodecSetting, NEW v \in Value, SetProperty(s, v)
  PROVE  PropertyKept(s) /\ Applied(s)' = v
<1>1. CASE s = "a_gain"
  BY <1>1, AnalogGainKeeps DEF SetProperty, Applied
<1>2. CASE s = "d_gain"
  BY <1>2, DigitalGainKeeps DEF SetProperty, Applied
<1>3. CASE s = "imp"
  BY <1>3, ImpedanceKeeps DEF SetProperty, Applied
<1>4. QED
  BY <1>1, <1>2, <1>3 DEF CodecSetting

LEMMA PropertyRefused ==
  ASSUME CodecTypeOK, pm.enabled, VolumeFollowsCache, PowerBalanced,
         NEW s \in CodecSetting, NEW v \in Value, SetPropertyFails(s, v)
  PROVE  PropertyKept(s)
<1>1. codec' = codec /\ codec \in CodecDataType /\ WriteFails
  BY CodecRegTypes DEF SetPropertyFails, CachedOnFailure, CodecDataType
<1>2. /\ regs' \in CodecRegType /\ pm' \in CodecPmType /\ pm'.enabled
      /\ regs'.a_gain = regs.a_gain /\ regs'.imp = regs.imp /\ regs'.dvol = regs.dvol
      /\ PowerBalanced'
  BY <1>1, FailedAccess
<1>3. VolumeFollowsCache'
  BY <1>1, <1>2 DEF VolumeFollowsCache
<1>4. \A t \in CodecSetting \ {s} : Applied(t)' = Applied(t)
  BY <1>1, <1>2 DEF CodecSetting, Applied
<1>5. QED
  BY <1>1, <1>2, <1>3, <1>4 DEF PropertyKept

\* What the steps have to show of the types.
LEMMA CodecTypesNext ==
  ASSUME regs' \in CodecRegType, pm' \in CodecPmType, codec' \in CodecDataType,
         saved' \in [CodecSetting -> Value \cup {NotSaved}],
         cpu' \in {"init", "load", "configure", "ready", "noaudio"},
         todo' \subseteq CodecSetting, cerr' \in BOOLEAN
  PROVE  CodecTypeOK'
BY DEF CodecTypeOK, CodecRegType, CodecPmType, CodecDataType

\* The work queue suspends a chip that nothing holds.
LEMMA PmActionKeeps ==
  ASSUME CodecInv, codec_pm_action
  PROVE  CodecInv'
<1>1. /\ regs \in CodecRegType /\ pm \in CodecPmType /\ CodecTypeOK
  BY CodecRegTypes DEF CodecInv
<1>2. /\ pm' \in CodecPmType /\ pm'.idle = FALSE /\ pm'.usage = pm.usage
      /\ pm.enabled => pm'.enabled
  BY <1>1 DEF codec_pm_action, CodecPmType
<1>3. /\ regs' \in CodecRegType /\ regs'.adc = regs.adc /\ regs'.dvol = regs.dvol
      /\ regs'.a_gain = regs.a_gain /\ regs'.imp = regs.imp
  BY <1>1 DEF codec_pm_action, codec_configure_power, CodecRegType
<1>4. pm.idle /\ UNCHANGED <<codec, saved, cpu, todo, cerr>>
  BY DEF codec_pm_action
<1>5. CodecTypeOK'
  BY <1>1, <1>2, <1>3, <1>4, CodecTypesNext DEF CodecTypeOK, CodecDataType
<1>6. CameUp => VolumeFollowsCache' /\ PowerBalanced'
  <2> SUFFICES ASSUME CameUp PROVE VolumeFollowsCache' /\ PowerBalanced'
    OBVIOUS
  <2>1. VolumeFollowsCache'
    BY <1>3, <1>4 DEF CodecInv, VolumeFollowsCache
  <2>2. ~codec.started
    BY <1>4 DEF CodecInv, PowerBalanced
  <2>3. PowerBalanced'
    BY <1>2, <1>3, <1>4, <2>2 DEF CodecInv, PowerBalanced
  <2>4. QED
    BY <2>1, <2>3
<1>7. QED
  BY <1>2, <1>3, <1>4, <1>5, <1>6 DEF CodecInv, CameUp, LoadedIsApplied, Applied

\* A step that neither writes a setting nor loads one.
LEMMA SettingsKept ==
  ASSUME CodecInv, regs' \in CodecRegType, pm' \in CodecPmType,
         codec' \in CodecDataType, cerr' \in BOOLEAN,
         CameUp => pm'.enabled /\ VolumeFollowsCache' /\ PowerBalanced',
         CameUp => /\ regs'.a_gain = regs.a_gain /\ regs'.imp = regs.imp
                   /\ codec'.dvol = codec.dvol,
         UNCHANGED <<saved, cpu, todo>>, cerr => cerr'
  PROVE  CodecInv'
<1>1. CodecTypeOK'
  BY CodecTypesNext DEF CodecInv, CodecTypeOK
<1>2. CameUp' <=> CameUp
  BY DEF CameUp
<1>3. CameUp /\ ~cerr' => LoadedIsApplied'
  BY DEF CodecInv, CodecTypeOK, LoadedIsApplied, Applied
<1>4. QED
  BY <1>1, <1>2, <1>3 DEF CodecInv

\* Muting writes 0 into the chip and keeps the volume for later.
LEMMA MuteKeeps ==
  ASSUME CodecInv, codec_set_mute
  PROVE  CodecInv'
<1>1. PICK mute \in BOOLEAN :
        \/ /\ Writes([regs EXCEPT !.dvol = IF mute THEN 0 ELSE codec.dvol])
           /\ codec' = [codec EXCEPT !.mute = mute] /\ UNCHANGED cerr
        \/ WriteFails /\ cerr' = TRUE /\ UNCHANGED codec
  BY DEF codec_set_mute
<1>2. /\ CameUp /\ UNCHANGED <<saved, cpu, todo>> /\ CodecTypeOK /\ cerr \in BOOLEAN
      /\ pm.enabled /\ VolumeFollowsCache /\ PowerBalanced
  BY DEF codec_set_mute, CameUp, CodecInv, CodecTypeOK
<1>3. regs \in CodecRegType /\ codec \in CodecDataType
  BY <1>2, CodecRegTypes DEF CodecDataType
<1>4. CASE WriteFails /\ cerr' = TRUE /\ UNCHANGED codec
  <2>1. /\ regs' \in CodecRegType /\ pm' \in CodecPmType /\ pm'.enabled
        /\ regs'.a_gain = regs.a_gain /\ regs'.imp = regs.imp /\ regs'.dvol = regs.dvol
        /\ PowerBalanced'
    BY <1>2, <1>4, FailedAccess
  <2>2. VolumeFollowsCache'
    BY <1>2, <1>4, <2>1 DEF VolumeFollowsCache
  <2>3. QED
    BY <1>2, <1>3, <1>4, <2>1, <2>2, SettingsKept
<1>5. CASE /\ Writes([regs EXCEPT !.dvol = IF mute THEN 0 ELSE codec.dvol])
           /\ codec' = [codec EXCEPT !.mute = mute] /\ UNCHANGED cerr
  <2>1. PICK vol \in Value \cup {0} : vol = IF mute THEN 0 ELSE codec.dvol
    BY <1>3 DEF CodecDataType
  <2>2. PICK r \in CodecRegType :
          r.dvol = vol /\ r.a_gain = regs.a_gain /\ r.imp = regs.imp /\ r.adc = regs.adc
          /\ CodecAccess(r)
    <3>1. [regs EXCEPT !.dvol = vol] \in CodecRegType
      BY <1>3 DEF CodecRegType
    <3>2. CodecAccess([regs EXCEPT !.dvol = vol])
      BY <1>5, <2>1 DEF Writes, CodecAccess
    <3>3. QED
      BY <1>3, <3>1, <3>2 DEF CodecRegType
  <2>3. /\ codec' \in CodecDataType /\ codec'.mute = mute
        /\ codec'.dvol = codec.dvol /\ codec'.started = codec.started
    BY <1>3, <1>5 DEF CodecDataType
  <2>4. /\ regs' \in CodecRegType /\ pm' \in CodecPmType /\ pm'.enabled
        /\ regs'.dvol = vol /\ regs'.a_gain = regs.a_gain /\ regs'.imp = regs.imp
        /\ PowerBalanced'
    BY <1>2, <2>2, <2>3, AccessEffect
  <2>5. VolumeFollowsCache'
    BY <2>1, <2>3, <2>4 DEF VolumeFollowsCache
  <2>6. QED
    BY <1>2, <1>5, <2>3, <2>4, <2>5, SettingsKept
<1>6. QED
  BY <1>1, <1>4, <1>5

\* Turning the converters on or off leaves the other registers.
LEMMA AdcEffect ==
  ASSUME NEW r \in CodecRegType, NEW adc \in BOOLEAN
  PROVE  LET n == [r EXCEPT !.adc = adc]
         IN  /\ n \in CodecRegType /\ n.adc = adc /\ n.awake = r.awake
             /\ n.a_gain = r.a_gain /\ n.imp = r.imp /\ n.dvol = r.dvol
<1>1. [r EXCEPT !.adc = adc] \in CodecRegType
  BY DEF CodecRegType
<1>2. [r EXCEPT !.adc = adc].adc = adc
  BY DEF CodecRegType
<1>3. QED
  BY <1>1, <1>2 DEF CodecRegType

\* A recording that begins holds the chip awake, or does not begin.
LEMMA StartKeeps ==
  ASSUME CodecInv, codec_start_input
  PROVE  CodecInv'
<1>1. /\ ~codec.started /\ UNCHANGED <<saved, cpu, todo>> /\ CodecTypeOK
      /\ cerr \in BOOLEAN
  BY DEF codec_start_input, CodecInv, CodecTypeOK
<1>2. regs \in CodecRegType /\ codec \in CodecDataType /\ pm \in CodecPmType
  BY <1>1, CodecRegTypes DEF CodecDataType
<1>3. CASE /\ regs' = [Awake(regs) EXCEPT !.adc = TRUE]
           /\ pm' = [pm EXCEPT !.usage = IF pm.enabled THEN 1 ELSE 0, !.idle = FALSE]
           /\ codec' = [codec EXCEPT !.started = TRUE] /\ UNCHANGED cerr
  <2>1. PICK r \in CodecRegType :
          /\ r = Awake(regs) /\ r.a_gain = regs.a_gain /\ r.imp = regs.imp
          /\ r.dvol = regs.dvol /\ (pm.enabled => r.awake = TRUE)
    BY <1>1, <1>2, AwakeEffect, CodecRegTypes
  <2>2. /\ regs' \in CodecRegType /\ regs'.adc = TRUE /\ regs'.awake = r.awake
        /\ regs'.a_gain = regs.a_gain /\ regs'.imp = regs.imp /\ regs'.dvol = regs.dvol
    <3>1. regs' = [r EXCEPT !.adc = TRUE]
      BY <1>3, <2>1
    <3>2. QED
      BY <2>1, <3>1, AdcEffect
  <2>3. PICK use \in 0 .. 1 : use = IF pm.enabled THEN 1 ELSE 0
    OBVIOUS
  <2>4. /\ pm' \in CodecPmType /\ pm'.usage = use /\ pm'.idle = FALSE
        /\ pm'.enabled = pm.enabled
    BY <1>2, <1>3, <2>3 DEF CodecPmType
  <2>5. /\ codec' \in CodecDataType /\ codec'.started = TRUE
        /\ codec'.mute = codec.mute /\ codec'.dvol = codec.dvol
    BY <1>2, <1>3 DEF CodecDataType
  <2>6. pm.enabled => PowerBalanced'
    BY <2>1, <2>2, <2>3, <2>4, <2>5 DEF PowerBalanced
  <2>7. CameUp => VolumeFollowsCache'
    BY <2>2, <2>5 DEF CodecInv, VolumeFollowsCache
  <2>8. QED
    BY <1>1, <1>3, <2>2, <2>4, <2>5, <2>6, <2>7, SettingsKept DEF CodecInv
<1>4. CASE /\ cerr' = TRUE /\ UNCHANGED codec
           /\ \/ UNCHANGED <<regs, pm>>
              \/ CodecAccess(regs)
  <2>1. CameUp => pm'.enabled /\ PowerBalanced'
    BY <1>1, <1>2, <1>4, NoAccess, AccessEffect DEF CodecInv
  <2>2. /\ regs' \in CodecRegType /\ regs'.dvol = regs.dvol
        /\ regs'.a_gain = regs.a_gain /\ regs'.imp = regs.imp
    BY <1>1, <1>2, <1>4, AwakeEffect, CodecRegTypes DEF CodecAccess
  <2>3. pm' \in CodecPmType
    BY <1>2, <1>4, ReleasedEffect DEF CodecAccess
  <2>4. CameUp => VolumeFollowsCache'
    BY <1>4, <2>2 DEF CodecInv, VolumeFollowsCache
  <2>5. QED
    BY <1>1, <1>2, <1>4, <2>1, <2>2, <2>3, <2>4, SettingsKept
<1>5. QED
  BY <1>3, <1>4 DEF codec_start_input, AfterFailedStart, CodecAccess

\* One that ends lets it go, unless the chip does not answer.
LEMMA StopKeeps ==
  ASSUME CountKept, CodecInv, codec_stop_input
  PROVE  CodecInv'
<1>1. /\ codec.started /\ UNCHANGED <<saved, cpu, todo>> /\ CodecTypeOK
      /\ cerr \in BOOLEAN
  BY DEF codec_stop_input, CodecInv, CodecTypeOK
<1>2. regs \in CodecRegType /\ codec \in CodecDataType /\ pm \in CodecPmType
  BY <1>1, CodecRegTypes DEF CodecDataType
<1>3. CASE /\ regs' = [regs EXCEPT !.adc = FALSE]
           /\ pm' = [pm EXCEPT !.usage = 0, !.idle = pm.enabled]
           /\ codec' = [codec EXCEPT !.started = FALSE] /\ UNCHANGED cerr
  <2>1. /\ regs' \in CodecRegType /\ regs'.adc = FALSE
        /\ regs'.a_gain = regs.a_gain /\ regs'.imp = regs.imp /\ regs'.dvol = regs.dvol
    BY <1>2, <1>3, AdcEffect
  <2>2. /\ pm' \in CodecPmType /\ pm'.usage = 0 /\ pm'.enabled = pm.enabled
    <3>1. PICK e \in BOOLEAN : e = pm.enabled
      BY <1>1, CodecRegTypes
    <3>2. pm' = [enabled |-> pm.enabled, usage |-> 0, idle |-> e]
      BY <1>2, <1>3, <3>1 DEF CodecPmType
    <3>3. QED
      BY <3>1, <3>2 DEF CodecPmType
  <2>3. /\ codec' \in CodecDataType /\ codec'.started = FALSE
        /\ codec'.mute = codec.mute /\ codec'.dvol = codec.dvol
    BY <1>2, <1>3 DEF CodecDataType
  <2>4. PowerBalanced'
    BY <2>1, <2>2, <2>3 DEF PowerBalanced
  <2>5. CameUp => VolumeFollowsCache'
    BY <2>1, <2>3 DEF CodecInv, VolumeFollowsCache
  <2>6. QED
    BY <1>1, <1>3, <2>1, <2>2, <2>3, <2>4, <2>5, SettingsKept DEF CodecInv
<1>4. CASE WriteFails /\ cerr' = TRUE /\ UNCHANGED codec
  <2>1. CameUp => pm'.enabled /\ PowerBalanced'
    BY <1>1, <1>4, FailedAccess DEF CodecInv
  <2>2. /\ regs' \in CodecRegType /\ regs'.dvol = regs.dvol
        /\ regs'.a_gain = regs.a_gain /\ regs'.imp = regs.imp
    BY <1>1, <1>2, <1>4, AwakeEffect, CodecRegTypes DEF WriteFails
  <2>3. pm' \in CodecPmType
    BY <1>2, <1>4, ReleasedEffect DEF WriteFails
  <2>4. CameUp => VolumeFollowsCache'
    BY <1>4, <2>2 DEF CodecInv, VolumeFollowsCache
  <2>5. QED
    BY <1>1, <1>2, <1>4, <2>1, <2>2, <2>3, <2>4, SettingsKept
<1>5. QED
  BY <1>3, <1>4 DEF codec_stop_input, CountKept

\* A boot leaves the chip reset, configured and asleep, or the device not ready.
LEMMA InitializeKeeps ==
  ASSUME CodecInv, codec_initialize
  PROVE  CodecInv'
<1>1. /\ CodecTypeOK /\ UNCHANGED <<saved, cerr>> /\ cerr \in BOOLEAN
      /\ saved \in [CodecSetting -> Value \cup {NotSaved}] /\ todo \subseteq CodecSetting
      /\ pm \in CodecPmType /\ codec \in CodecDataType
  BY CodecRegTypes DEF codec_initialize, CodecInv, CodecTypeOK, CodecDataType
<1>2. /\ RegsReset \in CodecRegType /\ RegsReset.dvol = Default /\ RegsReset.adc = FALSE
  BY DEF RegsReset, Default, Value, CodecRegType
<1>3. ASSUME NEW r \in CodecRegType, NEW sleep \in BOOLEAN
      PROVE  /\ codec_configure_power(r, sleep) \in CodecRegType
             /\ codec_configure_power(r, sleep).dvol = r.dvol
             /\ codec_configure_power(r, sleep).adc = r.adc
  BY DEF codec_configure_power, CodecRegType
<1>4. ASSUME NEW r \in CodecRegType
      PROVE  /\ codec_configure_input(r) \in CodecRegType
             /\ codec_configure_input(r).dvol = r.dvol
             /\ codec_configure_input(r).adc = r.adc
  BY DEF codec_configure_input, codec_set_cfg0_analog, CodecRegType, Default, Value
<1>5. PICK r \in CodecRegType, w \in CodecRegType, i \in CodecRegType :
        /\ BootSteps = <<regs, r, w, i>> /\ i.dvol = Default /\ i.adc = FALSE
  <2>1. PICK r \in CodecRegType : r = RegsReset
    BY <1>2
  <2>2. PICK w \in CodecRegType :
          w = codec_configure_power(r, FALSE) /\ w.dvol = r.dvol /\ w.adc = r.adc
    BY <1>3
  <2>3. PICK i \in CodecRegType :
          i = codec_configure_input(w) /\ i.dvol = w.dvol /\ i.adc = w.adc
    BY <1>4
  <2>4. BootSteps = <<regs, r, w, i>>
    BY <2>1, <2>2, <2>3 DEF BootSteps, codec_soft_reset
  <2>5. QED
    BY <1>2, <2>1, <2>2, <2>3, <2>4
<1>6. CASE /\ regs' = codec_configure_power(BootSteps[4], TRUE)
           /\ codec' = [dvol |-> Default, mute |-> FALSE, started |-> FALSE]
           /\ pm' = [PmReset EXCEPT !.enabled = TRUE]
           /\ cpu' = "load" /\ todo' = {s \in CodecSetting : saved[s] # NotSaved}
  <2>1. regs' \in CodecRegType /\ regs'.dvol = Default /\ regs'.adc = FALSE
    <3>1. BootSteps[4] = i
      BY <1>5
    <3>2. regs' = codec_configure_power(i, TRUE)
      BY <1>6, <3>1
    <3>3. QED
      BY <1>3, <1>5, <3>2
  <2>2. pm' \in CodecPmType /\ pm'.enabled = TRUE /\ pm'.usage = 0
    <3>1. pm' = [enabled |-> TRUE, usage |-> 0, idle |-> FALSE]
      BY <1>6 DEF PmReset
    <3>2. QED
      BY <3>1 DEF CodecPmType
  <2>3. /\ codec' \in CodecDataType /\ codec'.mute = FALSE /\ codec'.dvol = Default
        /\ codec'.started = FALSE
    BY <1>6 DEF CodecDataType, Default, Value
  <2>4. CodecTypeOK'
    BY <1>1, <1>6, <2>1, <2>2, <2>3, CodecTypesNext
  <2>5. VolumeFollowsCache' /\ PowerBalanced'
    BY <2>1, <2>2, <2>3 DEF VolumeFollowsCache, PowerBalanced
  <2>6. \A s \in CodecSetting \ todo' : saved'[s] = NotSaved
    BY <1>1, <1>6
  <2>7. \A s \in todo' : saved'[s] # NotSaved
    BY <1>1, <1>6
  <2>8. LoadedIsApplied'
    BY <2>6 DEF LoadedIsApplied
  <2>9. QED
    BY <1>6, <2>2, <2>4, <2>5, <2>7, <2>8 DEF CodecInv
<1>7. CASE /\ \E k \in DOMAIN BootSteps : regs' = BootSteps[k]
           /\ cpu' = "noaudio"
           /\ UNCHANGED <<codec, pm, todo>>
  <2>1. regs' \in {regs, r, w, i}
    BY <1>5, <1>7
  <2>2. regs' \in CodecRegType
    BY <1>1, <1>5, <2>1, CodecRegTypes
  <2>3. CodecTypeOK'
    BY <1>1, <1>7, <2>2, CodecTypesNext
  <2>4. \A s \in todo' : saved'[s] # NotSaved
    BY <1>1, <1>7 DEF CodecInv
  <2>5. QED
    BY <1>7, <2>3, <2>4 DEF CodecInv, CameUp
<1>8. QED
  BY <1>6, <1>7 DEF codec_initialize

\* A setting that is loaded agrees with the flash, and one that cannot be
\* applied is remembered as an error.
LEMMA LoadKeeps ==
  ASSUME CodecInv, audio_settings_load_cb
  PROVE  CodecInv'
<1>1. PICK s \in todo :
        /\ todo' = todo \ {s}
        /\ \/ SetProperty(s, saved[s]) /\ UNCHANGED cerr
           \/ SetPropertyFails(s, saved[s]) /\ cerr' = TRUE
  BY DEF audio_settings_load_cb, Loaded
<1>2. /\ cpu = "load" /\ CameUp /\ UNCHANGED <<saved, cpu>> /\ CodecTypeOK
      /\ cerr \in BOOLEAN /\ todo \subseteq CodecSetting
      /\ saved \in [CodecSetting -> Value \cup {NotSaved}]
      /\ pm.enabled /\ VolumeFollowsCache /\ PowerBalanced
  BY DEF audio_settings_load_cb, CameUp, CodecInv, CodecTypeOK
<1>3. s \in CodecSetting
  BY <1>2
<1>4. saved[s] \in Value
  BY <1>2, <1>3 DEF CodecInv
<1>5. PropertyKept(s) /\ (Applied(s)' = saved[s] \/ cerr')
  BY <1>1, <1>2, <1>3, <1>4, PropertyApplied, PropertyRefused
<1>6. cerr' \in BOOLEAN /\ (cerr => cerr') /\ todo' \subseteq CodecSetting
  BY <1>1, <1>2
<1>7. CodecTypeOK'
  BY <1>2, <1>5, <1>6, CodecTypesNext DEF PropertyKept
<1>8. ASSUME ~cerr' PROVE LoadedIsApplied'
  <2>1. ~cerr /\ LoadedIsApplied
    BY <1>2, <1>6, <1>8 DEF CodecInv
  <2>2. SUFFICES ASSUME NEW t \in CodecSetting \ todo'
                 PROVE  saved[t] \in {NotSaved, Applied(t)'}
    BY <1>2 DEF LoadedIsApplied
  <2>3. CASE t = s
    BY <1>5, <1>8, <2>3
  <2>4. CASE t # s
    BY <1>1, <1>5, <2>1, <2>4 DEF PropertyKept, LoadedIsApplied
  <2>5. QED
    BY <2>3, <2>4
<1>9. QED
  BY <1>1, <1>2, <1>5, <1>7, <1>8 DEF CodecInv, PropertyKept

\* The rest of the boot writes the configuration once more.
LEMMA ConfigureKeeps ==
  ASSUME CodecInv, CodecConfigure
  PROVE  CodecInv'
<1>1. /\ cpu = "load" /\ CameUp /\ todo = {} /\ UNCHANGED <<codec, saved, todo, cerr>>
      /\ CodecTypeOK /\ pm.enabled /\ VolumeFollowsCache /\ PowerBalanced
      /\ cpu' \in {"ready", "noaudio"} /\ (CodecAccess(regs) \/ WriteFails)
  BY DEF CodecConfigure, Writes, CodecAccess, CameUp, CodecInv
<1>2. regs \in CodecRegType /\ codec \in CodecDataType
  BY <1>1, CodecRegTypes DEF CodecDataType
<1>3. /\ regs' \in CodecRegType /\ pm' \in CodecPmType /\ pm'.enabled
      /\ regs'.a_gain = regs.a_gain /\ regs'.imp = regs.imp /\ regs'.dvol = regs.dvol
      /\ PowerBalanced'
  BY <1>1, <1>2, AccessEffect, FailedAccess
<1>4. VolumeFollowsCache'
  BY <1>1, <1>3 DEF VolumeFollowsCache
<1>5. CodecTypeOK'
  BY <1>1, <1>2, <1>3, CodecTypesNext DEF CodecTypeOK
<1>6. ~cerr => LoadedIsApplied'
  BY <1>1, <1>3 DEF CodecInv, LoadedIsApplied, Applied
<1>7. QED
  BY <1>1, <1>3, <1>4, <1>5, <1>6 DEF CodecInv

\* A setting is saved once it has been applied.
LEMMA SetKeeps ==
  ASSUME CodecInv, audio_set
  PROVE  CodecInv'
<1>1. PICK s \in CodecSetting, v \in Value :
       \/ /\ SetProperty(s, v)
          /\ \/ saved' = [saved EXCEPT ![s] = v] /\ UNCHANGED cerr
             \/ "codec_save" \in CodecFaults /\ cerr' = TRUE /\ UNCHANGED saved
       \/ SetPropertyFails(s, v) /\ cerr' = TRUE /\ UNCHANGED saved
  BY DEF audio_set
<1>2. /\ cpu = "ready" /\ CameUp /\ UNCHANGED <<cpu, todo>> /\ CodecTypeOK
      /\ cerr \in BOOLEAN /\ todo = {}
      /\ saved \in [CodecSetting -> Value \cup {NotSaved}]
      /\ pm.enabled /\ VolumeFollowsCache /\ PowerBalanced
  BY DEF audio_set, CameUp, CodecInv, CodecTypeOK
<1>3. PropertyKept(s)
  BY <1>1, <1>2, PropertyApplied, PropertyRefused
<1>4. /\ cerr' \in BOOLEAN /\ (cerr => cerr')
      /\ saved' \in [CodecSetting -> Value \cup {NotSaved}]
  BY <1>1, <1>2
<1>5. CodecTypeOK'
  BY <1>2, <1>3, <1>4, CodecTypesNext DEF PropertyKept
<1>6. ASSUME ~cerr' PROVE LoadedIsApplied'
  <2>1. /\ ~cerr /\ LoadedIsApplied /\ SetProperty(s, v)
        /\ saved' = [saved EXCEPT ![s] = v]
    BY <1>1, <1>2, <1>4, <1>6 DEF CodecInv
  <2>2. Applied(s)' = v
    BY <1>2, <2>1, PropertyApplied
  <2>3. SUFFICES ASSUME NEW t \in CodecSetting
                 PROVE  saved'[t] \in {NotSaved, Applied(t)'}
    BY DEF LoadedIsApplied
  <2>4. CASE t = s
    BY <1>2, <2>1, <2>2, <2>4
  <2>5. CASE t # s
    BY <1>2, <1>3, <2>1, <2>5 DEF PropertyKept, LoadedIsApplied
  <2>6. QED
    BY <2>4, <2>5
<1>7. QED
  BY <1>2, <1>3, <1>5, <1>6 DEF CodecInv, PropertyKept

\* The processor starts again and knows nothing.
LEMMA CodecRebootKeeps ==
  ASSUME CodecInv, CodecReboot
  PROVE  CodecInv'
<1>1. /\ cpu' = "init" /\ todo' = {} /\ cerr' = FALSE /\ saved' = saved
      /\ saved \in [CodecSetting -> Value \cup {NotSaved}] /\ CodecTypeOK
  BY DEF CodecReboot, CodecInv, CodecTypeOK
<1>2. regs' \in CodecRegType
  <2>1. RegsReset \in CodecRegType
    BY DEF RegsReset, CodecRegType, Default, Value
  <2>2. QED
    BY <1>1, <2>1, CodecRegTypes DEF CodecReboot
<1>3. pm' \in CodecPmType /\ codec' \in CodecDataType
  BY DEF CodecReboot, PmReset, CodecPmType, CodecDataType, Default, Value
<1>4. CodecTypeOK'
  BY <1>1, <1>2, <1>3, CodecTypesNext
<1>5. QED
  BY <1>1, <1>4 DEF CodecInv, CameUp

\* Every step of the codec keeps the chip, the driver and the flash together.
LEMMA CodecInvStep ==
  ASSUME CountKept, CodecInv, [CodecNext]_codecVars
  PROVE  CodecInv'
<1>1. CASE UNCHANGED codecVars
  BY <1>1 DEF codecVars, CodecInv, CodecTypeOK, CameUp, VolumeFollowsCache,
              PowerBalanced, LoadedIsApplied, Applied
<1>2. QED
  BY <1>1, PmActionKeeps, MuteKeeps, StartKeeps, StopKeeps, InitializeKeeps, LoadKeeps,
     ConfigureKeeps, SetKeeps, CodecRebootKeeps DEF CodecNext

LEMMA CodecInvImplies == CodecInv => CodecConsistent
<1> SUFFICES ASSUME CodecInv, CameUp
             PROVE  VolumeFollowsCache /\ PowerBalanced /\ SavedIsApplied
  BY DEF CodecConsistent
<1>1. SavedIsApplied
  BY DEF SavedIsApplied, CodecInv, LoadedIsApplied, CodecSetting, Applied
<1>2. QED
  BY <1>1 DEF CodecInv

\* Once the codec has come up the chip, the driver's cache, its hold on the
\* power and the saved settings agree, whatever transfers and saves fail
\* (tlv320adcx120.c:449-515 and 640-694, audio.c:342-423 and 572-668).
THEOREM CodecAgrees ==
  CountKept => (CodecSpec => []CodecConsistent)
<1> SUFFICES ASSUME CountKept
             PROVE  CodecSpec => []CodecConsistent
  OBVIOUS
<1>1. CodecInv /\ [CodecNext]_codecVars => CodecInv'
  BY CodecInvStep
<1>2. QED
  BY <1>1, CodecInvInit, CodecInvImplies, PTL DEF CodecSpec

-----------------------------------------------------------------------------
(***************************************************************************)
(* Power and Led: every channel shows what the state of led.c calls for.   *)
(* A pattern is a script that leaves the channels it does not name as      *)
(* they were, so this rests on what each script names, and on led_boot()   *)
(* finding a dark chip.                                                    *)
(***************************************************************************)

LedRec == [power   : {"unknown", "on", "off"},
           battery : {"discharging", "charging", "full"},
           synced  : BOOLEAN,
           record  : {"waiting", "running", "idle"},
           pattern : Pattern]

ChipRec == [program : [Channel -> Animation], auto : SUBSET Channel,
            shown   : [Channel -> Animation]]

\* The channels that a script configures
Channels(script) == {script[k].channel : k \in DOMAIN script}

IsScript(script) ==
  /\ script \in Seq([channel : Channel, look : Animation])
  /\ Len(script) \in 1 .. 3

\* A script that was played to its end shows its looks on its channels, and what
\* was programmed before on the others.
LEMMA PlayShows ==
  ASSUME "i2c" \notin Faults, chip \in ChipRec, NEW script, IsScript(script), Play(script)
  PROVE  /\ chip' \in ChipRec
         /\ \A c \in Channel :
              chip'.shown[c] = IF c \in Channels(script) THEN LookOf(script, c)
                               ELSE IF c \in chip.auto THEN chip.program[c] ELSE "dark"
<1> DEFINE n == Transfers(script)
           program == [c \in Channel |->
             IF c \in Channels(script) THEN LookOf(script, c) ELSE chip.program[c]]
           auto == chip.auto \cup Channels(script)
           shown == [c \in Channel |-> IF c \in auto THEN program[c] ELSE "dark"]
<1>1. chip' = lp58xx_start(lp58xx_ae_configure(script, n))
  <2>1. Transfers(script) \in Nat
    BY DEF IsScript, Transfers
  <2>2. PICK m \in 0 .. Transfers(script) :
          /\ ~(m < Transfers(script))
          /\ chip' = IF m = Transfers(script)
                     THEN lp58xx_start(lp58xx_ae_configure(script, m))
                     ELSE lp58xx_ae_configure(script, m)
    BY Zenon DEF Play
  <2>3. m = Transfers(script)
    BY <2>1, <2>2
  <2>4. QED
    BY <2>2, <2>3
<1>2. Len(script) \in 1 .. 3 /\ DOMAIN script = 1 .. Len(script) /\ n = 2 * Len(script) + 1
  BY DEF IsScript, Transfers
<1>3. Programmed(script, n) = Channels(script) /\ Autonomous(script, n) = Channels(script)
  <2>1. {l \in DOMAIN script : 2 * l - 1 <= n} = DOMAIN script
    BY <1>2
  <2>2. {l \in DOMAIN script : 2 * l <= n} = DOMAIN script
    BY <1>2
  <2>3. QED
    BY <2>1, <2>2 DEF Programmed, Autonomous, Channels
<1>4. PICK ch : ch = lp58xx_ae_configure(script, n)
  OBVIOUS
<1>5. ch = [chip EXCEPT !.program = program, !.auto = auto]
  BY <1>3, <1>4, Zenon DEF lp58xx_ae_configure
<1>6. ch = [program |-> program, auto |-> auto, shown |-> chip.shown]
  BY <1>5 DEF ChipRec
<1>7. chip' = [program |-> program, auto |-> auto, shown |-> shown]
  <2>1. chip' = [ch EXCEPT !.shown =
                   [c \in Channel |-> IF c \in ch.auto THEN ch.program[c] ELSE "dark"]]
    BY <1>1, <1>4, Zenon DEF lp58xx_start
  <2>2. ch.auto = auto /\ ch.program = program
    BY <1>6
  <2> HIDE DEF program, auto
  <2>3. QED
    BY <1>6, <2>1, <2>2
<1>8. ASSUME NEW c \in Channels(script) PROVE LookOf(script, c) \in Animation /\ c \in Channel
  <2>1. PICK k \in DOMAIN script : script[k].channel = c
    BY DEF Channels
  <2>2. \E e \in {script[l] : l \in DOMAIN script} : e.channel = c
    BY <2>1
  <2>3. PICK s : /\ s = CHOOSE e \in {script[l] : l \in DOMAIN script} : e.channel = c
                 /\ s \in {script[l] : l \in DOMAIN script}
    BY <2>2
  <2>4. LookOf(script, c) = s.look
    BY <2>1, <2>3 DEF LookOf
  <2>5. \A l \in DOMAIN script : script[l] \in [channel : Channel, look : Animation]
    <3>1. PICK R : R = [channel : Channel, look : Animation]
      OBVIOUS
    <3>2. script \in Seq(R)
      BY <3>1 DEF IsScript
    <3>3. \A l \in 1 .. Len(script) : script[l] \in R
      BY <3>2
    <3>4. QED
      BY <1>2, <3>1, <3>3
  <2>6. s \in [channel : Channel, look : Animation] /\ c \in Channel
    BY <2>1, <2>3, <2>5
  <2>7. QED
    BY <2>4, <2>6
<1>9. chip' \in ChipRec
  <2>1. "dark" \in Animation
    BY DEF Animation
  <2>2. program \in [Channel -> Animation] /\ auto \subseteq Channel
    BY <1>8 DEF ChipRec
  <2>3. shown \in [Channel -> Animation]
    BY <2>1, <2>2
  <2>4. QED
    BY <1>7, <2>2, <2>3 DEF ChipRec
<1>10. QED
  BY <1>7, <1>9

\* The scripts are those of three channels, but for the one at startup.
LEMMA ScriptsCover ==
  ASSUME node \in {"audio", "central"}
  PROVE  /\ \A p \in Pattern : IsScript(Script(p))
         /\ \A p \in Pattern \ {"startup"} : Channels(Script(p)) = Channel
<1>1. ASSUME NEW lit \in Channel \cup {"none"}, NEW a \in Animation
      PROVE  IsScript(OneLit(lit, a)) /\ Channels(OneLit(lit, a)) = Channel
  <2>1. PICK s : s = OneLit(lit, a)
    OBVIOUS
  <2>2. /\ s = [k \in 1 .. 3 |-> s[k]]
        /\ \A k \in 1 .. 3 : s[k] \in [channel : Channel, look : Animation]
        /\ s[1].channel = "blue" /\ s[2].channel = "green" /\ s[3].channel = "red"
    BY <2>1 DEF OneLit, led_configure_fade_out, Set, Channel, Animation
  <2>3. s \in Seq([channel : Channel, look : Animation]) /\ Len(s) = 3 /\ DOMAIN s = 1 .. 3
    BY <2>2
  <2>4. Channels(s) = Channel
    BY <2>2, <2>3 DEF Channels, Channel
  <2>5. QED
    BY <2>1, <2>3, <2>4 DEF IsScript
<1>2. ASSUME NEW p \in Pattern \ {"startup", "central_idle"}
      PROVE  \E lit \in Channel \cup {"none"}, a \in Animation : Script(p) = OneLit(lit, a)
  BY DEF Script, Scripts, Pattern, Channel, Animation, led_pattern_off,
         led_pattern_battery_charging, led_pattern_battery_full, led_pattern_idle_synced, led_pattern_idle_not_synced,
         led_pattern_record_waiting, led_pattern_record_running
<1>3. IsScript(led_pattern_idle) /\ Channels(led_pattern_idle) = Channel
  BY DEF IsScript, Channels, led_pattern_idle, led_configure_fade_out, Set, Channel, Animation
<1>4. Script("central_idle") = led_pattern_idle
  BY DEF Script, Scripts, Pattern
<1>5. IsScript(Script("startup"))
  <2>1. Script("startup") \in {led_pattern_startup_audio, led_pattern_startup_central}
    BY DEF Script, Scripts, Pattern
  <2>2. IsScript(led_pattern_startup_audio)
    BY DEF IsScript, led_pattern_startup_audio, Set, Channel, Animation
  <2>3. IsScript(led_pattern_startup_central)
    BY DEF IsScript, led_pattern_startup_central, Set, Channel, Animation
  <2>4. QED
    BY <2>1, <2>2, <2>3
<1>6. QED
  BY <1>1, <1>2, <1>3, <1>4, <1>5

\* What a call of the light does: to led_data, and to what is shown.
LEMMA UpdateShows ==
  ASSUME "i2c" \notin Faults, node \in {"audio", "central"}, UNCHANGED node,
         led \in LedRec, chip \in ChipRec, LightFollowsState,
         NEW new \in LedRec, new.pattern = led.pattern, led_update(new)
  PROVE  /\ led' \in LedRec /\ chip' \in ChipRec
         /\ led'.power = new.power /\ led'.battery = new.battery /\ led'.record = new.record
         /\ led'.pattern = PatternOf(new)
         /\ LightFollowsState'
         /\ led'.pattern = led.pattern => chip' = chip
<1>1. PICK l : l = [new EXCEPT !.pattern = PatternOf(new)]
  OBVIOUS
<1>2. PatternOf(new) \in Pattern \ {"startup"}
  BY DEF PatternOf, IdlePattern, Pattern
<1>3. l \in LedRec /\ l.power = new.power /\ l.battery = new.battery
      /\ l.record = new.record /\ l.pattern = PatternOf(new)
  BY <1>1, <1>2 DEF LedRec
<1>4. led' = l /\ (l.pattern # led.pattern => Play(Script(l.pattern)))
      /\ (l.pattern = led.pattern => chip' = chip)
  BY <1>1 DEF led_update, led_set_pattern
<1>5. PICK p : p = l.pattern
  OBVIOUS
<1>6. CASE p = led.pattern
  <2>1. chip' = chip
    BY <1>4, <1>5, <1>6
  <2>2. led'.pattern = led.pattern
    BY <1>4, <1>5, <1>6
  <2>3. LightFollowsState'
    BY <2>1, <2>2 DEF LightFollowsState, Script
  <2>4. QED
    BY <1>3, <1>4, <2>1, <2>3
<1>7. CASE p # led.pattern
  <2>1. p \in Pattern \ {"startup"} /\ Play(Script(p))
    BY <1>2, <1>3, <1>4, <1>5, <1>7
  <2>2. IsScript(Script(p)) /\ Channels(Script(p)) = Channel
    BY <2>1, ScriptsCover
  <2>3. /\ chip' \in ChipRec
        /\ \A c \in Channel : chip'.shown[c] = LookOf(Script(p), c)
    BY <2>1, <2>2, PlayShows
  <2>4. led'.pattern = p
    BY <1>4, <1>5
  <2>5. LightFollowsState'
    BY <2>3, <2>4 DEF LightFollowsState, Script
  <2>6. QED
    BY <1>3, <1>4, <1>5, <1>7, <2>3, <2>5
<1>8. QED
  BY <1>6, <1>7

\* The states before led_boot(), in which the chip is as lp58xx_init() left it
Booting == {"drivers", "charge", "unmask", "register", "decide", "wait", "dark", "boot"}

\* The light while the device runs, and while it is off or has not started: what
\* led.c remembers, and that led_boot() finds a dark chip.
LightInv ==
  /\ node \in {"audio", "central"}
  /\ led \in LedRec /\ chip \in ChipRec /\ pulse \in BOOLEAN
  /\ LightFollowsState
  /\ main \in Booting => chip = ChipReset /\ led.pattern = "off" /\ led.power = "unknown"
  /\ main # "run" /\ Up => led.record = "idle" /\ pulse = FALSE
  /\ "booted" \in events => main \in {"boot", "run", "off", "ship"}
  /\ wq # "idle" => main = "run"
  /\ main = "run" /\ wq # "sleep" => led.power = "on"
  /\ led.power = "on" /\ led.record = "running" => led.pattern = "record_running"

\* Neither a transfer to the light fails nor is the main thread delayed where
\* the work queue could come between.
LightServed == {"i2c", "preempt"} \cap Faults = {}

\* A call of the light in a state where it changes nothing of the power of the
\* device.
LEMMA CallKeepsLight ==
  ASSUME LightServed, LightInv, UNCHANGED node, NEW new \in LedRec, led_update(new),
         new.pattern = led.pattern, new.power = led.power, pulse' \in BOOLEAN,
         \/ main' = main /\ (main \in Booting => new.record = led.record)
         \/ main = "charge" /\ main' = "unmask" /\ new.record = led.record,
         main # "run" => new.record = led.record /\ UNCHANGED pulse,
         "booted" \in events' => "booted" \in events \/ main' = "boot",
         wq' # "idle" => main' = "run",
         main' = "run" /\ wq' # "sleep" => wq # "sleep"
  PROVE  LightInv'
<1>1. /\ "i2c" \notin Faults /\ node \in {"audio", "central"} /\ led \in LedRec
      /\ chip \in ChipRec /\ LightFollowsState
  BY DEF LightServed, LightInv
<1>2. /\ led' \in LedRec /\ chip' \in ChipRec
      /\ led'.power = new.power /\ led'.battery = new.battery /\ led'.record = new.record
      /\ led'.pattern = PatternOf(new)
      /\ LightFollowsState'
      /\ led'.pattern = led.pattern => chip' = chip
  BY <1>1, UpdateShows
<1>3. main' \in Booting => chip' = ChipReset /\ led'.pattern = "off" /\ led'.power = "unknown"
  <2> SUFFICES ASSUME main' \in Booting
               PROVE  chip' = ChipReset /\ led'.pattern = "off" /\ led'.power = "unknown"
    OBVIOUS
  <2>1. main \in Booting
    BY DEF Booting
  <2>2. chip = ChipReset /\ led.pattern = "off" /\ led.power = "unknown"
    BY <2>1 DEF LightInv
  <2>3. PatternOf(new) = "off"
    BY <2>2 DEF PatternOf
  <2>4. QED
    BY <1>2, <2>2, <2>3
<1>4. main' # "run" /\ Up' => led'.record = "idle" /\ pulse' = FALSE
  BY <1>2 DEF LightInv, Up
<1>5. led'.power = "on" /\ led'.record = "running" => led'.pattern = "record_running"
  BY <1>2 DEF PatternOf
<1>6. main' = "run" /\ wq' # "sleep" => led'.power = "on"
  BY <1>2 DEF LightInv
<1>7. "booted" \in events' => main' \in {"boot", "run", "off", "ship"}
  BY DEF LightInv
<1>8. QED
  BY <1>1, <1>2, <1>3, <1>4, <1>5, <1>6, <1>7 DEF LightInv

\* A step that leaves the light alone
LEMMA LightLeftAlone ==
  ASSUME LightInv, UNCHANGED <<node, ledVars>>,
         \/ main' = main
         \/ main \in Booting \ {"dark", "boot"} /\ main' \in Booting,
         "booted" \in events' => "booted" \in events \/ main' = "boot",
         wq' = wq \/ wq' = "idle" \/ (wq = "idle" /\ main' = "run" /\ wq' = "hooks"),
         wq' # "sleep" => wq # "sleep"
  PROVE  LightInv'
<1>1. /\ node' \in {"audio", "central"} /\ led' \in LedRec /\ chip' \in ChipRec
      /\ pulse' \in BOOLEAN /\ LightFollowsState'
  BY DEF LightInv, ledVars, LightFollowsState, Script
<1>2. main \notin Booting => main' = main
  OBVIOUS
<1>3. main' \in Booting => chip' = ChipReset /\ led'.pattern = "off" /\ led'.power = "unknown"
  BY DEF LightInv, ledVars, Booting
<1>4. main' # "run" /\ Up' => led'.record = "idle" /\ pulse' = FALSE
  BY DEF LightInv, ledVars, Booting, Up
<1>5. "booted" \in events' => main' \in {"boot", "run", "off", "ship"}
  BY DEF LightInv, Booting
<1>6. wq' # "idle" => main' = "run"
  BY DEF LightInv, Booting
<1>7. main' = "run" /\ wq' # "sleep" => led'.power = "on"
  BY DEF LightInv, ledVars, Booting
<1>8. led'.power = "on" /\ led'.record = "running" => led'.pattern = "record_running"
  BY DEF LightInv, ledVars
<1>9. QED
  BY <1>1, <1>3, <1>4, <1>5, <1>6, <1>7, <1>8 DEF LightInv

\* Those steps
LEMMA QuietKeepsLight ==
  ASSUME LightServed, LightInv,
         \/ Interrupt \/ IntWorkFails \/ DeviceInit \/ AddCallback \/ Decide \/ Wait
         \/ Hold \/ Supply \/ Charge
  PROVE  LightInv'
<1>1. CASE Interrupt \/ IntWorkFails \/ Hold \/ Supply \/ Charge
  BY <1>1, LightLeftAlone DEF Interrupt, IntWorkFails, Hold, Supply, Charge, powerVars
<1>2. CASE DeviceInit \/ AddCallback
  BY <1>2, LightLeftAlone DEF DeviceInit, AddCallback, MainGoes, Booting
<1>3. CASE Decide
  <2>1. main = "decide" /\ main' \in {"wait", "boot", "dark"} /\ wq' = wq
        /\ UNCHANGED <<node, ledVars>>
        /\ ("booted" \in events' => "booted" \in events \/ main' = "boot")
    BY <1>3 DEF Decide
  <2>2. QED
    BY <2>1, LightLeftAlone DEF Booting
<1>4. CASE Wait
  <2>1. main = "wait" /\ main' \in {"boot", "dark"} /\ wq' = wq
        /\ UNCHANGED <<node, ledVars>>
        /\ ("booted" \in events' => "booted" \in events \/ main' = "boot")
    BY <1>4 DEF Wait
  <2>2. QED
    BY <2>1, LightLeftAlone DEF Booting
<1>5. QED
  BY <1>1, <1>2, <1>3, <1>4

\* The records that the calls of the light begin with
LEMMA LedRecords ==
  ASSUME led \in LedRec
  PROVE  /\ \A b \in {"discharging", "charging", "full"} :
              /\ [led EXCEPT !.battery = b] \in LedRec
              /\ [led EXCEPT !.battery = b].battery = b
              /\ [led EXCEPT !.battery = b].pattern = led.pattern
              /\ [led EXCEPT !.battery = b].power = led.power
              /\ [led EXCEPT !.battery = b].record = led.record
         /\ \A s \in BOOLEAN :
              /\ [led EXCEPT !.synced = s] \in LedRec
              /\ [led EXCEPT !.synced = s].battery = led.battery
              /\ [led EXCEPT !.synced = s].pattern = led.pattern
              /\ [led EXCEPT !.synced = s].power = led.power
              /\ [led EXCEPT !.synced = s].record = led.record
         /\ \A r \in {"waiting", "running", "idle"} :
              /\ [led EXCEPT !.record = r] \in LedRec
              /\ [led EXCEPT !.record = r].battery = led.battery
              /\ [led EXCEPT !.record = r].pattern = led.pattern
              /\ [led EXCEPT !.record = r].power = led.power
              /\ [led EXCEPT !.record = r].record = r
         /\ \A p \in {"on", "off"} :
              /\ [led EXCEPT !.power = p] \in LedRec
              /\ [led EXCEPT !.power = p].battery = led.battery
              /\ [led EXCEPT !.power = p].pattern = led.pattern
              /\ [led EXCEPT !.power = p].power = p
              /\ [led EXCEPT !.power = p].record = led.record
BY DEF LedRec

\* What the charger says is told to the light, or cannot be read.
LEMMA StatusKeepsLight ==
  ASSUME LightServed, LightInv, UNCHANGED node, power_update_charge_status,
         main' = main \/ (main = "charge" /\ main' = "unmask"),
         "booted" \in events' => "booted" \in events, wq' = "idle", wq = "idle"
  PROVE  LightInv'
<1>1. CASE UNCHANGED ledVars
  BY <1>1, LightLeftAlone DEF Booting
<1>2. CASE led_battery(Status(charger))
  <2>1. PICK b \in {"discharging", "charging", "full"} : b = Status(charger)
    BY DEF Status
  <2>2. PICK new : new = [led EXCEPT !.battery = b]
    OBVIOUS
  <2>3. led \in LedRec /\ pulse \in BOOLEAN
    BY DEF LightInv
  <2>4. new \in LedRec /\ new.pattern = led.pattern /\ new.power = led.power
        /\ new.record = led.record
    BY <2>2, <2>3, LedRecords
  <2>5. led_update(new) /\ UNCHANGED pulse
    BY <1>2, <2>1, <2>2 DEF led_battery
  <2>6. QED
    BY <2>3, <2>4, <2>5, CallKeepsLight
<1>3. QED
  BY <1>1, <1>2 DEF power_update_charge_status

\* The work item of the charger's interrupt
LEMMA IntWorkKeepsLight ==
  ASSUME LightServed, LightInv, IntWork
  PROVE  LightInv'
<1>1. /\ Up /\ wq = "idle" /\ main' = main /\ UNCHANGED node
      /\ main \notin {"register", "boot"}
      /\ "booted" \in events' => "booted" \in events
  BY DEF IntWork, LightServed
<1>2. PICK shutdown \in BOOLEAN : shutdown = ("wake2" \in Delivered /\ "booted" \in events)
  OBVIOUS
<1>3. shutdown => main = "run"
  BY <1>1, <1>2 DEF LightInv, Up
<1>4. wq' = IF shutdown THEN "hooks" ELSE "idle"
  BY <1>2 DEF IntWork
<1>5. CASE UNCHANGED ledVars
  BY <1>1, <1>3, <1>4, <1>5, LightLeftAlone
<1>6. CASE power_update_charge_status /\ ~shutdown
  BY <1>1, <1>4, <1>6, StatusKeepsLight
<1>7. QED
  BY <1>2, <1>5, <1>6 DEF IntWork

\* What the charger says when the device starts
LEMMA InitStatusKeepsLight ==
  ASSUME LightServed, LightInv, InitStatus
  PROVE  LightInv'
<1>1. wq = "idle"
  BY DEF InitStatus, MainGoes, LightInv
<1>2. QED
  BY <1>1, StatusKeepsLight DEF InitStatus, MainGoes

\* What reset leaves of the light is a dark chip, as the pattern says.
LEMMA ResetIsDark ==
  ASSUME node \in {"audio", "central"}
  PROVE  /\ LedReset \in LedRec /\ ChipReset \in ChipRec
         /\ LedReset.pattern = "off" /\ LedReset.power = "unknown" /\ LedReset.record = "idle"
         /\ \A c \in Channel : ChipReset.shown[c] = LookOf(Script("off"), c)
<1>1. LedReset \in LedRec /\ LedReset.pattern = "off" /\ LedReset.power = "unknown"
      /\ LedReset.record = "idle"
  BY DEF LedReset, LedRec, Pattern
<1>2. ChipReset \in ChipRec
  BY DEF ChipReset, ChipRec, Animation
<1>3. ASSUME NEW c \in Channel PROVE ChipReset.shown[c] = LookOf(Script("off"), c)
  <2>1. ChipReset.shown[c] = "dark"
    BY DEF ChipReset
  <2>2. PICK s : s = OneLit("none", "dark")
    OBVIOUS
  <2>3. Script("off") = s
    BY <2>2 DEF Script, Scripts, Pattern, led_pattern_off
  <2>4. DOMAIN s = 1 .. 3 /\ \A k \in 1 .. 3 : s[k].look = "dark"
    BY <2>2 DEF OneLit, led_configure_fade_out, Set, Channel
  <2>5. LookOf(s, c) = "dark"
    <3>1. ASSUME \E k \in DOMAIN s : s[k].channel = c
          PROVE  LookOf(s, c) = "dark"
      <4>1. \E e \in {s[k] : k \in DOMAIN s} : e.channel = c
        BY <3>1
      <4>2. PICK t : /\ t = CHOOSE e \in {s[k] : k \in DOMAIN s} : e.channel = c
                     /\ t \in {s[k] : k \in DOMAIN s}
        BY <4>1
      <4>3. t.look = "dark"
        BY <4>2, <2>4
      <4>4. QED
        BY <3>1, <4>2, <4>3 DEF LookOf
    <3>2. QED
      BY <3>1 DEF LookOf
  <2>6. QED
    BY <2>1, <2>3, <2>5
<1>4. QED
  BY <1>1, <1>2, <1>3

\* A restart, and the supply that is cut
LEMMA RebootKeepsLight ==
  ASSUME LightInv, UNCHANGED node, LedReboot, wq' = "idle",
         main' = "ship" \/ (main' = "drivers" /\ events' = {})
  PROVE  LightInv'
<1>1. node \in {"audio", "central"}
  BY DEF LightInv
<1>2. led' = LedReset /\ chip' = ChipReset /\ pulse' = FALSE /\ node' = node
  BY DEF LedReboot
<1>3. LightFollowsState'
  BY <1>1, <1>2, ResetIsDark DEF LightFollowsState, Script
<1>4. /\ led' \in LedRec /\ chip' \in ChipRec /\ led'.pattern = "off"
      /\ led'.power = "unknown" /\ led'.record = "idle"
  BY <1>1, <1>2, ResetIsDark
<1>5. QED
  BY <1>1, <1>2, <1>3, <1>4 DEF LightInv, Up, Booting

\* led_boot() finds a dark chip, so that what the startup script leaves alone is
\* dark.
LEMMA BootKeepsLight ==
  ASSUME LightServed, LightInv, Boot
  PROVE  LightInv'
<1>1. /\ main = "boot" /\ main' = "run" /\ UNCHANGED <<node, events, wq, pulse>>
      /\ led_set_pattern([led EXCEPT !.power = "on", !.pattern = "startup"])
  BY DEF Boot, MainGoes, led_boot
<1>2. /\ node \in {"audio", "central"} /\ led \in LedRec /\ chip \in ChipRec /\ wq = "idle"
      /\ chip = ChipReset /\ led.pattern = "off" /\ pulse = FALSE /\ led.record = "idle"
  BY <1>1 DEF LightInv, Booting, Up
<1>3. PICK new : new = [led EXCEPT !.power = "on", !.pattern = "startup"]
  OBVIOUS
<1>4. new \in LedRec /\ new.power = "on" /\ new.pattern = "startup" /\ new.record = "idle"
  BY <1>2, <1>3 DEF LedRec, Pattern
<1>5. led' = new /\ Play(Script("startup"))
  BY <1>1, <1>2, <1>3, <1>4 DEF led_set_pattern
<1>6. IsScript(Script("startup"))
  BY <1>2, ScriptsCover DEF Pattern
<1>7. PICK s : s = Script("startup")
  OBVIOUS
<1>8. /\ chip' \in ChipRec
      /\ \A c \in Channel :
           chip'.shown[c] = IF c \in Channels(s) THEN LookOf(s, c)
                            ELSE IF c \in chip.auto THEN chip.program[c] ELSE "dark"
  BY <1>2, <1>5, <1>6, <1>7, PlayShows DEF LightServed
<1>9. chip.auto = {}
  BY <1>2 DEF ChipReset
<1>10. ASSUME NEW c \in Channel, c \notin Channels(s) PROVE LookOf(s, c) = "dark"
  BY <1>10 DEF LookOf, Channels
<1>11. \A c \in Channel : chip'.shown[c] = LookOf(s, c)
  BY <1>8, <1>9, <1>10
<1>12. LightFollowsState'
  BY <1>1, <1>4, <1>5, <1>7, <1>11 DEF LightFollowsState, Script
<1>13. QED
  BY <1>1, <1>2, <1>4, <1>5, <1>8, <1>12 DEF LightInv, Booting, Up

\* The recording that a shutdown stops
LEMMA HooksKeepLight ==
  ASSUME LightServed, LightInv, ShutdownHooks
  PROVE  LightInv'
<1>1. /\ wq = "hooks" /\ wq' = "dark" /\ main = "run" /\ main' = main
      /\ UNCHANGED <<node, events>>
  BY DEF ShutdownHooks, LightInv
<1>2. CASE UNCHANGED ledVars
  BY <1>1, <1>2 DEF LightInv, ledVars, LightFollowsState, Script, Up, Booting
<1>3. CASE led_record_stopped
  <2>1. led \in LedRec /\ pulse \in BOOLEAN
    BY DEF LightInv
  <2>2. PICK new : new = [led EXCEPT !.record = "idle"]
    OBVIOUS
  <2>3. new \in LedRec /\ new.pattern = led.pattern /\ new.power = led.power
    BY <2>1, <2>2, LedRecords
  <2>4. led_update(new) /\ UNCHANGED pulse
    BY <1>3, <2>2 DEF led_record_stopped
  <2>5. QED
    BY <1>1, <2>1, <2>3, <2>4, CallKeepsLight DEF Booting
<1>4. QED
  BY <1>2, <1>3 DEF ShutdownHooks

\* What the light shows of a device that is off
LEMMA OffLightKeepsLight ==
  ASSUME LightServed, LightInv, OffLight
  PROVE  LightInv'
<1>1. /\ \/ main = "dark" /\ main' = "sleep" /\ wq' = wq
         \/ wq = "dark" /\ wq' = "sleep" /\ main' = main
      /\ UNCHANGED <<node, events, pulse>>
  BY DEF OffLight, MainGoes, led_shutdown
<1>2. /\ "i2c" \notin Faults /\ node \in {"audio", "central"} /\ led \in LedRec
      /\ chip \in ChipRec /\ LightFollowsState
  BY DEF LightServed, LightInv
<1>3. PICK new : new = [led EXCEPT !.power = "off"]
  OBVIOUS
<1>4. new \in LedRec /\ new.pattern = led.pattern /\ new.power = "off"
      /\ new.record = led.record
  BY <1>2, <1>3, LedRecords
<1>5. led_update(new)
  BY <1>3 DEF OffLight, led_shutdown
<1>6. /\ led' \in LedRec /\ chip' \in ChipRec
      /\ led'.power = "off" /\ led'.record = led.record /\ LightFollowsState'
  BY <1>2, <1>4, <1>5, UpdateShows DEF OffLight
<1>7. main' \notin Booting
  BY <1>1 DEF LightInv, Booting
<1>8. QED
  BY <1>1, <1>2, <1>6, <1>7 DEF LightInv, Booting, Up

\* The calls of the recorder and the sync
LEMMA LightCallsKeepLight ==
  ASSUME LightServed, LightInv, LightCalls
  PROVE  LightInv'
<1>1. main = "run" /\ UNCHANGED <<node, main, events, wq>>
  BY DEF LightCalls, powerVars
<1>2. led \in LedRec /\ pulse \in BOOLEAN /\ main \notin Booting
  BY <1>1 DEF LightInv, Booting
<1>3. CASE led_record_sync
  BY <1>1, <1>3 DEF led_record_sync, LightInv, LightFollowsState, Script, Up, Booting
<1>4. ASSUME NEW r \in {"waiting", "running", "idle"},
             led_update([led EXCEPT !.record = r]), UNCHANGED pulse
      PROVE  LightInv'
  <2>1. PICK new : new = [led EXCEPT !.record = r]
    OBVIOUS
  <2>2. new \in LedRec /\ new.pattern = led.pattern /\ new.power = led.power
    BY <1>2, <2>1, LedRecords
  <2>3. QED
    BY <1>1, <1>2, <1>4, <2>1, <2>2, CallKeepsLight
<1>5. ASSUME NEW s \in BOOLEAN,
             led_update([led EXCEPT !.synced = s]), UNCHANGED pulse
      PROVE  LightInv'
  <2>1. PICK new : new = [led EXCEPT !.synced = s]
    OBVIOUS
  <2>2. new \in LedRec /\ new.pattern = led.pattern /\ new.power = led.power
    BY <1>2, <2>1, LedRecords
  <2>3. QED
    BY <1>1, <1>2, <1>5, <2>1, <2>2, CallKeepsLight
<1>6. QED
  BY <1>3, <1>4, <1>5 DEF LightCalls, led_record_waiting, led_record_started,
     led_record_stopped, led_sync_started, led_sync_terminated

\* A pulse plays the pattern of a running recording again, and no other.
LEMMA PulseKeepsLight ==
  ASSUME LightServed, LightInv, Pulse
  PROVE  LightInv'
<1>1. /\ Up /\ wq = "idle" /\ pulse = TRUE /\ pulse' = FALSE
      /\ UNCHANGED <<node, main, events, wq, led>>
  BY DEF Pulse, led_record_sync_work_handler, powerVars, LightInv
<1>2. main = "run" /\ led.power = "on"
  BY <1>1 DEF LightInv
<1>3. CASE UNCHANGED chip
  BY <1>1, <1>2, <1>3 DEF LightInv, LightFollowsState, Script, Booting
<1>4. CASE led.record = "running" /\ Play(led_pattern_record_sync_pulse)
  <2>1. led.pattern = "record_running" /\ node \in {"audio", "central"} /\ chip \in ChipRec
    BY <1>2, <1>4 DEF LightInv
  <2>2. PICK s : s = Script("record_running")
    OBVIOUS
  <2>3. s = led_pattern_record_sync_pulse
    BY <2>1, <2>2 DEF Script, Scripts, Pattern, led_pattern_record_running,
       led_pattern_record_sync_pulse
  <2>4. IsScript(s) /\ Channels(s) = Channel
    BY <2>1, <2>2, ScriptsCover DEF Pattern
  <2>5. chip' \in ChipRec /\ \A c \in Channel : chip'.shown[c] = LookOf(s, c)
    BY <1>4, <2>1, <2>3, <2>4, PlayShows DEF LightServed
  <2>6. LightFollowsState'
    BY <1>1, <2>1, <2>2, <2>5 DEF LightFollowsState, Script
  <2>7. QED
    BY <1>1, <1>2, <2>5, <2>6 DEF LightInv, Booting
<1>5. QED
  BY <1>3, <1>4 DEF Pulse, led_record_sync_work_handler, PulseDue

\* The power that goes
LEMMA PowerOffKeepsLight ==
  ASSUME LightInv, PowerOff
  PROVE  LightInv'
<1>1. wq' = "idle" /\ UNCHANGED <<node, events>>
  BY DEF PowerOff
<1>2. CASE main' = "off" /\ UNCHANGED ledVars
  BY <1>1, <1>2 DEF LightInv, ledVars, LightFollowsState, Script, Up, Booting
<1>3. CASE main' = "ship" /\ LedReboot
  BY <1>1, <1>3, RebootKeepsLight
<1>4. QED
  BY <1>2, <1>3 DEF PowerOff

\* When no transfer to the light fails and the main thread is not held up where
\* the work queue could come between, every channel shows what the state of
\* led.c calls for, whatever was played before (led.c:576-694).
THEOREM LightShowsTheState == LightServed => (Spec => []LightFollowsState)
<1> SUFFICES ASSUME LightServed PROVE Spec => []LightFollowsState
  OBVIOUS
<1>1. Init => LightInv
  <2> SUFFICES ASSUME Init PROVE LightInv
    OBVIOUS
  <2>1. node \in {"audio", "central"} /\ led = LedReset /\ chip = ChipReset /\ pulse = FALSE
        /\ main = "drivers" /\ events = {} /\ wq = "idle"
    BY DEF Init, LedInit
  <2>2. LightFollowsState
    BY <2>1, ResetIsDark DEF LightFollowsState
  <2>3. QED
    BY <2>1, <2>2, ResetIsDark DEF LightInv, Up, Booting
<1>2. LightInv /\ [Next]_vars => LightInv'
  <2> SUFFICES ASSUME LightInv, [Next]_vars PROVE LightInv'
    OBVIOUS
  <2>1. CASE Interrupt \/ IntWorkFails \/ DeviceInit \/ AddCallback \/ Decide \/ Wait
             \/ Hold \/ Supply \/ Charge
    BY <2>1, QuietKeepsLight
  <2>2. CASE IntWork
    BY <2>2, IntWorkKeepsLight
  <2>3. CASE InitStatus
    BY <2>3, InitStatusKeepsLight
  <2>4. CASE Boot
    BY <2>4, BootKeepsLight
  <2>5. CASE ShutdownHooks
    BY <2>5, HooksKeepLight
  <2>6. CASE OffLight
    BY <2>6, OffLightKeepsLight
  <2>7. CASE PowerOff
    BY <2>7, PowerOffKeepsLight
  <2>8. CASE Wake \/ LeaveShip \/ SoftwareReset
    BY <2>8, RebootKeepsLight DEF Wake, LeaveShip, SoftwareReset, Restart
  <2>9. CASE LightCalls
    BY <2>9, LightCallsKeepLight
  <2>10. CASE Pulse
    BY <2>10, PulseKeepsLight
  <2>11. CASE UNCHANGED vars
    BY <2>11 DEF vars, ledVars, powerVars, LightInv, LightFollowsState, Script, Up
  <2>12. QED
    BY <2>1, <2>2, <2>3, <2>4, <2>5, <2>6, <2>7, <2>8, <2>9, <2>10, <2>11 DEF Next, Main
<1>3. LightInv => LightFollowsState
  BY DEF LightInv
<1>4. QED
  BY <1>1, <1>2, <1>3, PTL DEF Spec

-----------------------------------------------------------------------------
(***************************************************************************)
(* The flags of the charger on their way to power.c.                       *)
(***************************************************************************)
MfdRec == [int_mask  : SUBSET Event, mask : SUBSET Event, flags : SUBSET Event,
           pending   : SUBSET Event, callbacks : SUBSET {"charger", "power"},
           work      : BOOLEAN]

\* The states up to the decision of power_init()
Deciding == {"drivers", "charge", "unmask", "register", "decide", "wait"}

\* power.c has its callback.
Listening ==
  \/ main \in {"decide", "wait", "dark", "sleep"}
  \/ main \in {"boot", "run"} /\ "power" \in mfd.callbacks

\* Nothing is unmasked before mfd_bq2515x_add_callback(), which queues the work
\* item; once the callback is there nothing is masked, and what was kept for it
\* waits for that work item.
MaskInv ==
  /\ main \in {"drivers", "charge", "unmask"} =>
       mfd.int_mask = Event /\ "power" \notin mfd.callbacks
  /\ main = "register" =>
       /\ mfd.int_mask = {} /\ mfd.mask = {} /\ mfd.work = TRUE
       /\ "power" \notin mfd.callbacks
  /\ Listening =>
       /\ mfd.int_mask = {} /\ mfd.mask = {} /\ "power" \in mfd.callbacks
       /\ mfd.work = TRUE \/ mfd.pending = {}
  /\ wq # "idle" => main = "run" /\ "power" \in mfd.callbacks /\ mfd.pending = {}
  /\ main = "off" => mfd.pending = {}
  /\ "booted" \in events => main \in {"boot", "run", "off", "ship"}

\* The button that woke the device is not forgotten before the decision, nor
\* overtaken by an event of the charge.
Pressed ==
  woke /\ main \in Deciding =>
    /\ "wake2" \in events \cup mfd.flags \cup mfd.pending
    /\ "charge" \in events => "wake2" \in events

MfdInv == mfd \in MfdRec /\ MaskInv /\ Pressed

\* Neither is the main thread held up where the work queue could come between,
\* nor the work queue for longer than power.c waits.
QueueServed == {"preempt", "slow"} \cap Faults = {}

\* Steps that at most set flags or queue the work item
LEMMA FlagsComeIn ==
  ASSUME MfdInv, UNCHANGED <<main, wq, events, woke>>, mfd' \in MfdRec,
         mfd'.int_mask = mfd.int_mask, mfd'.mask = mfd.mask, mfd.flags \subseteq mfd'.flags,
         mfd'.pending = mfd.pending, mfd'.callbacks = mfd.callbacks,
         mfd'.work = TRUE \/ mfd'.work = mfd.work
  PROVE  MfdInv'
<1>1. MaskInv'
  BY DEF MfdInv, MaskInv, Listening
<1>2. Pressed'
  BY DEF MfdInv, Pressed
<1>3. QED
  BY <1>1, <1>2 DEF MfdInv

\* Those of the charger
LEMMA WorldKeepsMask ==
  ASSUME MfdInv, Hold \/ Supply \/ Charge \/ Interrupt \/ IntWorkFails
  PROVE  MfdInv'
<1>1. UNCHANGED <<main, wq, events, woke>> /\ mfd \in MfdRec
  BY DEF MfdInv, Hold, Supply, Charge, Interrupt, IntWorkFails, powerVars
<1>2. ASSUME NEW x \in Event, mfd' = [mfd EXCEPT !.flags = @ \cup {x}]
      PROVE  MfdInv'
  <2>1. /\ mfd' \in MfdRec /\ mfd'.int_mask = mfd.int_mask /\ mfd'.mask = mfd.mask
        /\ mfd'.flags = mfd.flags \cup {x} /\ mfd'.pending = mfd.pending
        /\ mfd'.callbacks = mfd.callbacks /\ mfd'.work = mfd.work
    BY <1>1, <1>2 DEF MfdRec
  <2>2. QED
    BY <1>1, <2>1, FlagsComeIn
<1>3. CASE mfd' = [mfd EXCEPT !.work = TRUE]
  <2>1. /\ mfd' \in MfdRec /\ mfd'.int_mask = mfd.int_mask /\ mfd'.mask = mfd.mask
        /\ mfd'.flags = mfd.flags /\ mfd'.pending = mfd.pending
        /\ mfd'.callbacks = mfd.callbacks /\ mfd'.work = TRUE
    BY <1>1, <1>3 DEF MfdRec
  <2>2. QED
    BY <1>1, <2>1, FlagsComeIn
<1>4. CASE UNCHANGED mfd
  BY <1>1, <1>4, FlagsComeIn
<1>5. {"wake2", "done", "pgood"} = Event
  BY DEF Event
<1>6. QED
  BY <1>2, <1>3, <1>4, <1>5 DEF Hold, Supply, Charge, Interrupt, IntWorkFails

\* What the work item keeps and what it gives to power.c: all or nothing.
LEMMA WorkDelivers ==
  ASSUME MfdInv, main \in {"charge", "unmask"} \/ Listening
  PROVE  /\ main \in {"charge", "unmask"} => Kept = mfd.flags \cup mfd.pending /\ Delivered = {}
         /\ Listening => Kept = {} /\ Delivered = mfd.flags \cup mfd.pending
<1>1. mfd.flags \subseteq Event /\ mfd.pending \subseteq Event
  BY DEF MfdInv, MfdRec
<1>2. PinMask("power") = Event
  BY DEF PinMask, Event
<1>3. CASE main \in {"charge", "unmask"}
  BY <1>1, <1>3 DEF MfdInv, MaskInv, Kept, Delivered, Listening
<1>4. CASE Listening
  <2>1. mfd.int_mask = {} /\ "power" \in mfd.callbacks
    BY <1>4 DEF MfdInv, MaskInv
  <2>2. main \notin {"charge", "unmask"}
    BY <1>4 DEF Listening
  <2>3. QED
    BY <1>1, <1>2, <2>1, <2>2 DEF Kept, Delivered, Fired
<1>5. QED
  BY <1>3, <1>4

\* The work item
LEMMA IntWorkKeepsMask ==
  ASSUME QueueServed, MfdInv, IntWork
  PROVE  MfdInv'
<1>1. /\ Up /\ wq = "idle" /\ mfd.work /\ main \notin {"register", "boot"}
      /\ UNCHANGED <<main, woke>>
      /\ mfd' = [mfd EXCEPT !.flags = {}, !.pending = Kept, !.work = FALSE]
  BY DEF IntWork, QueueServed
<1>2. PICK kept : kept = Kept
  OBVIOUS
<1>3. kept \subseteq Event /\ mfd \in MfdRec
  BY <1>2 DEF Kept, MfdInv, MfdRec
<1>4. /\ mfd' \in MfdRec /\ mfd'.int_mask = mfd.int_mask /\ mfd'.mask = mfd.mask
      /\ mfd'.flags = {} /\ mfd'.pending = kept /\ mfd'.callbacks = mfd.callbacks
      /\ mfd'.work = FALSE
  BY <1>1, <1>2, <1>3 DEF MfdRec
<1>5. PICK shutdown \in BOOLEAN : shutdown = ("wake2" \in Delivered /\ "booted" \in events)
  OBVIOUS
<1>6. PICK charged \in BOOLEAN : charged = (Delivered \cap {"done", "pgood"} # {})
  OBVIOUS
<1>7. /\ wq' = IF shutdown THEN "hooks" ELSE "idle"
      /\ events' = events \cup (IF "wake2" \in Delivered THEN {"wake2"} ELSE {})
                          \cup (IF charged /\ ~shutdown THEN {"charge"} ELSE {})
  BY <1>5, <1>6 DEF IntWork
<1>8. "booted" \in events' <=> "booted" \in events
  BY <1>7
<1>9. main \in {"drivers", "run"} /\ ~Listening => Delivered = {}
  BY DEF MfdInv, MaskInv, Listening, Delivered
<1>10. MaskInv'
  <2>1. shutdown => main = "run" /\ Listening
    <3>1. shutdown => Delivered # {} /\ "power" \in mfd.callbacks /\ "booted" \in events
      BY <1>5 DEF Delivered
    <3>2. QED
      BY <1>1, <3>1 DEF MfdInv, MaskInv, Listening, Up
  <2>2. Listening => kept = {}
    BY <1>2, WorkDelivers
  <2>3. Listening' <=> Listening
    BY <1>1, <1>4 DEF Listening
  <2>4. wq' # "idle" => main' = "run" /\ "power" \in mfd'.callbacks /\ mfd'.pending = {}
    BY <1>1, <1>4, <1>7, <2>1, <2>2 DEF MfdInv, MaskInv
  <2>5. main' # "off"
    BY <1>1 DEF Up
  <2>6. QED
    BY <1>1, <1>4, <1>8, <2>2, <2>3, <2>4, <2>5 DEF MfdInv, MaskInv
<1>11. Pressed'
  <2> SUFFICES ASSUME woke, main \in Deciding
               PROVE  /\ "wake2" \in events' \cup mfd'.flags \cup mfd'.pending
                      /\ "charge" \in events' => "wake2" \in events'
    BY <1>1 DEF Pressed
  <2>1. /\ "wake2" \in events \cup mfd.flags \cup mfd.pending
        /\ "charge" \in events => "wake2" \in events
    BY DEF MfdInv, Pressed
  <2>2. CASE main = "drivers"
    <3>1. kept = mfd.flags \cup mfd.pending /\ Delivered = {}
      BY <1>2, <1>3, <2>2 DEF Kept, Delivered, MfdInv, MaskInv, MfdRec
    <3>2. QED
      BY <1>4, <1>6, <1>7, <2>1, <3>1
  <2>3. CASE main \in {"charge", "unmask"}
    BY <1>2, <1>4, <1>6, <1>7, <2>1, <2>3, WorkDelivers
  <2>4. CASE main \in {"decide", "wait"}
    <3>1. Delivered = mfd.flags \cup mfd.pending
      BY <2>4, WorkDelivers DEF Listening
    <3>2. "wake2" \in events'
      BY <1>7, <2>1, <3>1
    <3>3. QED
      BY <3>2
  <2>5. QED
    BY <1>1, <2>2, <2>3, <2>4 DEF Deciding
<1>12. QED
  BY <1>4, <1>10, <1>11 DEF MfdInv

\* The drivers start and power.c asks for its events.
LEMMA StartKeepsMask ==
  ASSUME MfdInv, DeviceInit \/ AddCallback \/ InitStatus
  PROVE  MfdInv'
<1>1. UNCHANGED <<events, wq, woke>> /\ mfd \in MfdRec
  BY DEF MfdInv, DeviceInit, AddCallback, InitStatus
<1>2. main \in {"drivers", "charge", "unmask", "register"} => wq = "idle" /\ "booted" \notin events
  BY DEF MfdInv, MaskInv
<1>3. PinMask("charger") = {} /\ PinMask("power") = Event
  BY DEF PinMask, Event
<1>4. CASE DeviceInit
  <2>1. main = "drivers" /\ mfd.int_mask = Event /\ "power" \notin mfd.callbacks
    BY <1>4 DEF DeviceInit, MainGoes, MfdInv, MaskInv
  <2>2. PICK m : m = [mfd EXCEPT !.mask = Event]
    OBVIOUS
  <2>3. /\ m \in MfdRec /\ m.int_mask = Event /\ m.flags = mfd.flags /\ m.pending = mfd.pending
        /\ m.callbacks = mfd.callbacks
    BY <1>1, <2>1, <2>2 DEF MfdRec
  <2>4. CASE main' = "charge" /\ mfd' = Register(Unmask(m, "charger"), "charger")
    <3>1. PICK u : u = Unmask(m, "charger")
      OBVIOUS
    <3>2. u = [m EXCEPT !.int_mask = Event, !.mask = Event, !.work = TRUE]
      BY <1>3, <2>3, <3>1 DEF Unmask, MfdRec
    <3>3. /\ u \in MfdRec /\ u.int_mask = Event /\ u.flags = mfd.flags
          /\ u.pending = mfd.pending /\ u.callbacks = mfd.callbacks
      BY <2>3, <3>2 DEF MfdRec
    <3>4. mfd' = [u EXCEPT !.callbacks = @ \cup {"charger"}]
      BY <2>4, <3>1 DEF Register
    <3>5. /\ mfd' \in MfdRec /\ mfd'.int_mask = Event /\ mfd'.flags = mfd.flags
          /\ mfd'.pending = mfd.pending /\ "power" \notin mfd'.callbacks
      BY <2>1, <3>3, <3>4 DEF MfdRec
    <3>6. QED
      BY <1>1, <1>2, <2>1, <2>4, <3>5 DEF MfdInv, MaskInv, Pressed, Listening, Deciding
  <2>5. CASE main' = "boot" /\ mfd' = m
    BY <1>1, <1>2, <2>1, <2>3, <2>5 DEF MfdInv, MaskInv, Pressed, Listening, Deciding
  <2>6. QED
    BY <1>4, <2>2, <2>4, <2>5 DEF DeviceInit, MainGoes
<1>5. CASE InitStatus
  BY <1>1, <1>2, <1>5 DEF InitStatus, MainGoes, bqVars, MfdInv, MaskInv, Pressed,
     Listening, Deciding
<1>6. CASE AddCallback
  <2>1. CASE main = "unmask" /\ main' = "register" /\ mfd' = Unmask(mfd, "power")
    <3>1. mfd.int_mask = Event /\ "power" \notin mfd.callbacks
      BY <2>1 DEF MfdInv, MaskInv
    <3>2. mfd' = [mfd EXCEPT !.int_mask = {}, !.mask = {}, !.work = TRUE]
      BY <1>1, <1>3, <2>1, <3>1 DEF Unmask, MfdRec
    <3>3. /\ mfd' \in MfdRec /\ mfd'.int_mask = {} /\ mfd'.mask = {} /\ mfd'.flags = mfd.flags
          /\ mfd'.pending = mfd.pending /\ mfd'.callbacks = mfd.callbacks /\ mfd'.work = TRUE
      BY <1>1, <3>2 DEF MfdRec
    <3>4. QED
      BY <1>1, <1>2, <2>1, <3>1, <3>3 DEF MfdInv, MaskInv, Pressed, Listening, Deciding
  <2>2. CASE main = "unmask" /\ main' = "boot" /\ mfd' = UnmaskFails(mfd, "power")
    <3>1. mfd' = [mfd EXCEPT !.int_mask = @ \ Event] /\ "power" \notin mfd.callbacks
      BY <1>3, <2>2 DEF UnmaskFails, MfdInv, MaskInv
    <3>2. mfd' \in MfdRec /\ mfd'.callbacks = mfd.callbacks
      BY <1>1, <3>1 DEF MfdRec
    <3>3. QED
      BY <1>1, <1>2, <2>2, <3>1, <3>2 DEF MfdInv, MaskInv, Pressed, Listening, Deciding
  <2>3. CASE main = "register" /\ main' = "decide" /\ mfd' = Register(mfd, "power")
    <3>1. mfd' = [mfd EXCEPT !.callbacks = @ \cup {"power"}]
      BY <2>3 DEF Register
    <3>2. /\ mfd' \in MfdRec /\ mfd'.int_mask = mfd.int_mask /\ mfd'.mask = mfd.mask
          /\ mfd'.flags = mfd.flags /\ mfd'.pending = mfd.pending
          /\ "power" \in mfd'.callbacks /\ mfd'.work = mfd.work
      BY <1>1, <3>1 DEF MfdRec
    <3>3. QED
      BY <1>1, <1>2, <2>3, <3>2 DEF MfdInv, MaskInv, Pressed, Listening, Deciding
  <2>4. QED
    BY <1>6, <2>1, <2>2, <2>3 DEF AddCallback, MainGoes
<1>7. QED
  BY <1>4, <1>5, <1>6

\* The decision, and what follows it
LEMMA DecisionKeepsMask ==
  ASSUME MfdInv, Decide \/ Wait \/ Boot
  PROVE  MfdInv'
<1>1. UNCHANGED <<mfd, wq, woke>>
  BY DEF Decide, Wait, Boot, bqVars
<1>2. CASE Decide
  <2>1. /\ main = "decide" /\ main' \in {"wait", "boot", "dark"}
        /\ events' = IF main' = "boot" THEN events \cup {"booted"} ELSE events
    BY <1>2 DEF Decide
  <2>2. MaskInv'
    BY <1>1, <2>1 DEF MfdInv, MaskInv, Listening
  <2>3. Pressed'
    BY <1>1, <2>1 DEF MfdInv, Pressed, Deciding
  <2>4. QED
    BY <1>1, <2>2, <2>3 DEF MfdInv
<1>3. CASE Wait
  <2>1. /\ main = "wait" /\ main' \in {"boot", "dark"}
        /\ events' = IF main' = "boot" THEN events \cup {"booted"} ELSE events
    BY <1>3 DEF Wait
  <2>2. MaskInv'
    BY <1>1, <2>1 DEF MfdInv, MaskInv, Listening
  <2>3. Pressed'
    BY <1>1, <2>1 DEF MfdInv, Pressed, Deciding
  <2>4. QED
    BY <1>1, <2>2, <2>3 DEF MfdInv
<1>4. CASE Boot
  BY <1>1, <1>4 DEF Boot, MainGoes, MfdInv, MaskInv, Pressed, Listening, Deciding
<1>5. QED
  BY <1>2, <1>3, <1>4

\* The shutdown, the restarts and the calls of the light
LEMMA RestKeepsMask ==
  ASSUME QueueServed, MfdInv,
         \/ ShutdownHooks \/ OffLight \/ PowerOff \/ LightCalls \/ Pulse
         \/ Wake \/ LeaveShip \/ SoftwareReset \/ UNCHANGED vars
  PROVE  MfdInv'
<1>0. mfd \in MfdRec
  BY DEF MfdInv
<1>1. CASE LightCalls \/ Pulse \/ UNCHANGED vars
  BY <1>1, <1>0, FlagsComeIn DEF LightCalls, Pulse, vars, bqVars, powerVars
<1>2. CASE ShutdownHooks
  BY <1>2 DEF ShutdownHooks, bqVars, MfdInv, MaskInv, Pressed, Listening, Deciding
<1>3. CASE OffLight
  BY <1>3 DEF OffLight, MainGoes, bqVars, MfdInv, MaskInv, Pressed, Listening, Deciding
<1>4. /\ MfdReset \in MfdRec /\ MfdReset.int_mask = Event /\ MfdReset.pending = {}
      /\ "power" \notin MfdReset.callbacks
  BY DEF MfdReset, MfdRec
<1>5. CASE PowerOff
  <2>1. wq' = "idle" /\ woke' = FALSE /\ UNCHANGED events
    BY <1>5 DEF PowerOff
  <2>2. mfd.pending = {}
    <3>1. CASE main = "sleep" /\ TimePasses
      <4>1. mfd.work = FALSE
        BY <3>1 DEF TimePasses, Quiet, QueueServed, MfdInv, MfdRec
      <4>2. QED
        BY <3>1, <4>1 DEF MfdInv, MaskInv, Listening
    <3>2. CASE wq = "sleep"
      BY <3>2 DEF MfdInv, MaskInv
    <3>3. QED
      BY <1>5, <3>1, <3>2 DEF PowerOff
  <2>3. CASE main' = "off" /\ UNCHANGED mfd
    BY <1>0, <2>1, <2>2, <2>3 DEF MfdInv, MaskInv, Pressed, Listening
  <2>4. CASE main' = "ship" /\ mfd' = MfdReset
    BY <1>4, <2>1, <2>4 DEF MfdInv, MaskInv, Pressed, Listening
  <2>5. QED
    BY <1>5, <2>3, <2>4 DEF PowerOff
<1>6. CASE Wake \/ LeaveShip \/ SoftwareReset
  <2>1. PICK cause : Restart(cause)
    BY <1>6 DEF Wake, LeaveShip, SoftwareReset
  <2>2. /\ main' = "drivers" /\ wq' = "idle" /\ events' = {}
        /\ mfd' = [MfdReset EXCEPT !.mask = mfd.mask, !.flags = mfd.flags]
        /\ woke' = (cause = "wake" /\ "wake2" \in mfd.flags)
    BY <2>1 DEF Restart
  <2>3. /\ mfd' \in MfdRec /\ mfd'.int_mask = Event /\ mfd'.flags = mfd.flags
        /\ "power" \notin mfd'.callbacks
    BY <1>0, <1>4, <2>2 DEF MfdRec
  <2>4. MaskInv'
    BY <2>2, <2>3 DEF MaskInv, Listening
  <2>5. Pressed'
    BY <2>2, <2>3 DEF Pressed
  <2>6. QED
    BY <2>3, <2>4, <2>5 DEF MfdInv
<1>7. QED
  BY <1>1, <1>2, <1>3, <1>5, <1>6

\* The invariant holds initially and of every step.
LEMMA MaskIsInvariant ==
  ASSUME QueueServed
  PROVE  /\ Init => MfdInv
         /\ MfdInv /\ [Next]_vars => MfdInv'
<1>1. ASSUME Init PROVE MfdInv
  <2>1. mfd = MfdReset /\ events = {} /\ main = "drivers" /\ wq = "idle" /\ woke = FALSE
    BY <1>1 DEF Init
  <2>2. QED
    BY <2>1 DEF MfdReset, MfdRec, MfdInv, MaskInv, Pressed, Listening
<1>2. ASSUME MfdInv, [Next]_vars PROVE MfdInv'
  BY <1>2, WorldKeepsMask, IntWorkKeepsMask, StartKeepsMask, DecisionKeepsMask, RestKeepsMask
     DEF Next, Main
<1>3. QED
  BY <1>1, <1>2

\* When the work queue is served within the 100 ms that power_init() waits and
\* the main thread is not held up, a device that its button woke does not switch
\* itself off again before it has started (power.c:184-190).
THEOREM ButtonIsNotForgotten == QueueServed => (Spec => ButtonWakes)
<1> SUFFICES ASSUME QueueServed PROVE Spec => ButtonWakes
  OBVIOUS
<1>1. ASSUME MfdInv, [Next]_vars PROVE [MainGoes("wait", "dark") => ~woke]_vars
  <2> SUFFICES ASSUME MainGoes("wait", "dark"), woke, Next PROVE FALSE
    BY <1>1
  <2>1. main = "wait" /\ main' = "dark"
    BY DEF MainGoes
  <2>2. Wait
    <3>1. ~(\/ Interrupt \/ IntWork \/ IntWorkFails \/ ShutdownHooks \/ Hold \/ Supply
            \/ Charge \/ LightCalls \/ Pulse \/ OffLight)
      BY <2>1 DEF Interrupt, IntWork, IntWorkFails, ShutdownHooks, Hold, Supply, Charge,
         LightCalls, Pulse, OffLight, MainGoes, powerVars
    <3>2. ~(PowerOff \/ Wake \/ LeaveShip \/ SoftwareReset)
      BY <2>1 DEF PowerOff, Wake, LeaveShip, SoftwareReset, Restart
    <3>3. ~(DeviceInit \/ InitStatus \/ AddCallback \/ Decide \/ Boot)
      BY <2>1 DEF DeviceInit, InitStatus, AddCallback, Decide, Boot, MainGoes
    <3>4. QED
      BY <3>1, <3>2, <3>3 DEF Next, Main
  <2>3. "wake2" \notin events
    BY <2>1, <2>2 DEF Wait
  <2>4. /\ "wake2" \in mfd.flags \cup mfd.pending
        /\ "charge" \notin events
    BY <1>1, <2>1, <2>3 DEF MfdInv, Pressed, Deciding
  <2>5. Quiet
    BY <2>2, <2>3, <2>4 DEF Wait, TimePasses, QueueServed
  <2>6. mfd.flags = {} /\ mfd.pending = {}
    BY <1>1, <2>1, <2>5 DEF Quiet, MfdInv, MaskInv, Listening
  <2>7. QED
    BY <2>4, <2>6
<1>2. QED
  BY <1>1, MaskIsInvariant, PTL DEF Spec, ButtonWakes

-----------------------------------------------------------------------------
(***************************************************************************)
(* What the light knows of the charge.                                     *)
(***************************************************************************)
ChargerRec == [vin : BOOLEAN, charge : {"cc", "cv", "done"}]

\* power.c has told the light what it knows, and has its callback or will get it.
Informed == main \in {"unmask", "register", "off"} \/ Listening

\* The light tells the state of the charge, or the event that changed it is on its
\* way, or was lost with a transfer.
Fresh ==
  Informed =>
    \/ led.battery = Status(charger)
    \/ stale = TRUE
    \/ (mfd.flags \cup mfd.pending) \cap {"done", "pgood"} # {}

FreshInv ==
  /\ node \in {"audio", "central"} /\ led \in LedRec
  /\ charger \in ChargerRec /\ stale \in BOOLEAN
  /\ Fresh

\* Only what the charger says changes what the light remembers of it.
LEMMA UpdateKeepsBattery ==
  ASSUME node \in {"audio", "central"}, NEW new \in LedRec, led_update(new)
  PROVE  led' \in LedRec /\ led'.battery = new.battery
<1>1. PatternOf(new) \in Pattern
  BY DEF PatternOf, IdlePattern, Pattern
<1>2. led' = [new EXCEPT !.pattern = PatternOf(new)]
  BY DEF led_update, led_set_pattern
<1>3. QED
  BY <1>1, <1>2 DEF LedRec

LEMMA CallsKeepBattery ==
  ASSUME node \in {"audio", "central"}, led \in LedRec,
         \/ led_boot \/ led_record_stopped \/ led_shutdown
         \/ led_record_waiting \/ led_record_started \/ led_record_sync
         \/ led_sync_started \/ led_sync_terminated \/ UNCHANGED led
  PROVE  led' \in LedRec /\ led'.battery = led.battery
<1>1. CASE UNCHANGED led \/ led_record_sync
  BY <1>1 DEF led_record_sync
<1>2. CASE led_boot
  BY <1>2 DEF led_boot, led_set_pattern, LedRec, Pattern
<1>3. CASE led_shutdown
  <2>1. PICK new : new = [led EXCEPT !.power = "off"]
    OBVIOUS
  <2>2. new \in LedRec /\ new.battery = led.battery
    BY <2>1, LedRecords
  <2>3. QED
    BY <1>3, <2>1, <2>2, UpdateKeepsBattery DEF led_shutdown
<1>4. ASSUME NEW r \in {"waiting", "running", "idle"}, led_update([led EXCEPT !.record = r])
      PROVE  led' \in LedRec /\ led'.battery = led.battery
  <2>1. PICK new : new = [led EXCEPT !.record = r]
    OBVIOUS
  <2>2. new \in LedRec /\ new.battery = led.battery
    BY <2>1, LedRecords
  <2>3. QED
    BY <1>4, <2>1, <2>2, UpdateKeepsBattery
<1>5. ASSUME NEW s \in BOOLEAN, led_update([led EXCEPT !.synced = s])
      PROVE  led' \in LedRec /\ led'.battery = led.battery
  <2>1. PICK new : new = [led EXCEPT !.synced = s]
    OBVIOUS
  <2>2. new \in LedRec /\ new.battery = led.battery
    BY <2>1, LedRecords
  <2>3. QED
    BY <1>5, <2>1, <2>2, UpdateKeepsBattery
<1>6. QED
  BY <1>1, <1>2, <1>3, <1>4, <1>5 DEF led_record_stopped, led_record_waiting,
     led_record_started, led_sync_started, led_sync_terminated

\* After the charger was asked the light is right, or is known not to be.
LEMMA StatusIsTold ==
  ASSUME FreshInv, power_update_charge_status
  PROVE  /\ led' \in LedRec /\ stale' \in BOOLEAN
         /\ led'.battery = Status(charger) \/ stale' = TRUE
<1>1. CASE led_battery(Status(charger)) /\ stale' = FALSE
  <2>1. PICK b \in {"discharging", "charging", "full"} : b = Status(charger)
    BY DEF Status
  <2>2. PICK new : new = [led EXCEPT !.battery = b]
    OBVIOUS
  <2>3. new \in LedRec /\ new.battery = b
    BY <2>2, LedRecords DEF FreshInv
  <2>4. QED
    BY <1>1, <2>1, <2>2, <2>3, UpdateKeepsBattery DEF led_battery, FreshInv
<1>2. CASE stale' = TRUE /\ UNCHANGED ledVars
  BY <1>2 DEF FreshInv, ledVars
<1>3. QED
  BY <1>1, <1>2 DEF power_update_charge_status

\* Steps after which the light is as right as it was
LEMMA StaysFresh ==
  ASSUME FreshInv, UNCHANGED <<node, charger>>, led' \in LedRec, led'.battery = led.battery,
         stale' = stale, Informed' => Informed,
         mfd'.flags \cup mfd'.pending = mfd.flags \cup mfd.pending
  PROVE  FreshInv'
<1>1. Status(charger') = Status(charger)
  OBVIOUS
<1>2. Fresh'
  BY <1>1 DEF FreshInv, Fresh
<1>3. QED
  BY <1>2 DEF FreshInv

\* The charger changes its state with a flag, but for what the light does not tell
\* apart.
LEMMA WorldKeepsFresh ==
  ASSUME "recharge" \notin Faults, MfdInv, FreshInv,
         Hold \/ Supply \/ Charge \/ Interrupt \/ IntWorkFails
  PROVE  FreshInv'
<1>1. UNCHANGED <<node, led, stale, main>> /\ mfd \in MfdRec /\ charger \in ChargerRec
  BY DEF MfdInv, FreshInv, Hold, Supply, Charge, Interrupt, IntWorkFails, powerVars, ledVars
<1>2. CASE Interrupt \/ IntWorkFails
  <2>1. mfd' = [mfd EXCEPT !.work = TRUE] /\ UNCHANGED charger
    BY <1>2 DEF Interrupt, IntWorkFails
  <2>2. mfd'.flags = mfd.flags /\ mfd'.pending = mfd.pending /\ mfd'.callbacks = mfd.callbacks
    BY <1>1, <2>1 DEF MfdRec
  <2>3. QED
    BY <1>1, <2>1, <2>2, StaysFresh DEF Informed, Listening, FreshInv
<1>3. CASE Hold
  <2>1. mfd' = [mfd EXCEPT !.flags = @ \cup {"wake2"}] /\ UNCHANGED charger
    BY <1>3 DEF Hold
  <2>2. mfd'.flags = mfd.flags \cup {"wake2"} /\ mfd'.pending = mfd.pending
        /\ mfd'.callbacks = mfd.callbacks
    BY <1>1, <2>1 DEF MfdRec
  <2>3. Informed' <=> Informed
    BY <1>1, <2>2 DEF Informed, Listening
  <2>4. Fresh'
    BY <1>1, <2>1, <2>2, <2>3 DEF FreshInv, Fresh
  <2>5. QED
    BY <1>1, <2>1, <2>4 DEF FreshInv
<1>4. CASE Supply
  <2>1. charger' = [vin |-> ~charger.vin, charge |-> "cc"]
    BY <1>4 DEF Supply
  <2>2. charger' \in ChargerRec
    <3>1. PICK v \in BOOLEAN : v = ~charger.vin
      OBVIOUS
    <3>2. charger' = [vin |-> v, charge |-> "cc"]
      BY <2>1, <3>1, Zenon
    <3>3. QED
      BY <3>2 DEF ChargerRec
  <2>3. CASE main = "ship"
    BY <1>1, <2>2, <2>3 DEF FreshInv, Fresh, Informed, Listening
  <2>4. CASE main # "ship"
    <3>1. mfd' = [mfd EXCEPT !.flags = @ \cup {"pgood"}]
      BY <1>4, <2>4 DEF Supply
    <3>2. "pgood" \in mfd'.flags
      BY <1>1, <3>1 DEF MfdRec
    <3>3. QED
      BY <1>1, <2>2, <3>2 DEF FreshInv, Fresh
  <2>5. QED
    BY <2>3, <2>4
<1>5. CASE Charge
  <2>1. charger.vin = TRUE
    BY <1>1, <1>5 DEF Charge, ChargerRec
  <2>2. CASE charger.charge = "cc" /\ charger' = [charger EXCEPT !.charge = "cv"] /\ UNCHANGED mfd
    <3>1. charger' \in ChargerRec /\ charger'.vin = TRUE /\ charger'.charge = "cv"
      BY <1>1, <2>1, <2>2 DEF ChargerRec
    <3>2. Status(charger') = Status(charger)
      BY <2>1, <2>2, <3>1 DEF Status
    <3>3. Fresh'
      BY <1>1, <2>2, <3>2 DEF FreshInv, Fresh, Informed, Listening
    <3>4. QED
      BY <1>1, <3>1, <3>3 DEF FreshInv
  <2>3. CASE /\ charger.charge = "cv" /\ charger' = [charger EXCEPT !.charge = "done"]
             /\ mfd' = [mfd EXCEPT !.flags = @ \cup {"done"}]
    <3>1. charger' \in ChargerRec /\ "done" \in mfd'.flags
      BY <1>1, <2>3 DEF ChargerRec, MfdRec
    <3>2. QED
      BY <1>1, <3>1 DEF FreshInv, Fresh
  <2>4. QED
    BY <1>5, <2>2, <2>3 DEF Charge
<1>6. QED
  BY <1>2, <1>3, <1>4, <1>5

\* The work item tells the light of each event of the charge that it clears.
LEMMA IntWorkKeepsFresh ==
  ASSUME QueueServed, MfdInv, FreshInv, IntWork
  PROVE  FreshInv'
<1>1. /\ Up /\ main \notin {"register", "boot"} /\ UNCHANGED <<node, charger, main>>
      /\ mfd' = [mfd EXCEPT !.flags = {}, !.pending = Kept, !.work = FALSE]
  BY DEF IntWork, QueueServed
<1>2. PICK kept : kept = Kept
  OBVIOUS
<1>3. mfd \in MfdRec
  BY DEF MfdInv
<1>4. mfd'.flags = {} /\ mfd'.pending = kept /\ mfd'.callbacks = mfd.callbacks
  BY <1>1, <1>2, <1>3 DEF MfdRec
<1>5. PICK shutdown \in BOOLEAN : shutdown = ("wake2" \in Delivered /\ "booted" \in events)
  OBVIOUS
<1>6. PICK charged \in BOOLEAN : charged = (Delivered \cap {"done", "pgood"} # {})
  OBVIOUS
<1>7. IF charged /\ ~shutdown THEN power_update_charge_status
      ELSE stale' = (stale \/ charged) /\ UNCHANGED ledVars
  BY <1>5, <1>6 DEF IntWork
<1>8. Status(charger') = Status(charger) /\ Informed' = Informed
  BY <1>1, <1>4 DEF Informed, Listening
<1>9. CASE charged /\ ~shutdown
  <2>1. led' \in LedRec /\ stale' \in BOOLEAN /\ (led'.battery = Status(charger) \/ stale' = TRUE)
    BY <1>7, <1>9, StatusIsTold
  <2>2. QED
    BY <1>1, <1>8, <2>1 DEF FreshInv, Fresh
<1>10. CASE ~(charged /\ ~shutdown)
  <2>1. led' = led /\ stale' = (stale \/ charged)
    BY <1>7, <1>10 DEF ledVars
  <2>2. stale' \in BOOLEAN /\ (charged => stale' = TRUE) /\ (stale = TRUE => stale' = TRUE)
    BY <2>1 DEF FreshInv
  <2>3. CASE charged
    BY <1>1, <2>1, <2>2, <2>3 DEF FreshInv, Fresh
  <2>4. CASE ~charged /\ Informed
    <3>1. \/ led.battery = Status(charger) \/ stale = TRUE
          \/ (mfd.flags \cup mfd.pending) \cap {"done", "pgood"} # {}
      BY <2>4 DEF FreshInv, Fresh
    <3>2. main = "unmask" \/ Listening
      BY <1>1, <2>4 DEF Informed, Up
    <3>3. Listening => ~((mfd.flags \cup mfd.pending) \cap {"done", "pgood"} # {})
      BY <1>6, <2>4, WorkDelivers
    <3>4. main = "unmask" => mfd'.flags \cup mfd'.pending = mfd.flags \cup mfd.pending
      BY <1>2, <1>4, WorkDelivers
    <3>5. Fresh'
      BY <1>8, <2>1, <2>2, <3>1, <3>2, <3>3, <3>4 DEF Fresh
    <3>6. QED
      BY <1>1, <2>1, <2>2, <3>5 DEF FreshInv
  <2>5. CASE ~Informed
    BY <1>1, <1>8, <2>1, <2>2, <2>5 DEF FreshInv, Fresh
  <2>6. QED
    BY <2>3, <2>4, <2>5
<1>11. QED
  BY <1>9, <1>10

\* The main thread
LEMMA MainKeepsFresh ==
  ASSUME MfdInv, FreshInv, Main
  PROVE  FreshInv'
<1>1. led \in LedRec /\ node \in {"audio", "central"} /\ mfd \in MfdRec
  BY DEF FreshInv, MfdInv
<1>2. CASE DeviceInit
  <2>1. main = "drivers" /\ UNCHANGED <<node, led, charger, stale>>
        /\ main' \in {"charge", "boot"}
    BY <1>2 DEF DeviceInit, MainGoes, ledVars
  <2>2. "power" \notin mfd.callbacks
    BY <2>1 DEF MfdInv, MaskInv
  <2>3. main' = "boot" => mfd'.callbacks = mfd.callbacks
    BY <1>1, <1>2 DEF DeviceInit, MainGoes, MfdRec
  <2>4. ~Informed'
    BY <2>1, <2>2, <2>3 DEF Informed, Listening
  <2>5. QED
    BY <2>1, <2>4 DEF FreshInv, Fresh
<1>3. CASE InitStatus
  <2>1. power_update_charge_status /\ UNCHANGED <<node, charger, mfd>>
    BY <1>3 DEF InitStatus, bqVars
  <2>2. led' \in LedRec /\ stale' \in BOOLEAN /\ (led'.battery = Status(charger) \/ stale' = TRUE)
    BY <2>1, StatusIsTold
  <2>3. QED
    BY <2>1, <2>2 DEF FreshInv, Fresh
<1>4. CASE AddCallback
  <2>1. UNCHANGED <<node, led, charger, stale>>
    BY <1>4 DEF AddCallback, ledVars
  <2>2. CASE main = "unmask" /\ main' = "register" /\ mfd' = Unmask(mfd, "power")
    <3>1. mfd'.flags = mfd.flags /\ mfd'.pending = mfd.pending
      BY <1>1, <2>2 DEF Unmask, MfdRec
    <3>2. QED
      BY <1>1, <2>1, <2>2, <3>1, StaysFresh DEF Informed
  <2>3. CASE main = "unmask" /\ main' = "boot" /\ mfd' = UnmaskFails(mfd, "power")
    <3>1. "power" \notin mfd'.callbacks
      BY <1>1, <2>3 DEF UnmaskFails, MfdRec, MfdInv, MaskInv
    <3>2. ~Informed'
      BY <2>3, <3>1 DEF Informed, Listening
    <3>3. QED
      BY <2>1, <3>2 DEF FreshInv, Fresh
  <2>4. CASE main = "register" /\ main' = "decide" /\ mfd' = Register(mfd, "power")
    <3>1. mfd'.flags = mfd.flags /\ mfd'.pending = mfd.pending
      BY <1>1, <2>4 DEF Register, MfdRec
    <3>2. QED
      BY <1>1, <2>1, <2>4, <3>1, StaysFresh DEF Informed
  <2>5. QED
    BY <1>4, <2>2, <2>3, <2>4 DEF AddCallback, MainGoes
<1>5. CASE Decide
  <2>1. main = "decide" /\ UNCHANGED <<node, led, charger, mfd, stale>>
    BY <1>5 DEF Decide, ledVars, bqVars
  <2>2. QED
    BY <1>1, <2>1, StaysFresh DEF Informed, Listening
<1>6. CASE Wait
  <2>1. main = "wait" /\ UNCHANGED <<node, led, charger, mfd, stale>>
    BY <1>6 DEF Wait, ledVars, bqVars
  <2>2. QED
    BY <1>1, <2>1, StaysFresh DEF Informed, Listening
<1>7. CASE Boot
  <2>1. main = "boot" /\ main' = "run" /\ UNCHANGED <<node, charger, mfd, stale>> /\ led_boot
    BY <1>7 DEF Boot, MainGoes, bqVars
  <2>2. led' \in LedRec /\ led'.battery = led.battery
    BY <1>1, <2>1, CallsKeepBattery
  <2>3. Informed' => Informed
    BY <2>1 DEF Informed, Listening
  <2>4. QED
    BY <2>1, <2>2, <2>3, StaysFresh
<1>8. QED
  BY <1>2, <1>3, <1>4, <1>5, <1>6, <1>7 DEF Main

\* The shutdown, the restarts and the calls of the light
LEMMA RestKeepsFresh ==
  ASSUME MfdInv, FreshInv,
         \/ ShutdownHooks \/ OffLight \/ PowerOff \/ LightCalls \/ Pulse
         \/ Wake \/ LeaveShip \/ SoftwareReset \/ UNCHANGED vars
  PROVE  FreshInv'
<1>1. led \in LedRec /\ node \in {"audio", "central"}
  BY DEF FreshInv
<1>2. CASE ShutdownHooks \/ LightCalls \/ Pulse \/ UNCHANGED vars
  <2>1. UNCHANGED <<node, charger, mfd, main, stale>>
    BY <1>2 DEF ShutdownHooks, LightCalls, Pulse, vars, bqVars, powerVars
  <2>2. led' \in LedRec /\ led'.battery = led.battery
    BY <1>1, <1>2, CallsKeepBattery DEF ShutdownHooks, LightCalls, Pulse,
       led_record_sync_work_handler, vars, ledVars
  <2>3. Informed' => Informed
    BY <2>1 DEF Informed, Listening
  <2>4. QED
    BY <2>1, <2>2, <2>3, StaysFresh
<1>3. CASE OffLight
  <2>1. UNCHANGED <<node, charger, mfd, stale>> /\ led_shutdown
        /\ ((main = "dark" /\ main' = "sleep") \/ main' = main)
    BY <1>3 DEF OffLight, MainGoes, bqVars
  <2>2. led' \in LedRec /\ led'.battery = led.battery
    BY <1>1, <2>1, CallsKeepBattery
  <2>3. Informed' => Informed
    BY <2>1 DEF Informed, Listening
  <2>4. QED
    BY <2>1, <2>2, <2>3, StaysFresh
<1>4. CASE PowerOff
  <2>1. UNCHANGED <<node, charger>>
    BY <1>4 DEF PowerOff
  <2>2. CASE main' = "off" /\ UNCHANGED <<ledVars, mfd, stale>>
    <3>1. Informed
      <4>1. CASE main = "sleep"
        BY <4>1 DEF Informed, Listening
      <4>2. CASE wq = "sleep"
        BY <4>2 DEF Informed, Listening, MfdInv, MaskInv
      <4>3. QED
        BY <1>4, <4>1, <4>2 DEF PowerOff
    <3>2. QED
      BY <1>1, <2>1, <2>2, <3>1, StaysFresh DEF ledVars
  <2>3. CASE main' = "ship" /\ LedReboot /\ stale' = FALSE
    <3>1. ~Informed'
      BY <2>3 DEF Informed, Listening
    <3>2. led' \in LedRec
      BY <1>1, <2>3, ResetIsDark DEF LedReboot
    <3>3. QED
      BY <2>1, <2>3, <3>1, <3>2 DEF FreshInv, Fresh
  <2>4. QED
    BY <1>4, <2>2, <2>3 DEF PowerOff
<1>5. CASE Wake \/ LeaveShip \/ SoftwareReset
  <2>1. main' = "drivers" /\ LedReboot /\ stale' = FALSE /\ UNCHANGED <<node, charger>>
    BY <1>5 DEF Wake, LeaveShip, SoftwareReset, Restart
  <2>2. ~Informed'
    BY <2>1 DEF Informed, Listening
  <2>3. led' \in LedRec
    BY <1>1, <2>1, ResetIsDark DEF LedReboot
  <2>4. QED
    BY <2>1, <2>2, <2>3 DEF FreshInv, Fresh
<1>6. QED
  BY <1>2, <1>3, <1>4, <1>5

\* When the charger does not start again by itself (it raises no flag then) and
\* the work queue is served in time, a sleeping device shows the state of the
\* charge unless an event of it is flagged, which wakes it, or could not be read
\* (power.c:49-63).
THEOREM SleeperShowsTheCharge ==
  QueueServed /\ "recharge" \notin Faults => (Spec => []SleepingLightIsCurrent)
<1> SUFFICES ASSUME QueueServed, "recharge" \notin Faults
             PROVE  Spec => []SleepingLightIsCurrent
  OBVIOUS
<1>1. Init => FreshInv
  <2> SUFFICES ASSUME Init PROVE FreshInv
    OBVIOUS
  <2>1. /\ node \in {"audio", "central"} /\ led = LedReset /\ main = "drivers" /\ stale = FALSE
        /\ charger \in [vin : BOOLEAN, charge : {"cc"}]
    BY DEF Init, LedInit
  <2>2. charger \in ChargerRec
    BY <2>1 DEF ChargerRec
  <2>3. QED
    BY <2>1, <2>2, ResetIsDark DEF FreshInv, Fresh, Informed, Listening
<1>2. MfdInv /\ FreshInv /\ [Next]_vars => FreshInv'
  BY WorldKeepsFresh, IntWorkKeepsFresh, MainKeepsFresh, RestKeepsFresh DEF Next
<1>3. MfdInv /\ FreshInv => SleepingLightIsCurrent
  <2> SUFFICES ASSUME MfdInv, FreshInv, main = "off", ~stale,
                      mfd.flags \cap {"done", "pgood"} = {}
               PROVE  led.battery = Status(charger)
    BY DEF SleepingLightIsCurrent
  <2>1. mfd.pending = {}
    BY DEF MfdInv, MaskInv
  <2>2. QED
    BY <2>1 DEF FreshInv, Fresh, Informed
<1>4. QED
  BY <1>1, <1>2, <1>3, MaskIsInvariant, PTL DEF Spec

=============================================================================
