------------------------ MODULE ControlPanelProofs ------------------------
(***************************************************************************)
(* Proofs about ControlPanel, for any number of boards, channels and names *)
(* and any failures: the panels show what the camera has wherever it has   *)
(* been heard of, and the internal triggers that are set are those of the  *)
(* configuration file.                                                     *)
(***************************************************************************)
EXTENDS ControlPanel, SequenceTheorems, TLAPS

(* The actions of the user and the incidents, apart from the trigger mode. *)
Settings ==
  \/ analog_power_select \/ dual_sata_select \/ Cancel
  \/ \E code \in Code : test_pattern_select(code)

Entries ==
  \/ \E f \in {"hv", "temp", "offset"}, v \in Value : TypeIn(f, v)
  \/ set_offset \/ detTemp_set \/ hv_set \/ HVButtonFails
  \/ \E v \in Value : callight_change(v) \/ clocksource_change(v)

Modes ==
  (\E m \in Mode : trigmode_change(m)) \/ (\E c \in Configs : EditConfig(c))

LEMMA NextSteps ==
  Next <=> Connecting \/ Updating \/ Triggering \/ Settings \/ Entries \/ Modes \/ APDCAM_reset \/ CameraRestart
  BY DEF Next, Settings, Entries, Modes

-----------------------------------------------------------------------------
(* The types of the camera.                                                *)

LEMMA Constants ==
  /\ 0 \in Value /\ 1 \in Value /\ Value \subseteq Nat /\ 0 \in Code /\ Code \subseteq Nat
  /\ MaxLevel \in Nat /\ Byte \in Nat /\ Byte # 0 /\ MaxClicks \in Nat /\ 1 \in Board
  BY PanelAssumption DEF Board

LEMMA SetType ==
  ASSUME NEW c \in Camera, NEW f \in Field, NEW v \in Nat
  PROVE  /\ [c EXCEPT !.set[f] = v] \in Camera
         /\ [c EXCEPT !.set[f] = v].set = [c.set EXCEPT ![f] = v]
         /\ [c EXCEPT !.set[f] = v].power = c.power
         /\ [c EXCEPT !.set[f] = v].sata = c.sata
         /\ [c EXCEPT !.set[f] = v].pattern = c.pattern
         /\ [c EXCEPT !.set[f] = v].trig = c.trig
  BY DEF Camera

LEMMA PowerType ==
  ASSUME NEW c \in Camera, NEW v \in {0, 1}
  PROVE  /\ [c EXCEPT !.power = v] \in Camera /\ [c EXCEPT !.power = v].power = v
         /\ [c EXCEPT !.power = v].set = c.set /\ [c EXCEPT !.power = v].sata = c.sata
         /\ [c EXCEPT !.power = v].pattern = c.pattern /\ [c EXCEPT !.power = v].trig = c.trig
  BY DEF Camera

LEMMA SataType ==
  ASSUME NEW c \in Camera, NEW v \in {0, 1}
  PROVE  /\ [c EXCEPT !.sata = v] \in Camera /\ [c EXCEPT !.sata = v].sata = v
         /\ [c EXCEPT !.sata = v].set = c.set /\ [c EXCEPT !.sata = v].power = c.power
         /\ [c EXCEPT !.sata = v].pattern = c.pattern /\ [c EXCEPT !.sata = v].trig = c.trig
  BY DEF Camera

LEMMA PatternType ==
  ASSUME NEW c \in Camera, NEW p \in [Board -> Code]
  PROVE  /\ [c EXCEPT !.pattern = p] \in Camera /\ [c EXCEPT !.pattern = p].pattern = p
         /\ [c EXCEPT !.pattern = p].set = c.set /\ [c EXCEPT !.pattern = p].power = c.power
         /\ [c EXCEPT !.pattern = p].sata = c.sata /\ [c EXCEPT !.pattern = p].trig = c.trig
  BY DEF Camera

LEMMA TrigType ==
  ASSUME NEW c \in Camera, NEW t \in [Fitted -> Trigger]
  PROVE  /\ [c EXCEPT !.trig = t] \in Camera /\ [c EXCEPT !.trig = t].trig = t
         /\ [c EXCEPT !.trig = t].set = c.set /\ [c EXCEPT !.trig = t].power = c.power
         /\ [c EXCEPT !.trig = t].sata = c.sata /\ [c EXCEPT !.trig = t].pattern = c.pattern
  BY DEF Camera

LEMMA OneTrigType ==
  ASSUME NEW c \in Camera, NEW ch \in Fitted, NEW t \in Trigger
  PROVE  /\ [c EXCEPT !.trig[ch] = t] \in Camera
         /\ [c EXCEPT !.trig[ch] = t].trig = [c.trig EXCEPT ![ch] = t]
         /\ [c EXCEPT !.trig[ch] = t].set = c.set /\ [c EXCEPT !.trig[ch] = t].power = c.power
         /\ [c EXCEPT !.trig[ch] = t].sata = c.sata /\ [c EXCEPT !.trig[ch] = t].pattern = c.pattern
  BY DEF Camera

LEMMA OffType == TriggerOff \in Trigger /\ [TriggerOff EXCEPT !.enable = TRUE] \in Trigger
  <1>1. 0 \in 0..MaxLevel
    BY Constants
  <1>2. QED
    BY <1>1 DEF TriggerOff, Trigger

LEMMA DefaultType == ASSUME NEW s \in {0, 1} PROVE Default(s) \in Camera
  BY Constants, OffType DEF Default, Camera

LEMMA AdcResetType ==
  ASSUME cam \in Camera
  PROVE  AdcReset \in Camera /\ CardsReset \in Camera
  <1>1. /\ Default(0).pattern \in [Board -> Code] /\ Default(0).trig \in [Fitted -> Trigger]
    BY DefaultType DEF Camera
  <1>2. AdcReset \in Camera
    BY <1>1, Constants DEF AdcReset, Camera, Field
  <1>3. AdcReset.set \in [Field -> Nat]
    BY <1>2 DEF Camera
  <1>4. [f \in Field |-> IF f = "clock" THEN AdcReset.set[f] ELSE 0] \in [Field -> Nat]
    BY <1>3
  <1>5. CardsReset \in Camera
    BY <1>2, <1>4 DEF CardsReset, Camera
  <1>6. QED
    BY <1>2, <1>5

(* What the panel makes of a count, and the camera of a voltage: less than *)
(* one count apart.                                                        *)
LEMMA VoltsType ==
  ASSUME NEW n \in Nat PROVE Volts(n) \in Nat /\ 10 * Volts(n) - 12 * n \in -4..11
  BY DEF Volts

LEMMA CountsType ==
  ASSUME NEW t \in Nat PROVE Counts(t) \in Nat /\ 10 * t - 12 * Counts(t) \in -4..11
  BY DEF Counts

LEMMA EnteredType ==
  ASSUME NEW f \in Field, field[f] \in Nat
  PROVE  (IF f = "hv" THEN Counts(field[f]) ELSE field[f]) \in Nat
  BY CountsType

LEMMA SettingType ==
  ASSUME NEW e \in Entry, e.level \in 0..MaxLevel PROVE Setting(e) \in Trigger
  <1>1. MaxLevel - e.level \in 0..MaxLevel
    BY Constants
  <1>2. e.enable \in BOOLEAN
    BY DEF Entry
  <1>3. QED
    BY <1>1, <1>2 DEF Setting, Trigger

(* A voltage is read as a number, and as itself if it is small.            *)
LEMMA ReadingType ==
  ASSUME NEW v \in Nat
  PROVE  HVReading(v) \in Nat /\ (v < Byte => HVReading(v) = v)
  <1>1. Byte \in Nat /\ Byte > 0
    BY Constants
  <1>2. v % Byte \in Nat /\ v \div Byte \in Nat
    BY <1>1
  <1>3. ASSUME NEW a \in Nat, NEW b \in Nat PROVE a * b \in Nat
    OBVIOUS
  <1>4. (v \div Byte) * (Byte - 1) \in Nat
    <2>1. Byte - 1 \in Nat
      BY <1>1
    <2>2. QED
      BY <1>2, <1>3, <2>1
  <1>5. ASSUME v < Byte PROVE v % Byte = v /\ v \div Byte = 0
    BY <1>1, <1>5
  <1>6. v < Byte => HVReading(v) = v
    BY <1>1, <1>5 DEF HVReading
  <1>7. QED
    BY <1>2, <1>4, <1>6 DEF HVReading

-----------------------------------------------------------------------------
(* Types.                                                                  *)

LEMMA TypeInit == Init => TypeOK
  <1> SUFFICES ASSUME Init PROVE TypeOK
    OBVIOUS
  <1>1. cam \in Camera
    <2>1. CASE cam = Default(0)
      BY <2>1, DefaultType
    <2>2. ASSUME NEW p \in [Board -> Code], NEW v \in Value,
                 cam = [Default(1) EXCEPT !.power = 1, !.pattern = p, !.set = [f \in Field |-> v],
                          !.trig = [c \in Fitted |-> [TriggerOff EXCEPT !.enable = TRUE]]]
          PROVE  cam \in Camera
      <3>1. Default(1) \in Camera /\ v \in Nat
        BY DefaultType, Constants
      <3>2. QED
        BY <2>2, <3>1, OffType DEF Camera
    <2>3. QED
      BY <2>1, <2>2 DEF Init
  <1>2. Len(Names) \in Nat /\ 1 \in 1..(Len(Names) + 1)
    BY PanelAssumption
  <1>3. clicks \in 0..MaxClicks
    <2>1. clicks = 0
      BY DEF Init
    <2>2. QED
      BY <2>1, Constants
  <1>4. QED
    BY <1>1, <1>2, <1>3, Constants DEF Init, TypeOK, Mode, Place, Items, ToggleStates, Toggle

LEMMA ClickType == ASSUME TypeOK, clicks < MaxClicks, clicks' = clicks + 1 PROVE clicks' \in 0..MaxClicks
  <1>1. clicks \in 0..MaxClicks
    BY DEF TypeOK
  <1>2. QED
    BY <1>1, Constants

(* What a toggle may be set to.                                            *)
Settable(t) == IF t = "pattern" THEN Code ELSE {0, 1}

LEMMA ShowType ==
  ASSUME TypeOK, NEW t \in Toggle, NEW v \in Settable(t), Show(t, v)
  PROVE  state' \in ToggleStates /\ shown' \in ToggleStates
  BY DEF Show, TypeOK, ToggleStates, Settable, Toggle

LEMMA RevertType ==
  ASSUME TypeOK, NEW t \in Toggle, Revert(t)
  PROVE  state' \in ToggleStates /\ shown' \in ToggleStates
  BY DEF Revert, TypeOK, ToggleStates, Toggle

LEMMA ItemTypes == Field \subseteq Items /\ Toggle \subseteq Items /\ "trigger" \in Items
                   /\ {"hv", "temp", "offset", "light", "clock"} \subseteq Field
                   /\ {"power", "sata", "pattern"} \subseteq Toggle
  BY DEF Items, Field, Toggle

LEMMA SetClockType ==
  ASSUME TypeOK, field' \in [Field -> Nat], SetClock
  PROVE  cam' \in Camera /\ doubt' \subseteq Items
  <1>1. field'["clock"] \in Nat /\ cam \in Camera /\ "clock" \in Field
    BY ItemTypes DEF TypeOK
  <1>2. [cam EXCEPT !.set["clock"] = field'["clock"]] \in Camera
    BY <1>1, SetType
  <1>3. QED
    BY <1>1, <1>2, ItemTypes DEF SetClock, Heard, Unsure, MayWrite, TypeOK

LEMMA ConnectingType == ASSUME TypeOK, Connecting PROVE TypeOK'
  <1> USE ItemTypes, ClickType DEF TypeOK, Place, panel, conn, trig, Click, Heard, Unsure
  <1>1. CASE APDCAM_on
    BY <1>1 DEF APDCAM_on
  <1>2. CASE ReadStatus
    <2>1. cam.set["hv"] \in Nat /\ cam.set["temp"] \in Nat
      BY DEF Camera
    <2>2. Volts(HVReading(cam.set["hv"])) \in Nat
      BY <2>1, ReadingType, VoltsType
    <2>3. field' \in [Field -> Nat]
      BY <1>2, <2>1, <2>2 DEF ReadStatus
    <2>4. QED
      BY <1>2, <2>3 DEF ReadStatus
  <1>3. CASE ApplyClock
    BY <1>3, SetClockType DEF ApplyClock
  <1>4. CASE ReadOffsets
    BY <1>4 DEF ReadOffsets, Camera
  <1>5. CASE ReadLight
    BY <1>5 DEF ReadLight, Camera
  <1>6. CASE APDCAM_off
    BY <1>6 DEF APDCAM_off
  <1>7. QED
    BY <1>1, <1>2, <1>3, <1>4, <1>5, <1>6 DEF Connecting

LEMMA UpdatingType == ASSUME TypeOK, Updating PROVE TypeOK'
  <1> USE ItemTypes DEF TypeOK, Place, panel, conn, trig, Heard
  <1>0. cam.power \in {0, 1} /\ cam.sata \in {0, 1} /\ cam.pattern[1] \in Code
    BY Constants DEF Camera, Settable
  <1>1. CASE UpdateFails
    BY <1>1 DEF UpdateFails
  <1>2. CASE UpdatePower
    BY <1>0, <1>2, ShowType DEF UpdatePower, Settable
  <1>3. CASE UpdateSata
    BY <1>0, <1>3, ShowType DEF UpdateSata, Settable
  <1>4. CASE UpdatePattern
    BY <1>0, <1>4, ShowType DEF UpdatePattern, Settable
  <1>5. QED
    BY <1>1, <1>2, <1>3, <1>4 DEF Updating

(* A toggle of the settings panel, with what an error may have written.    *)
LEMMA SelectType ==
  ASSUME TypeOK, NEW t \in Toggle, NEW v \in Settable(t), NEW written \in Camera,
         NEW partly \in SUBSET Camera, Select(t, v, written, partly)
  PROVE  TypeOK'
  <1>1. state' \in ToggleStates /\ shown' \in ToggleStates
    BY ShowType, RevertType DEF Select
  <1>2. clicks' \in 0..MaxClicks
    BY ClickType DEF Select, Click
  <1>3. cam' \in Camera /\ doubt' \subseteq Items
    BY ItemTypes DEF Select, TypeOK, Heard, Unsure
  <1>4. QED
    BY <1>1, <1>2, <1>3 DEF Select, TypeOK, conn, trig

LEMMA SettingsType == ASSUME TypeOK, Settings PROVE TypeOK'
  <1>0. cam \in Camera /\ state["power"] \in {0, 1} /\ state["sata"] \in {0, 1}
    BY DEF TypeOK, ToggleStates
  <1>1. CASE analog_power_select
    <2> DEFINE v == 1 - state["power"]
    <2>1. v \in Settable("power")
      BY <1>0 DEF Settable
    <2>2. [cam EXCEPT !.power = v] \in Camera
      BY <1>0, <2>1, PowerType DEF Settable
    <2>3. QED
      BY <1>0, <1>1, <2>1, <2>2, SelectType, ItemTypes DEF analog_power_select
  <1>2. CASE dual_sata_select
    <2> DEFINE v == 1 - state["sata"]
    <2>1. v \in Settable("sata")
      BY <1>0 DEF Settable
    <2>2. [cam EXCEPT !.sata = v] \in Camera
      BY <1>0, <2>1, SataType DEF Settable
    <2>3. CASE Select("sata", v, [cam EXCEPT !.sata = v], {cam, [cam EXCEPT !.sata = v]})
      BY <1>0, <2>1, <2>2, <2>3, SelectType, ItemTypes
    <2>4. CASE /\ Click /\ Show("sata", v) /\ Unsure("sata")
               /\ UNCHANGED <<cam, lockLost, reg, connected, field, warned, trig, pc>>
      <3>1. state' \in ToggleStates /\ shown' \in ToggleStates
        BY <2>1, <2>4, ShowType, ItemTypes
      <3>2. QED
        BY <2>4, <3>1, ClickType, ItemTypes DEF Click, Unsure, TypeOK, trig
    <2>5. CASE /\ Click /\ cam' \in {cam, [cam EXCEPT !.sata = v]} /\ lockLost' = TRUE /\ Unsure("sata")
               /\ shown' = [shown EXCEPT !["sata"] = 1 - @]
               /\ UNCHANGED <<state, reg, connected, field, warned, trig, pc>>
      <3>1. shown' \in ToggleStates
        BY <2>5 DEF TypeOK, ToggleStates, Toggle
      <3>2. QED
        BY <1>0, <2>2, <2>5, <3>1, ClickType, ItemTypes DEF Click, Unsure, TypeOK, trig
    <2>6. QED
      BY <1>2, <2>3, <2>4, <2>5 DEF dual_sata_select, MayWrite
  <1>3. CASE Cancel
    BY <1>3, RevertType, ClickType, ItemTypes DEF Cancel, Click, TypeOK, conn, trig
  <1>4. ASSUME NEW code \in Code, test_pattern_select(code) PROVE TypeOK'
    <2> DEFINE written == [cam EXCEPT !.pattern = [b \in Board |-> code]]
               partly  == {[cam EXCEPT !.pattern = [b \in Board |-> IF b <= n THEN code ELSE @[b]]] :
                             n \in Board \cup {0}}
    <2>1. written \in Camera /\ code \in Settable("pattern")
      BY <1>0, PatternType DEF Settable
    <2>2. ASSUME NEW n \in Board \cup {0}
          PROVE  [cam EXCEPT !.pattern = [b \in Board |-> IF b <= n THEN code ELSE @[b]]] \in Camera
      <3>1. [b \in Board |-> IF b <= n THEN code ELSE cam.pattern[b]] \in [Board -> Code]
        BY <1>0 DEF Camera
      <3>2. QED
        BY <1>0, <3>1 DEF Camera
    <2>3. partly \in SUBSET Camera
      BY <2>2
    <2>4. QED
      BY <1>4, <2>1, <2>3, SelectType, ItemTypes DEF test_pattern_select
  <1>5. QED
    BY <1>1, <1>2, <1>3, <1>4 DEF Settings

LEMMA EntriesType == ASSUME TypeOK, Entries PROVE TypeOK'
  <1> USE ItemTypes, ClickType
      DEF TypeOK, panel, conn, trig, Click, Heard, Unsure, commErrorResponse, MayWrite
  <1>0. ASSUME NEW f \in Field PROVE Entered(f) \in Camera
    <2>1. (IF f = "hv" THEN Counts(field[f]) ELSE field[f]) \in Nat
      BY EnteredType
    <2>2. QED
      BY <2>1, SetType DEF Entered
  <1>1. ASSUME NEW f \in {"hv", "temp", "offset"}, NEW v \in Value, TypeIn(f, v) PROVE TypeOK'
    BY <1>1, Constants DEF TypeIn
  <1>2. CASE set_offset
    BY <1>0, <1>2 DEF set_offset, NotANumber
  <1>3. CASE detTemp_set
    BY <1>0, <1>3 DEF detTemp_set, NotANumber
  <1>4. CASE hv_set
    <2>1. [cam EXCEPT !.set["hv"] = 0] \in Camera
      BY SetType
    <2>2. cam' \in Camera
      BY <1>0, <1>4, <2>1 DEF hv_set
    <2>3. doubt' \subseteq Items /\ connected' \in BOOLEAN /\ lockLost' \in BOOLEAN /\ reg' \in BOOLEAN
      BY <1>4 DEF hv_set
    <2>4. QED
      BY <1>4, <2>2, <2>3 DEF hv_set
  <1>5. CASE HVButtonFails
    BY <1>5 DEF HVButtonFails
  <1>6. ASSUME NEW v \in Value, callight_change(v) PROVE TypeOK'
    <2>1. [cam EXCEPT !.set["light"] = v] \in Camera
      BY SetType, Constants
    <2>2. QED
      BY <1>6, <2>1, Constants DEF callight_change
  <1>7. ASSUME NEW v \in Value, clocksource_change(v) PROVE TypeOK'
    <2>1. field' \in [Field -> Nat]
      BY <1>7, Constants DEF clocksource_change
    <2>2. cam' \in Camera /\ doubt' \subseteq Items
      BY <1>7, <2>1, SetClockType DEF clocksource_change
    <2>3. QED
      BY <1>7, <2>1, <2>2 DEF clocksource_change
  <1>8. QED
    BY <1>1, <1>2, <1>3, <1>4, <1>5, <1>6, <1>7 DEF Entries

(* The entry of a name, if it is well-formed.                              *)
LEMMA EntryType ==
  ASSUME TypeOK, InSet
  PROVE  /\ next \in DOMAIN Names /\ next + 1 \in 1..(Len(Names) + 1)
         /\ entry \in Entry \cup {NoEntry, Invalid}
         /\ channel_map[Names[next]] \in Channel
  <1>1. next \in 1..(Len(Names) + 1) /\ next <= Len(Names) /\ Len(Names) \in Nat
    BY PanelAssumption DEF TypeOK, InSet
  <1>2. next \in DOMAIN Names
    BY <1>1, PanelAssumption
  <1>3. config \in Configs
    BY DEF TypeOK
  <1>4. QED
    BY <1>1, <1>2, <1>3, PanelAssumption DEF entry

LEMMA TriggeringType == ASSUME TypeOK, Triggering \/ Modes PROVE TypeOK'
  <1>0. Len(Names) \in Nat /\ 1 \in 1..(Len(Names) + 1)
    BY PanelAssumption
  <1> USE <1>0, ItemTypes, ClickType
      DEF TypeOK, panel, conn, trig, Click, Heard, Unsure, MayWrite, Keep, Refused, Place, Mode
  <1>1. CASE clearAllInternalTrigger
    <2>1. ASSUME NEW S \in SUBSET Fitted PROVE Cleared(S) \in Camera
      <3>1. [c \in Fitted |-> IF c \in S THEN TriggerOff ELSE cam.trig[c]] \in [Fitted -> Trigger]
        BY OffType DEF Camera
      <3>2. QED
        BY <3>1 DEF Cleared, Camera
    <2>2. cam' \in Camera
      BY <1>1, <2>1 DEF clearAllInternalTrigger
    <2>3. QED
      BY <1>1, <2>2 DEF clearAllInternalTrigger
  <1>2. CASE NoSetting
    BY <1>2, EntryType DEF NoSetting
  <1>3. CASE BadEntry
    BY <1>3 DEF BadEntry
  <1>4. CASE EntryRaises
    BY <1>4 DEF EntryRaises
  <1>5. CASE setInternalTrigger
    <2>1. entry \in Entry /\ entry.level \in 0..MaxLevel
      BY <1>5, EntryType DEF setInternalTrigger
    <2>2. [cam EXCEPT !.trig[channel_map[Names[next]]] = Setting(entry)] \in Camera
      BY <1>5, <2>1, EntryType, SettingType, OneTrigType DEF setInternalTrigger
    <2>3. cam' \in Camera
      BY <1>5, <2>2 DEF setInternalTrigger, entry
    <2>4. next' \in 1..(Len(Names) + 1) /\ mode' \in Mode /\ last' \in Mode /\ pc' \in Place
          /\ doubt' \subseteq Items
      BY <1>5, EntryType DEF setInternalTrigger
    <2>5. QED
      BY <1>5, <2>3, <2>4 DEF setInternalTrigger
  <1>6. CASE TriggersSet
    BY <1>6 DEF TriggersSet
  <1>7. ASSUME NEW m \in Mode, trigmode_change(m) PROVE TypeOK'
    BY <1>7 DEF trigmode_change
  <1>8. ASSUME NEW c \in Configs, EditConfig(c) PROVE TypeOK'
    BY <1>8 DEF EditConfig
  <1>9. QED
    BY <1>1, <1>2, <1>3, <1>4, <1>5, <1>6, <1>7, <1>8 DEF Triggering, Modes

LEMMA IncidentType == ASSUME TypeOK, APDCAM_reset \/ CameraRestart PROVE TypeOK'
  <1>1. cam \in Camera /\ cam.sata \in {0, 1}
    BY DEF TypeOK, Camera
  <1>2. /\ Default(cam.sata) \in Camera /\ Default(0) \in Camera
        /\ AdcReset \in Camera /\ CardsReset \in Camera
    BY <1>1, DefaultType, AdcResetType
  <1>3. cam' \in Camera
    BY <1>1, <1>2 DEF APDCAM_reset, CameraRestart
  <1>4. clicks' \in 0..MaxClicks
    BY ClickType DEF APDCAM_reset, CameraRestart, Click
  <1>5. QED
    BY <1>3, <1>4 DEF APDCAM_reset, CameraRestart, Click, TypeOK, panel, conn, trig, Place

LEMMA TypeStep == TypeOK /\ [Next]_vars => TypeOK'
  <1>1. TypeOK /\ UNCHANGED vars => TypeOK'
    BY DEF TypeOK, vars, panel, conn, trig
  <1>2. QED
    BY <1>1, NextSteps, ConnectingType, UpdatingType, TriggeringType, SettingsType, EntriesType, IncidentType

(* For any boards, channels, names and configuration files every variable  *)
(* keeps its type.                                                         *)
THEOREM TypeCorrect == Spec => []TypeOK
  BY TypeInit, TypeStep, PTL DEF Spec

-----------------------------------------------------------------------------
(* What is shown. It is true wherever the main thread is, connected or     *)
(* not.                                                                    *)

ShownInv ==
  /\ \A t \in Toggle \ doubt : shown[t] = state[t]
  /\ \A f \in Field \ doubt : Agrees(f)
  /\ "power" \notin doubt => state["power"] = cam.power
  /\ "sata" \notin doubt => state["sata"] = cam.sata
  /\ "pattern" \notin doubt => warned \/ \A b \in Board : cam.pattern[b] = state["pattern"]

(* When the status is read, nothing has been heard of the camera yet.      *)
StatusInv == pc = "status" => doubt = Items

LEMMA StatusStep == StatusInv /\ [Next]_vars => StatusInv'
  <1> SUFFICES ASSUME StatusInv, [Next]_vars PROVE StatusInv'
    OBVIOUS
  <1> USE DEF StatusInv
  <1>1. CASE Connecting
    BY <1>1 DEF Connecting, APDCAM_on, ReadStatus, ApplyClock, ReadOffsets, ReadLight, APDCAM_off, Click
  <1>2. CASE Updating
    BY <1>2 DEF Updating, UpdateFails, UpdatePower, UpdateSata, UpdatePattern, Toggle
  <1>3. CASE Triggering
    BY <1>3 DEF Triggering, clearAllInternalTrigger, NoSetting, BadEntry, EntryRaises,
       setInternalTrigger, TriggersSet, InSet, Refused, Keep
  <1>4. CASE Settings
    BY <1>4 DEF Settings, analog_power_select, dual_sata_select, Cancel, test_pattern_select, Select, Click
  <1>5. CASE Entries
    BY <1>5 DEF Entries, TypeIn, set_offset, detTemp_set, hv_set, HVButtonFails, callight_change,
       clocksource_change, Click
  <1>6. CASE Modes
    BY <1>6 DEF Modes, trigmode_change, EditConfig, Click, Keep, Refused
  <1>7. CASE APDCAM_reset \/ CameraRestart
    BY <1>7 DEF APDCAM_reset, CameraRestart
  <1>8. CASE UNCHANGED vars
    BY <1>8 DEF vars
  <1>9. QED
    BY <1>1, <1>2, <1>3, <1>4, <1>5, <1>6, <1>7, <1>8, NextSteps

LEMMA ShownInit == Init => ShownInv
  BY ItemTypes DEF Init, ShownInv

(* Neither the fields, the toggles nor their settings change.              *)
LEMMA ShownKept ==
  ASSUME ShownInv, UNCHANGED <<field, state, shown, warned>>, doubt \ {"trigger"} \subseteq doubt',
         cam'.set = cam.set, cam'.power = cam.power, cam'.sata = cam.sata, cam'.pattern = cam.pattern
  PROVE  ShownInv'
  BY ItemTypes DEF ShownInv, Field, Toggle, Agrees

(* The camera may have changed in any way.                                 *)
LEMMA ShownInDoubt ==
  ASSUME doubt' = Items PROVE ShownInv'
  BY ItemTypes DEF ShownInv

(* One setting of the camera and one field.                                *)
LEMMA ShownField ==
  ASSUME ShownInv, TypeOK, UNCHANGED <<state, shown, warned>>, NEW f \in Field,
         \A g \in Field : g # f => field'[g] = field[g] /\ cam'.set[g] = cam.set[g],
         cam'.power = cam.power, cam'.sata = cam.sata, cam'.pattern = cam.pattern,
         doubt' = doubt \cup {f} \/ (doubt' = doubt \ {f} /\ Agrees(f)')
  PROVE  ShownInv'
  <1>1. ASSUME NEW g \in Field \ doubt' PROVE Agrees(g)'
    BY <1>1 DEF ShownInv, Agrees
  <1>2. f \notin Toggle
    BY DEF Field, Toggle
  <1>3. {"power", "sata", "pattern"} = Toggle
    BY DEF Toggle
  <1>4. QED
    BY <1>1, <1>2, <1>3 DEF ShownInv

LEMMA SetClockField ==
  ASSUME ShownInv, TypeOK, SetClock, UNCHANGED <<state, shown, warned>>,
         \A g \in Field : g # "clock" => field'[g] = field[g], field'["clock"] \in Nat
  PROVE  ShownInv' /\ cam'.trig = cam.trig
  <1> DEFINE written == [cam EXCEPT !.set["clock"] = field'["clock"]]
  <1>1. cam \in Camera /\ "clock" \in Field
    BY ItemTypes DEF TypeOK
  <1>2. /\ written.set = [cam.set EXCEPT !["clock"] = field'["clock"]] /\ written.power = cam.power
        /\ written.sata = cam.sata /\ written.pattern = cam.pattern /\ written.trig = cam.trig
    BY <1>1, SetType
  <1>3. cam' = written \/ cam' = cam
    BY DEF SetClock, MayWrite
  <1>4. doubt' = doubt \cup {"clock"} \/ (doubt' = doubt \ {"clock"} /\ cam' = written)
    BY DEF SetClock, Heard, Unsure
  <1>5. cam.set \in [Field -> Nat]
    BY <1>1 DEF Camera
  <1>6. \A g \in Field : g # "clock" => cam'.set[g] = cam.set[g]
    BY <1>2, <1>3, <1>5
  <1>7. cam' = written => field'["clock"] = cam'.set["clock"]
    BY <1>1, <1>2, <1>5
  <1>8. cam'.power = cam.power /\ cam'.sata = cam.sata /\ cam'.pattern = cam.pattern /\ cam'.trig = cam.trig
    BY <1>2, <1>3
  <1>9. cam' = written => Agrees("clock")'
    BY <1>7 DEF Agrees
  <1>10. QED
    BY <1>1, <1>4, <1>6, <1>8, <1>9, ShownField

LEMMA ConnectingShown ==
  ASSUME TypeOK, ShownInv, StatusInv, Connecting PROVE ShownInv' /\ cam'.trig = cam.trig
  <1>1. CASE APDCAM_on
    BY <1>1, ShownInDoubt, ShownKept DEF APDCAM_on, panel
  <1>2. CASE ReadStatus
    <2>1. cam.set["hv"] \in Nat
      BY ItemTypes DEF TypeOK, Camera
    <2>2. cam.set["hv"] < Byte => HVReading(cam.set["hv"]) = cam.set["hv"]
      BY <2>1, ReadingType
    <2>a. LET n == cam.set["hv"] IN 10 * Volts(n) - 12 * n \in -4..11
      BY <2>1, VoltsType
    <2>3. field \in [Field -> Nat]
      BY DEF TypeOK
    <2>4. CASE connected' = FALSE /\ UNCHANGED <<field, doubt>>
      BY <1>2, <2>4, ShownKept DEF ReadStatus
    <2>5. CASE /\ field' = [field EXCEPT !["hv"] = Volts(HVReading(cam.set["hv"])), !["temp"] = cam.set["temp"]]
               /\ doubt' = doubt \ (IF cam.set["hv"] < Byte THEN {"hv", "temp"} ELSE {"temp"})
      <3>0. /\ cam' = cam /\ field'["hv"] = Volts(HVReading(cam.set["hv"])) /\ field'["temp"] = cam.set["temp"]
            /\ \A f \in Field \ {"hv", "temp"} : field'[f] = field[f]
        BY <1>2, <2>3, <2>5, ItemTypes DEF ReadStatus
      <3>1. ASSUME NEW f \in Field \ doubt' PROVE Agrees(f)'
        <4>1. CASE f = "hv" /\ cam.set["hv"] < Byte
          BY <2>2, <2>a, <3>0, <4>1 DEF Agrees
        <4>2. CASE f = "hv" /\ ~(cam.set["hv"] < Byte)
          BY <1>2, <2>5, <3>1, <4>2, ItemTypes DEF StatusInv, ReadStatus
        <4>3. CASE f = "temp"
          BY <3>0, <4>3 DEF Agrees
        <4>4. CASE f \notin {"hv", "temp"}
          BY <2>5, <3>0, <3>1, <4>4 DEF ShownInv, Agrees
        <4>5. QED
          BY <4>1, <4>2, <4>3, <4>4
      <3>2. UNCHANGED <<state, shown, warned>> /\ Toggle \ doubt' = Toggle \ doubt
        BY <1>2, <2>5 DEF ReadStatus, Toggle
      <3>3. QED
        BY <2>5, <3>0, <3>1, <3>2, ItemTypes DEF ShownInv, Toggle
    <2>6. QED
      BY <1>2, <2>4, <2>5 DEF ReadStatus
  <1>3. CASE ApplyClock
    BY <1>3, SetClockField, ItemTypes DEF ApplyClock, TypeOK
  <1>4. CASE ReadOffsets
    BY <1>4, ShownKept, ShownField, ItemTypes DEF ReadOffsets, Heard, TypeOK, Agrees
  <1>5. CASE ReadLight
    BY <1>5, ShownKept, ShownField, ItemTypes DEF ReadLight, Heard, TypeOK, Agrees
  <1>6. CASE APDCAM_off
    BY <1>6, ShownKept DEF APDCAM_off, panel
  <1>7. QED
    BY <1>1, <1>2, <1>3, <1>4, <1>5, <1>6 DEF Connecting

(* A toggle shows what the camera has.                                     *)
LEMMA ShownToggle ==
  ASSUME TypeOK, ShownInv, NEW t \in Toggle, NEW v, Show(t, v), Heard(t), UNCHANGED field,
         cam'.set = cam.set,
         t # "pattern" => warned' = warned /\ cam'.pattern = cam.pattern,
         t # "power" => cam'.power = cam.power,
         t # "sata" => cam'.sata = cam.sata,
         t = "power" => cam'.power = v,
         t = "sata" => cam'.sata = v,
         t = "pattern" => warned' \/ \A b \in Board : cam'.pattern[b] = v
  PROVE  ShownInv'
  <1>1. state \in [Toggle -> Code \cup {0, 1}] /\ shown \in [Toggle -> Code \cup {0, 1}]
    BY DEF TypeOK, ToggleStates
  <1>2. /\ state'[t] = v /\ shown'[t] = v
        /\ \A u \in Toggle : u # t => state'[u] = state[u] /\ shown'[u] = shown[u]
    BY <1>1 DEF Show
  <1>3. \A u \in Toggle \ doubt' : shown'[u] = state'[u]
    BY <1>2 DEF Heard, ShownInv
  <1>4. \A f \in Field \ doubt' : Agrees(f)'
    BY DEF Heard, ShownInv, Agrees, Field, Toggle
  <1>5. QED
    BY <1>2, <1>3, <1>4, ItemTypes DEF ShownInv, Heard

LEMMA UpdatingShown ==
  ASSUME TypeOK, ShownInv, Updating PROVE ShownInv' /\ cam'.trig = cam.trig
  <1>1. CASE UpdateFails
    BY <1>1, ShownKept DEF UpdateFails, panel
  <1>2. CASE UpdatePower
    BY <1>2, ShownToggle, ItemTypes DEF UpdatePower
  <1>3. CASE UpdateSata
    BY <1>3, ShownToggle, ItemTypes DEF UpdateSata
  <1>4. CASE UpdatePattern
    <2>1. warned' \/ \A b \in Board : cam'.pattern[b] = cam.pattern[1]
      BY <1>4 DEF UpdatePattern
    <2>2. QED
      BY <1>4, <2>1, ShownToggle, ItemTypes DEF UpdatePattern
  <1>5. QED
    BY <1>1, <1>2, <1>3, <1>4 DEF Updating

(* A toggle that goes back to what was believed; of the camera nothing but *)
(* its setting may have changed, which is in doubt then.                   *)
LEMMA ShownReverted ==
  ASSUME TypeOK, ShownInv, NEW t \in Toggle, Revert(t), UNCHANGED <<field, warned>>,
         doubt \subseteq doubt', cam' = cam \/ t \in doubt', cam'.set = cam.set,
         t # "power" => cam'.power = cam.power,
         t # "sata" => cam'.sata = cam.sata,
         t # "pattern" => cam'.pattern = cam.pattern
  PROVE  ShownInv'
  <1>1. shown \in [Toggle -> Code \cup {0, 1}]
    BY DEF TypeOK, ToggleStates
  <1>2. \A u \in Toggle \ doubt' : shown'[u] = state'[u]
    BY <1>1 DEF Revert, ShownInv
  <1>3. \A f \in Field \ doubt' : Agrees(f)'
    BY DEF ShownInv, Agrees
  <1>4. state' = state
    BY DEF Revert
  <1>5. QED
    BY <1>2, <1>3, <1>4, ItemTypes DEF ShownInv, Toggle

(* A toggle without a connection, after success, or after an error.        *)
LEMMA SelectShown ==
  ASSUME TypeOK, ShownInv, NEW t \in Toggle, NEW v, NEW written, NEW partly,
         Select(t, v, written, partly),
         \A c \in partly \cup {written} :
           /\ c.set = cam.set
           /\ t # "power" => c.power = cam.power
           /\ t # "sata" => c.sata = cam.sata
           /\ t # "pattern" => c.pattern = cam.pattern,
         t = "power" => written.power = v,
         t = "sata" => written.sata = v,
         t = "pattern" => \A b \in Board : written.pattern[b] = v
  PROVE  ShownInv'
  <1>0. state \in [Toggle -> Code \cup {0, 1}] /\ shown \in [Toggle -> Code \cup {0, 1}]
    BY DEF TypeOK, ToggleStates
  <1>1. CASE Revert(t) /\ UNCHANGED <<cam, doubt>>
    BY <1>0, <1>1, ShownReverted DEF Select
  <1>2. CASE cam' = written /\ Show(t, v) /\ Heard(t)
    BY <1>2, ShownToggle DEF Select
  <1>3. CASE cam' \in partly /\ Revert(t) /\ Unsure(t)
    BY <1>0, <1>3, ShownReverted DEF Select, Unsure
  <1>4. QED
    BY <1>1, <1>2, <1>3 DEF Select

LEMMA SelectTrig ==
  ASSUME TypeOK, NEW t, NEW v, NEW written, NEW partly, Select(t, v, written, partly),
         \A c \in partly \cup {written} : c.trig = cam.trig
  PROVE  cam'.trig = cam.trig
  BY DEF Select

LEMMA SettingsShown ==
  ASSUME TypeOK, ShownInv, Settings PROVE ShownInv' /\ cam'.trig = cam.trig
  <1>0. cam \in Camera /\ state \in [Toggle -> Code \cup {0, 1}]
        /\ state["power"] \in {0, 1} /\ state["sata"] \in {0, 1}
    BY DEF TypeOK, ToggleStates
  <1>1. CASE analog_power_select
    <2> DEFINE v == 1 - state["power"]
               written == [cam EXCEPT !.power = v]
    <2>1. v \in {0, 1} /\ Select("power", v, written, {cam, written})
      BY <1>0, <1>1 DEF analog_power_select
    <2>2. /\ written.power = v /\ written.set = cam.set /\ written.sata = cam.sata
          /\ written.pattern = cam.pattern /\ written.trig = cam.trig
      BY <1>0, <2>1, PowerType
    <2> HIDE DEF v, written
    <2>3. \A c \in {cam, written} \cup {written} : c.trig = cam.trig
      BY <2>2
    <2>4. ShownInv'
      BY <2>1, <2>2, SelectShown, ItemTypes
    <2>5. QED
      BY <2>1, <2>3, <2>4, SelectTrig
  <1>2. CASE dual_sata_select
    <2> DEFINE v == 1 - state["sata"]
               written == [cam EXCEPT !.sata = v]
    <2>1. v \in {0, 1}
      BY <1>0
    <2>2. /\ written.sata = v /\ written.set = cam.set /\ written.power = cam.power
          /\ written.pattern = cam.pattern /\ written.trig = cam.trig
      BY <1>0, <2>1, SataType
    <2>3. CASE Select("sata", v, written, {cam, written})
      <3> HIDE DEF v, written
      <3>1. \A c \in {cam, written} \cup {written} : c.trig = cam.trig
        BY <2>2
      <3>2. ShownInv'
        BY <2>2, <2>3, SelectShown, ItemTypes
      <3>3. QED
        BY <2>3, <3>1, <3>2, SelectTrig
    <2>4. CASE /\ cam' \in {cam, written} /\ Unsure("sata") /\ UNCHANGED <<field, warned>>
               /\ \/ Show("sata", v)
                  \/ shown' = [shown EXCEPT !["sata"] = 1 - @] /\ UNCHANGED state
      <3>1. \A t \in Toggle : t # "sata" => state'[t] = state[t] /\ shown'[t] = shown[t]
        BY <1>0, <2>4 DEF Show, TypeOK, ToggleStates
      <3>2. /\ cam'.set = cam.set /\ cam'.power = cam.power /\ cam'.pattern = cam.pattern
            /\ cam'.trig = cam.trig
        BY <2>2, <2>4
      <3>3. \A f \in Field \ doubt' : Agrees(f)'
        BY <2>4, <3>2 DEF Unsure, ShownInv, Agrees
      <3>4. \A t \in Toggle \ doubt' : shown'[t] = state'[t]
        BY <2>4, <3>1 DEF Unsure, ShownInv
      <3>5. QED
        BY <2>4, <3>1, <3>2, <3>3, <3>4, ItemTypes DEF Unsure, ShownInv
    <2>5. QED
      BY <1>2, <2>3, <2>4 DEF dual_sata_select, MayWrite
  <1>3. CASE Cancel
    BY <1>3, ShownReverted, ItemTypes DEF Cancel
  <1>4. ASSUME NEW code \in Code, test_pattern_select(code) PROVE ShownInv' /\ cam'.trig = cam.trig
    <2> DEFINE written == [cam EXCEPT !.pattern = [b \in Board |-> code]]
               partly  == {[cam EXCEPT !.pattern = [b \in Board |-> IF b <= n THEN code ELSE @[b]]] :
                             n \in Board \cup {0}}
    <2>1. Select("pattern", code, written, partly)
      BY <1>4 DEF test_pattern_select
    <2>2. \A c \in partly \cup {written} :
            c.set = cam.set /\ c.power = cam.power /\ c.sata = cam.sata /\ c.trig = cam.trig
      BY <1>0 DEF Camera
    <2>3. \A b \in Board : written.pattern[b] = code
      BY <1>0 DEF Camera
    <2> HIDE DEF written, partly
    <2>4. ShownInv'
      BY <2>1, <2>2, <2>3, SelectShown, ItemTypes
    <2>5. \A c \in partly \cup {written} : c.trig = cam.trig
      BY <2>2
    <2>6. QED
      BY <2>1, <2>4, <2>5, SelectTrig
  <1>5. QED
    BY <1>1, <1>2, <1>3, <1>4 DEF Settings

LEMMA EntriesShown ==
  ASSUME TypeOK, ShownInv, Entries PROVE ShownInv' /\ cam'.trig = cam.trig
  <1>0. cam \in Camera /\ field \in [Field -> Nat] /\ cam.set \in [Field -> Nat]
    BY DEF TypeOK, Camera
  <1>a. ASSUME NEW f \in Field, NEW v \in Nat, NEW written, written = [cam EXCEPT !.set[f] = v],
               cam' \in {cam, written}, UNCHANGED <<state, shown, warned>>,
               \A g \in Field : g # f => field'[g] = field[g],
               \/ doubt' = doubt \cup {f}
               \/ /\ doubt' = doubt \ {f} /\ cam' = written
                  /\ IF f = "hv" THEN 10 * field'[f] - 12 * v \in -4..11 ELSE field'[f] = v
        PROVE  ShownInv' /\ cam'.trig = cam.trig
    <2>1. /\ written.set = [cam.set EXCEPT ![f] = v] /\ written.power = cam.power
          /\ written.sata = cam.sata /\ written.pattern = cam.pattern /\ written.trig = cam.trig
      BY <1>0, <1>a, SetType
    <2>2. \A g \in Field : g # f => field'[g] = field[g] /\ cam'.set[g] = cam.set[g]
      <3>1. \A g \in Field : g # f => written.set[g] = cam.set[g]
        BY <1>0, <2>1
      <3>2. QED
        BY <1>a, <3>1
    <2>3. cam' = written => cam'.set[f] = v
      BY <1>0, <1>a, <2>1
    <2>4. cam'.power = cam.power /\ cam'.sata = cam.sata /\ cam'.pattern = cam.pattern
          /\ cam'.trig = cam.trig
      BY <1>a, <2>1
    <2>5. cam' = written /\ (IF f = "hv" THEN 10 * field'[f] - 12 * v \in -4..11 ELSE field'[f] = v)
            => Agrees(f)'
      BY <2>3 DEF Agrees
    <2>6. QED
      BY <1>a, <2>2, <2>4, <2>5, ShownField
  <1> USE ItemTypes, Constants DEF Heard, Unsure, MayWrite, panel, Entered
  <1>1. ASSUME NEW f \in {"hv", "temp", "offset"}, NEW v \in Value, TypeIn(f, v)
        PROVE  ShownInv' /\ cam'.trig = cam.trig
    <2>1. v \in Nat /\ f \in Field
      OBVIOUS
    <2>2. QED
      BY <1>0, <1>1, ShownField DEF TypeIn
  <1>2. CASE set_offset
    <2>1. field["offset"] \in Nat
      BY <1>0
    <2>2. QED
      BY <1>2, <1>a, <2>1, ShownKept DEF set_offset, NotANumber
  <1>3. CASE detTemp_set
    <2>1. field["temp"] \in Nat
      BY <1>0
    <2>2. QED
      BY <1>3, <1>a, <2>1, ShownKept DEF detTemp_set, NotANumber
  <1>4. CASE hv_set
    <2>1. /\ field["hv"] \in Nat /\ Counts(field["hv"]) \in Nat
          /\ LET t == field["hv"] IN 10 * t - 12 * Counts(t) \in -4..11
      BY <1>0, CountsType
    <2>2. CASE lockLost' = TRUE /\ UNCHANGED <<cam, doubt>>
      BY <1>4, <2>2, ShownKept DEF hv_set
    <2>3. CASE cam' = [cam EXCEPT !.set["hv"] = 0] /\ doubt' = doubt \cup {"hv"}
      BY <1>4, <1>a, <2>3 DEF hv_set
    <2>4. CASE \/ cam' = Entered("hv") /\ Heard("hv")
               \/ MayWrite(Entered("hv")) /\ Unsure("hv")
      BY <1>4, <1>a, <2>1, <2>4 DEF hv_set
    <2>5. QED
      BY <1>4, <2>2, <2>3, <2>4 DEF hv_set
  <1>5. CASE HVButtonFails
    BY <1>5, ShownKept DEF HVButtonFails
  <1>6. ASSUME NEW v \in Value, callight_change(v) PROVE ShownInv' /\ cam'.trig = cam.trig
    <2>1. v \in Nat /\ field'["light"] = v
      BY <1>0, <1>6 DEF callight_change
    <2>2. QED
      BY <1>0, <1>6, <1>a, <2>1 DEF callight_change
  <1>7. ASSUME NEW v \in Value, clocksource_change(v) PROVE ShownInv' /\ cam'.trig = cam.trig
    <2>1. v \in Nat /\ field'["clock"] = v /\ \A g \in Field : g # "clock" => field'[g] = field[g]
      BY <1>0, <1>7 DEF clocksource_change
    <2>2. CASE SetClock
      BY <1>7, <2>1, <2>2, SetClockField DEF clocksource_change
    <2>3. CASE Unsure("clock") /\ UNCHANGED cam
      BY <1>7, <1>a, <2>1, <2>3 DEF clocksource_change
    <2>4. QED
      BY <1>7, <2>2, <2>3 DEF clocksource_change
  <1>8. QED
    BY <1>1, <1>2, <1>3, <1>4, <1>5, <1>6, <1>7 DEF Entries

(* Setting triggers changes nothing that is shown.                         *)
LEMMA TriggeringShown == ASSUME TypeOK, ShownInv, Triggering \/ Modes PROVE ShownInv'
  <1>1. cam'.set = cam.set /\ cam'.power = cam.power /\ cam'.sata = cam.sata
        /\ cam'.pattern = cam.pattern
    <2>1. cam \in Camera
      BY DEF TypeOK
    <2>2. CASE clearAllInternalTrigger
      <3>1. PICK S : cam' = Cleared(S)
        BY <2>2 DEF clearAllInternalTrigger
      <3>2. QED
        BY <2>1, <3>1 DEF Cleared, Camera
    <2>3. CASE setInternalTrigger
      <3>1. cam' \in {cam, [cam EXCEPT !.trig[channel_map[Names[next]]] = Setting(entry)]}
        BY <2>3 DEF setInternalTrigger, MayWrite, entry
      <3>2. QED
        BY <2>1, <3>1 DEF Camera
    <2>4. CASE UNCHANGED cam
      BY <2>4
    <2>5. QED
      BY <2>2, <2>3, <2>4 DEF Triggering, Modes, NoSetting, BadEntry, EntryRaises, TriggersSet,
         trigmode_change, EditConfig
  <1>2. UNCHANGED <<field, state, shown, warned>> /\ doubt \ {"trigger"} \subseteq doubt'
    BY DEF Triggering, Modes, NoSetting, BadEntry, EntryRaises, TriggersSet, trigmode_change, EditConfig,
       clearAllInternalTrigger, setInternalTrigger, panel, Heard, Unsure
  <1>3. QED
    BY <1>1, <1>2, ShownKept

LEMMA ShownStep == TypeOK /\ ShownInv /\ StatusInv /\ [Next]_vars => ShownInv'
  <1> SUFFICES ASSUME TypeOK, ShownInv, StatusInv, [Next]_vars PROVE ShownInv'
    OBVIOUS
  <1>1. CASE APDCAM_reset \/ CameraRestart
    BY <1>1, ShownInDoubt DEF APDCAM_reset, CameraRestart, panel
  <1>2. CASE UNCHANGED vars
    BY <1>2, ShownKept DEF vars, panel
  <1>3. QED
    BY <1>1, <1>2, NextSteps, ConnectingShown, UpdatingShown, TriggeringShown, SettingsShown, EntriesShown

(* For any number of boards, any values, failures and restarts: what is    *)
(* shown is what the camera has, wherever it has been heard of.            *)
THEOREM PanelsTellTheTruth == Spec => []ShownIsSet
  <1>1. Init => TypeOK /\ ShownInv /\ StatusInv
    BY TypeInit, ShownInit DEF Init, StatusInv
  <1>2. TypeOK /\ ShownInv /\ StatusInv /\ [Next]_vars => (TypeOK /\ ShownInv /\ StatusInv)'
    BY TypeStep, ShownStep, StatusStep
  <1>3. ShownInv => ShownIsSet
    BY DEF ShownInv, ShownIsSet
  <1>4. QED
    BY <1>1, <1>2, <1>3, PTL DEF Spec

-----------------------------------------------------------------------------
(* The internal triggers.                                                  *)

LEMMA NamesRange == \A i \in DOMAIN Names : i < Len(Names) + 1
  <1>1. Names \in Seq(STRING)
    BY PanelAssumption
  <1>2. Len(Names) \in Nat /\ DOMAIN Names = 1..Len(Names)
    BY <1>1, LenProperties
  <1>3. QED
    BY <1>2

(* The names up to n of a channel that have an entry, and whether the      *)
(* channel has the trigger of the last of them.                            *)
NamesBelow(c, n) == {i \in LastName(c) : i < n}

Done(c, n) ==
  \/ NamesBelow(c, n) = {} /\ cam.trig[c] = TriggerOff
  \/ \E i \in NamesBelow(c, n) :
       /\ \A j \in NamesBelow(c, n) : j <= i
       /\ cam.trig[c] = Setting(config[Names[i]])

(* A mode that would be fallen back to is the one selected; the triggers   *)
(* are set up to the loop variable, or all of them.                        *)
TrigInv ==
  /\ last = "Internal Trigger" \/ pc \in {"clear", "set"} => mode = "Internal Trigger"
  /\ pc # "set" => next = 1
  /\ mode = "Internal Trigger" /\ pc # "clear" /\ "trigger" \notin doubt =>
       \A c \in Fitted : Done(c, IF pc = "set" THEN next ELSE Len(Names) + 1)

LEMMA TrigInit == Init => TrigInv
  BY ItemTypes DEF Init, TrigInv

(* Nothing that has to do with triggers changes.                           *)
LEMMA TrigKept ==
  ASSUME TrigInv, UNCHANGED <<mode, last, config, next>>, cam'.trig = cam.trig,
         pc' = pc \/ {pc, pc'} \cap {"clear", "set"} = {},
         "trigger" \in doubt => "trigger" \in doubt'
  PROVE  TrigInv'
  <1>1. \A c, n : NamesBelow(c, n)' = NamesBelow(c, n)
    BY DEF NamesBelow, LastName
  <1>2. \A c, n : Done(c, n)' <=> Done(c, n)
    BY <1>1 DEF Done
  <1>3. QED
    BY <1>2 DEF TrigInv

(* Of the triggers nothing is known any more.                              *)
LEMMA TrigInDoubt ==
  ASSUME "trigger" \in doubt',
         last' = "Internal Trigger" \/ pc' \in {"clear", "set"} => mode' = "Internal Trigger",
         pc' # "set" => next' = 1
  PROVE  TrigInv'
  BY DEF TrigInv

LEMMA OtherStepsTrig ==
  ASSUME TypeOK, TrigInv, Connecting \/ Updating \/ Settings \/ Entries, cam'.trig = cam.trig
  PROVE  TrigInv'
  <1> USE ItemTypes DEF Click, Heard, Unsure, panel, conn, trig
  <1>1. CASE APDCAM_on
    <2>1. CASE doubt' = Items
      BY <1>1, <2>1, TrigInDoubt DEF APDCAM_on, TrigInv
    <2>2. QED
      BY <1>1, <2>1, TrigKept DEF APDCAM_on
  <1>2. UNCHANGED <<mode, last, config, next>>
    BY DEF Connecting, Updating, Settings, Entries, APDCAM_on, ReadStatus, ApplyClock, ReadOffsets, ReadLight,
       APDCAM_off, UpdateFails, UpdatePower, UpdateSata, UpdatePattern, analog_power_select, dual_sata_select,
       Cancel, test_pattern_select, Select, TypeIn, set_offset, detTemp_set, hv_set, HVButtonFails,
       callight_change, clocksource_change
  <1>3. ASSUME ~APDCAM_on PROVE pc' = pc \/ {pc, pc'} \cap {"clear", "set"} = {}
    BY <1>3 DEF Connecting, Updating, Settings, Entries, ReadStatus, ApplyClock, ReadOffsets, ReadLight,
       APDCAM_off, UpdateFails, UpdatePower, UpdateSata, UpdatePattern, analog_power_select, dual_sata_select,
       Cancel, test_pattern_select, Select, TypeIn, set_offset, detTemp_set, hv_set, HVButtonFails,
       callight_change, clocksource_change, Toggle
  <1>4. "trigger" \notin Field \cup Toggle
    BY DEF Field, Toggle
  <1>5. ASSUME ~APDCAM_on, "trigger" \in doubt PROVE "trigger" \in doubt'
    <2>1. CASE Connecting
      BY <1>4, <1>5, <2>1 DEF Connecting, ReadStatus, ApplyClock, ReadOffsets, ReadLight, APDCAM_off, SetClock
    <2>2. CASE Updating
      BY <1>4, <1>5, <2>2 DEF Updating, UpdateFails, UpdatePower, UpdateSata, UpdatePattern
    <2>3. CASE Settings
      BY <1>4, <1>5, <2>3 DEF Settings, analog_power_select, dual_sata_select, Cancel, test_pattern_select, Select
    <2>4. CASE Entries
      BY <1>4, <1>5, <2>4 DEF Entries, TypeIn, set_offset, detTemp_set, hv_set, HVButtonFails,
         callight_change, clocksource_change, SetClock, NotANumber
    <2>5. QED
      BY <2>1, <2>2, <2>3, <2>4
  <1>6. QED
    BY <1>1, <1>2, <1>3, <1>5, TrigKept

(* After all have been cleared the loop begins.                            *)
LEMMA ClearTrig == ASSUME TypeOK, TrigInv, clearAllInternalTrigger PROVE TrigInv'
  <1>0. pc = "clear" /\ pc' = "set" /\ mode = "Internal Trigger" /\ next = 1
        /\ UNCHANGED <<mode, last, config, next>>
    BY DEF clearAllInternalTrigger, TrigInv, trig
  <1>1. CASE "trigger" \in doubt'
    BY <1>0, <1>1, TrigInDoubt
  <1>2. CASE cam' = Cleared(Fitted)
    <2>1. \A c \in Fitted : cam'.trig[c] = TriggerOff
      BY <1>2 DEF TypeOK, Camera, Cleared
    <2>2. \A c \in Fitted : NamesBelow(c, next)' = {}
      <3>1. \A i \in DOMAIN Names : ~(i < 1)
        BY PanelAssumption
      <3>2. QED
        BY <1>0, <3>1 DEF NamesBelow, LastName
    <2>3. QED
      BY <1>0, <2>1, <2>2 DEF TrigInv, Done
  <1>3. QED
    BY <1>1, <1>2 DEF clearAllInternalTrigger, Unsure

(* One more name: its channel gets its trigger, the others keep theirs.    *)
LEMMA SetTrig ==
  ASSUME TypeOK, TrigInv, InSet, next' = next + 1, UNCHANGED <<mode, last, config, pc, doubt>>,
         \/ entry = NoEntry /\ cam' = cam
         \/ /\ entry \in Entry /\ entry.level \in 0..MaxLevel
            /\ channel_map[Names[next]] \in Fitted
            /\ cam' = [cam EXCEPT !.trig[channel_map[Names[next]]] = Setting(entry)]
  PROVE  TrigInv'
  <1>0. mode = "Internal Trigger" /\ pc = "set"
    BY DEF TrigInv, InSet
  <1>1. SUFFICES ASSUME "trigger" \notin doubt, NEW c \in Fitted PROVE Done(c, next)'
    BY <1>0 DEF TrigInv
  <1>2. Done(c, next)
    BY <1>0, <1>1 DEF TrigInv
  <1>3. /\ next \in Nat /\ next \in DOMAIN Names /\ LastName(c) \subseteq DOMAIN Names
        /\ DOMAIN Names \subseteq Nat
    BY EntryType, PanelAssumption DEF LastName
  <1>4. LastName(c)' = LastName(c) /\ config' = config
    BY DEF LastName
  <1>5. NamesBelow(c, next)' = NamesBelow(c, next) \cup (IF next \in LastName(c) THEN {next} ELSE {})
    BY <1>3, <1>4 DEF NamesBelow
  <1>6. CASE next \in LastName(c)
    <2>1. channel_map[Names[next]] = c /\ entry # NoEntry
      BY <1>6 DEF LastName, entry
    <2>2. cam'.trig[c] = Setting(config[Names[next]])
      BY <2>1 DEF TypeOK, Camera, entry
    <2>3. \A j \in NamesBelow(c, next) : j <= next
      BY <1>3 DEF NamesBelow
    <2>4. QED
      BY <1>3, <1>4, <1>5, <1>6, <2>2, <2>3 DEF Done
  <1>7. CASE next \notin LastName(c)
    <2>1. cam'.trig[c] = cam.trig[c]
      <3>1. entry # NoEntry => channel_map[Names[next]] # c
        BY <1>3, <1>7 DEF LastName, entry
      <3>2. NoEntry \notin Entry
        BY PanelAssumption
      <3>3. QED
        BY <3>1, <3>2 DEF TypeOK, Camera
    <2>2. QED
      BY <1>2, <1>4, <1>5, <1>7, <2>1 DEF Done
  <1>8. QED
    BY <1>6, <1>7

LEMMA TriggeringTrig == ASSUME TypeOK, TrigInv, Triggering \/ Modes PROVE TrigInv'
  <1> USE ItemTypes DEF Heard, Unsure, panel, conn, trig
  <1>1. CASE clearAllInternalTrigger
    BY <1>1, ClearTrig
  <1>2. CASE NoSetting
    BY <1>2, SetTrig DEF NoSetting
  <1>3. CASE BadEntry
    BY <1>3, TrigInDoubt DEF BadEntry, Refused, Keep
  <1>4. CASE EntryRaises
    BY <1>4, TrigInDoubt DEF EntryRaises, TrigInv
  <1>5. CASE setInternalTrigger
    <2>1. CASE Refused /\ Unsure("trigger")
      BY <2>1, TrigInDoubt DEF Refused, Keep
    <2>2. CASE /\ cam' = [cam EXCEPT !.trig[channel_map[Names[next]]] = Setting(entry)]
               /\ next' = next + 1 /\ UNCHANGED <<mode, last, pc, doubt>>
      <3>1. /\ InSet /\ entry \in Entry /\ entry.level \in 0..MaxLevel /\ config' = config
            /\ channel_map[Names[next]] \in Fitted
        BY <1>5, EntryType DEF setInternalTrigger
      <3>2. QED
        BY <2>2, <3>1, SetTrig
    <2>3. QED
      BY <1>5, <2>1, <2>2 DEF setInternalTrigger, entry
  <1>6. CASE TriggersSet
    <2>1. next = Len(Names) + 1
      BY <1>6, PanelAssumption DEF TriggersSet, TypeOK
    <2>2. \A c, n : NamesBelow(c, n)' = NamesBelow(c, n)
      BY <1>6 DEF TriggersSet, NamesBelow, LastName
    <2>3. \A c, n : Done(c, n)' <=> Done(c, n)
      BY <1>6, <2>2 DEF TriggersSet, Done
    <2>4. mode' = mode /\ last' = mode /\ pc = "set" /\ pc' = "idle" /\ next' = 1 /\ doubt' = doubt
      BY <1>6 DEF TriggersSet, Keep
    <2>5. QED
      BY <2>1, <2>3, <2>4 DEF TrigInv
  <1>7. ASSUME NEW m \in Mode, trigmode_change(m) PROVE TrigInv'
    <2>0. pc = "idle" /\ UNCHANGED <<cam, config, doubt>>
      BY <1>7 DEF trigmode_change, Click
    <2>1. CASE m # "Internal Trigger" /\ mode' = m /\ Keep
      BY <2>0, <2>1 DEF TrigInv, Keep
    <2>2. CASE Refused
      <3>1. \A c, n : NamesBelow(c, n)' = NamesBelow(c, n)
        BY <2>0 DEF NamesBelow, LastName
      <3>2. \A c, n : Done(c, n)' <=> Done(c, n)
        BY <2>0, <3>1 DEF Done
      <3>3. QED
        BY <2>0, <2>2, <3>2 DEF TrigInv, Refused, Keep
    <2>3. CASE m = "Internal Trigger" /\ mode' = m /\ pc' = "clear" /\ UNCHANGED <<last, next>>
      BY <2>0, <2>3 DEF TrigInv
    <2>4. QED
      BY <1>7, <2>1, <2>2, <2>3 DEF trigmode_change
  <1>8. ASSUME NEW c \in Configs, EditConfig(c) PROVE TrigInv'
    BY <1>8, TrigInDoubt DEF EditConfig, TrigInv
  <1>9. QED
    BY <1>1, <1>2, <1>3, <1>4, <1>5, <1>6, <1>7, <1>8 DEF Triggering, Modes

LEMMA TrigStep == TypeOK /\ ShownInv /\ StatusInv /\ TrigInv /\ [Next]_vars => TrigInv'
  <1> SUFFICES ASSUME TypeOK, ShownInv, StatusInv, TrigInv, [Next]_vars PROVE TrigInv'
    OBVIOUS
  <1>1. CASE APDCAM_reset \/ CameraRestart
    BY <1>1, TrigInDoubt, ItemTypes DEF APDCAM_reset, CameraRestart, TrigInv, trig, Click
  <1>2. CASE UNCHANGED vars
    BY <1>2, TrigKept DEF vars, trig
  <1>3. CASE Connecting \/ Updating \/ Settings \/ Entries
    BY <1>3, OtherStepsTrig, ConnectingShown, UpdatingShown, SettingsShown, EntriesShown
  <1>4. QED
    BY <1>1, <1>2, <1>3, NextSteps, TriggeringTrig

(* For any channels, names and configuration files: after an internal      *)
(* trigger mode was selected without a failure, the channels have the      *)
(* triggers of the file, the last name of a channel counting.              *)
THEOREM TriggersCorrect == Spec => []TriggersAreConfig
  <1>1. Init => TypeOK /\ ShownInv /\ StatusInv /\ TrigInv
    BY TypeInit, ShownInit, TrigInit DEF Init, StatusInv
  <1>2. TypeOK /\ ShownInv /\ StatusInv /\ TrigInv /\ [Next]_vars
          => (TypeOK /\ ShownInv /\ StatusInv /\ TrigInv)'
    BY TypeStep, ShownStep, StatusStep, TrigStep
  <1>3. TypeOK /\ TrigInv => TriggersAreConfig
    <2> SUFFICES ASSUME TypeOK, TrigInv, mode = "Internal Trigger", pc = "idle", "trigger" \notin doubt,
                        NEW c \in Fitted
                 PROVE  \/ LastName(c) = {} /\ cam.trig[c] = TriggerOff
                        \/ \E i \in LastName(c) :
                             /\ \A j \in LastName(c) : j <= i
                             /\ cam.trig[c] = Setting(config[Names[i]])
      BY DEF TriggersAreConfig
    <2>1. NamesBelow(c, Len(Names) + 1) = LastName(c)
      <3>1. \A i \in DOMAIN Names : i < Len(Names) + 1
        BY NamesRange
      <3>2. QED
        BY <3>1 DEF NamesBelow, LastName
    <2>2. Done(c, Len(Names) + 1)
      BY DEF TrigInv
    <2>3. QED
      BY <2>1, <2>2 DEF Done
  <1>4. QED
    BY <1>1, <1>2, <1>3, PTL DEF Spec
===========================================================================
