---------------------------- MODULE ControlPanel ----------------------------
(***************************************************************************)
(* The panels of the GUI and the camera they show: the entry fields and    *)
(* buttons of APDCAM10G_GUI_class, the toggles of APDCAM_Settings_class,   *)
(* and the internal trigger of the channels, which is set from the         *)
(* configuration file when that trigger mode is selected.  The panels keep *)
(* copies of the settings; they are read when APDCAM is switched on, and   *)
(* partly after a factory reset.  All of it runs in the main thread; the   *)
(* camera, and the connection to it, may fail at any access, and a command *)
(* that is only sent and never read back may be lost without an error.     *)
(***************************************************************************)
EXTENDS Integers, Sequences

CONSTANTS
  NBoards,       \* ADC boards
  Channel,       \* ADC channels names stand for
  Fitted,        \* those of the ADC boards that were found
  Names,         \* channel names in the order of apdcam_channel_list
  channel_map,   \* the channel a name stands for
  Configs,       \* trigger entries the configuration file may have
  NoEntry,       \* for a name without an entry
  Invalid,       \* for an entry that cannot be read
  Value, Code,   \* of entry fields, of test patterns
  MaxLevel,      \* 16383 in the code
  Byte,          \* 256 in the code
  Faults,        \* "noAnswer": accesses may fail; "loss": sent commands may be lost
  MaxClicks      \* bound: user actions and incidents

(* Every name of a channel may have an entry: a well-formed one, one that  *)
(* cannot be read, or none.                                                *)
Entry == [enable : BOOLEAN, polarity : {"positive", "negative"}, level : Nat]

ASSUME PanelAssumption ==
  /\ NBoards \in Nat \ {0} /\ Fitted \subseteq Channel /\ Names \in Seq(STRING)
  /\ Invalid \notin Entry /\ NoEntry \notin Entry /\ Invalid # NoEntry
  /\ \A c \in Configs : \A i \in DOMAIN Names : c[Names[i]] \in Entry \cup {NoEntry, Invalid}
  /\ channel_map \in [{Names[i] : i \in DOMAIN Names} -> Channel]
  /\ {0, 1} \subseteq Value /\ Value \subseteq Nat /\ 0 \in Code /\ Code \subseteq Nat
  /\ MaxLevel \in Nat /\ Byte \in Nat \ {0} /\ MaxClicks \in Nat /\ Faults \subseteq {"noAnswer", "loss"}

Board  == 1..NBoards
Field  == {"hv", "temp", "offset", "light", "clock"}   \* those with an entry or a list
Toggle == {"power", "sata", "pattern"}                 \* those of the settings panel
Items  == Field \cup Toggle \cup {"trigger"}

(* Of the four voltages one, and of the offsets that of the first board:    *)
(* the panel shows it for all of them.  Voltages are counts in the camera  *)
(* and tenths of a volt in the panel, temperatures tenths of a degree in   *)
(* both; dual SATA is that of the communications card.                     *)
TriggerOff == [enable |-> FALSE, polarity |-> "positive", level |-> 0]
Trigger    == [enable : BOOLEAN, polarity : {"positive", "negative"}, level : 0..MaxLevel]
Camera == [set : [Field -> Nat], power : {0, 1}, sata : {0, 1}, pattern : [Board -> Code],
           trig : [Fitted -> Trigger]]

VARIABLES
  cam,              \* the camera
  reg, connected,   \* APDCAM_reg exists; APDCAM_connected
  lockLost,         \* the main thread has kept the lock of APDCAM_reg for ever
  field,            \* what the entry fields show
  state, shown,     \* ..._state of the toggles, and what the widgets show
  warned,           \* a warning of different test patterns is the last word
  mode, last,       \* var_shot_mode, last_trigger_mode
  config,           \* entries of the configuration file
  pc, next,         \* where the main thread is, loop variable
  clicks,
  doubt             \* settings of which the camera has not been heard since the
                    \* last failure, restart or typing, or the command of which
                    \* was lost, which the program cannot know

panel == <<field, state, shown, warned>>
conn  == <<reg, connected, lockLost>>
trig  == <<mode, last, config, next>>
vars  == <<cam, conn, panel, trig, pc, clicks, doubt>>

Mode  == {"SW Trigger", "External Trigger", "Internal Trigger"}
Place == {"idle", "status", "clock", "offsets", "light", "power", "sata", "pattern", "clear", "set"}

ToggleStates == {s \in [Toggle -> Code \cup {0, 1}] : {s["power"], s["sata"]} \subseteq {0, 1}}

(* Every variable keeps its type.                                          *)
TypeOK ==
  /\ cam \in Camera
  /\ reg \in BOOLEAN /\ connected \in BOOLEAN /\ lockLost \in BOOLEAN
  /\ field \in [Field -> Nat]
  /\ state \in ToggleStates /\ shown \in ToggleStates
  /\ warned \in BOOLEAN /\ mode \in Mode /\ last \in Mode
  /\ config \in Configs /\ pc \in Place /\ next \in 1..(Len(Names) + 1)
  /\ clicks \in 0..MaxClicks /\ doubt \subseteq Items

Default(sata) == [set |-> [f \in Field |-> 0], power |-> 0, sata |-> sata,
                  pattern |-> [b \in Board |-> 0], trig |-> [c \in Fitted |-> TriggerOff]]

(* A camera with its default settings, or as another program has left it.  *)
Init ==
  /\ \/ cam = Default(0)
     \/ \E p \in [Board -> Code], v \in Value :
          cam = [Default(1) EXCEPT !.power = 1, !.pattern = p, !.set = [f \in Field |-> v],
                   !.trig = [c \in Fitted |-> [TriggerOff EXCEPT !.enable = TRUE]]]
  /\ reg = FALSE /\ connected = FALSE /\ lockLost = FALSE
  /\ field = [f \in Field |-> 0] /\ state = [t \in Toggle |-> 0] /\ shown = state /\ warned = FALSE
  /\ mode = "SW Trigger" /\ last = mode /\ config \in Configs /\ next = 1
  /\ pc = "idle" /\ clicks = 0 /\ doubt = Items

-----------------------------------------------------------------------------
Click == pc = "idle" /\ clicks < MaxClicks /\ clicks' = clicks + 1
Heard(i)   == doubt' = doubt \ {i}
Unsure(i)  == doubt' = doubt \cup {i}
Failing    == "noAnswer" \in Faults

(* close(), when the error of an access is not empty.                      *)
commErrorResponse == connected' = FALSE /\ UNCHANGED <<reg, lockLost>>

(* A write that fails has been executed or not.                            *)
MayWrite(written) == cam' \in {cam, written}

-----------------------------------------------------------------------------
(* APDCAM on.                                                              *)

APDCAM_on ==
  /\ Click
  /\ reg' = TRUE
  /\ \/ connected' = TRUE /\ pc' = "status" /\ doubt' = Items
     \/ Failing /\ connected' = FALSE /\ UNCHANGED <<pc, doubt>>
  /\ UNCHANGED <<cam, lockLost, panel, trig>>

(* The high byte of a voltage is counted 255 times by readStatus.          *)
HVReading(v) == (v % Byte) + (v \div Byte) * (Byte - 1)

(* A count is 0.12 V; the field shows one digit after the point, and what  *)
(* is written is cut off to a whole count.                                 *)
Volts(n)  == (12 * n + 5) \div 10
Counts(t) == (10 * t) \div 12

ReadStatus ==
  /\ pc = "status"
  /\ \/ /\ field' = [field EXCEPT !["hv"] = Volts(HVReading(cam.set["hv"])), !["temp"] = cam.set["temp"]]
        /\ doubt' = doubt \ (IF cam.set["hv"] < Byte THEN {"hv", "temp"} ELSE {"temp"})
        /\ pc' = "clock" /\ UNCHANGED connected
     \/ Failing /\ connected' = FALSE /\ pc' = "idle" /\ UNCHANGED <<field, doubt>>
  /\ UNCHANGED <<cam, reg, lockLost, state, shown, warned, trig, clicks>>

(* setClock; its error is dropped.  Its commands are only sent: one that   *)
(* is lost gives no error.                                                 *)
SetClock ==
  /\ LET written == [cam EXCEPT !.set["clock"] = field'["clock"]]
     IN \/ cam' = written /\ Heard("clock")
        \/ Faults # {} /\ MayWrite(written) /\ Unsure("clock")

ApplyClock ==
  /\ pc = "clock" /\ UNCHANGED field /\ SetClock
  /\ pc' = "offsets"
  /\ UNCHANGED <<conn, state, shown, warned, trig, clicks>>

ReadOffsets ==
  /\ pc = "offsets"
  /\ \/ field' = [field EXCEPT !["offset"] = cam.set["offset"]] /\ Heard("offset")
     \/ Failing /\ UNCHANGED <<field, doubt>>
  /\ pc' = "light"
  /\ UNCHANGED <<cam, conn, state, shown, warned, trig, clicks>>

(* getCallight takes the first element of None when the read has failed:   *)
(* an exception, and the settings panel is not updated.                    *)
ReadLight ==
  /\ pc = "light"
  /\ \/ field' = [field EXCEPT !["light"] = cam.set["light"]] /\ Heard("light") /\ pc' = "power"
     \/ Failing /\ UNCHANGED <<field, doubt>> /\ pc' = "idle"
  /\ UNCHANGED <<cam, conn, state, shown, warned, trig, clicks>>

APDCAM_off ==
  /\ Click
  /\ connected' = FALSE
  /\ UNCHANGED <<cam, reg, lockLost, panel, trig, pc, doubt>>

-----------------------------------------------------------------------------
(* update() of the settings panel; the first error ends it.                *)

UpdateFails ==
  /\ pc \in Toggle /\ Failing
  /\ pc' = "idle"
  /\ UNCHANGED <<cam, conn, panel, trig, clicks, doubt>>

Show(t, v) == state' = [state EXCEPT ![t] = v] /\ shown' = [shown EXCEPT ![t] = v]

UpdatePower ==
  /\ pc = "power" /\ Show("power", cam.power) /\ Heard("power")
  /\ pc' = "sata"
  /\ UNCHANGED <<cam, conn, field, warned, trig, clicks>>

(* Mutant: only what the widget shows is updated.                          *)
UpdateSata_ShownOnly ==
  /\ pc = "sata" /\ shown' = [shown EXCEPT !["sata"] = cam.sata] /\ Heard("sata")
  /\ pc' = "pattern"
  /\ UNCHANGED <<cam, conn, field, state, warned, trig, clicks>>

UpdateSata ==
  /\ pc = "sata" /\ Show("sata", cam.sata) /\ Heard("sata")
  /\ pc' = "pattern"
  /\ UNCHANGED <<cam, conn, field, warned, trig, clicks>>

(* The first board is shown.                                               *)
UpdatePattern ==
  /\ pc = "pattern"
  /\ Show("pattern", cam.pattern[1])
  /\ warned' = (\E b \in Board : cam.pattern[b] # cam.pattern[1])
  /\ Heard("pattern")
  /\ pc' = "idle"
  /\ UNCHANGED <<cam, conn, field, trig, clicks>>

-----------------------------------------------------------------------------
(* The settings panel. Without a connection, or after an error, the widget *)
(* is set back to the state.                                               *)

Revert(t) == shown' = [shown EXCEPT ![t] = state[t]] /\ UNCHANGED state

(* The setting is inverted according to the state, not to the camera.      *)
Select(t, v, written, partly) ==
  /\ Click
  /\ \/ ~connected /\ Revert(t) /\ UNCHANGED <<cam, doubt>>
     \/ connected /\ cam' = written /\ Show(t, v) /\ Heard(t)
     \/ connected /\ Failing /\ cam' \in partly /\ Revert(t) /\ Unsure(t)
  /\ UNCHANGED <<conn, field, warned, trig, pc>>

analog_power_select ==
  LET v == 1 - state["power"] written == [cam EXCEPT !.power = v]
  IN Select("power", v, written, {cam, written})

(* The command to the communications card is only sent: it may be lost     *)
(* while the ADCs are set.  A failing read of an ADC ends in an exception, *)
(* with the lock held and the check box as the user has left it.           *)
dual_sata_select ==
  LET v == 1 - state["sata"] written == [cam EXCEPT !.sata = v]
  IN \/ Select("sata", v, written, {cam, written})
     \/ /\ Click /\ connected /\ Unsure("sata")
        /\ \/ "loss" \in Faults /\ Show("sata", v) /\ UNCHANGED <<cam, lockLost>>
           \/ /\ Failing /\ MayWrite(written) /\ lockLost' = TRUE
              /\ shown' = [shown EXCEPT !["sata"] = 1 - @] /\ UNCHANGED state
        /\ UNCHANGED <<reg, connected, field, warned, trig, pc>>

Cancel ==
  /\ Click /\ Revert("sata")
  /\ UNCHANGED <<cam, conn, field, warned, trig, pc, doubt>>

(* setTestPattern writes board after board up to the first error.          *)
test_pattern_select(code) ==
  Select("pattern", code, [cam EXCEPT !.pattern = [b \in Board |-> code]],
         {[cam EXCEPT !.pattern = [b \in Board |-> IF b <= n THEN code ELSE @[b]]] : n \in Board \cup {0}})

(* The ADCs are reset before the control card, and that one before the     *)
(* communications card, which may lose its dual SATA setting.              *)
AdcReset   == [cam EXCEPT !.pattern = Default(0).pattern, !.trig = Default(0).trig, !.set["offset"] = 0]
CardsReset == [AdcReset EXCEPT !.power = 0, !.set = [f \in Field |-> IF f = "clock" THEN @[f] ELSE 0]]

(* The error of FactoryReset is dropped, and the entry fields stay. A lost *)
(* command gives no error; setting dual SATA again may end in an exception.*)
APDCAM_reset ==
  /\ Click /\ connected
  /\ \/ cam' = Default(cam.sata) /\ pc' = "power" /\ UNCHANGED lockLost
     \/ /\ Faults # {} /\ cam' \in {cam, AdcReset, CardsReset, Default(0), Default(cam.sata)}
        /\ pc' = "power" /\ UNCHANGED lockLost
     \/ Failing /\ cam' \in {Default(0), Default(cam.sata)} /\ pc' = "idle" /\ lockLost' = TRUE
  /\ doubt' = Items
  /\ UNCHANGED <<reg, connected, panel, trig>>

-----------------------------------------------------------------------------
(* The entry fields.                                                       *)

TypeIn(f, v) ==
  /\ Click
  /\ field' = [field EXCEPT ![f] = v] /\ Unsure(f)
  /\ UNCHANGED <<cam, conn, state, shown, warned, trig, pc>>

Entered(f) == [cam EXCEPT !.set[f] = IF f = "hv" THEN Counts(field[f]) ELSE field[f]]

(* Of what was typed it is not known whether it is a number: an exception, *)
(* or a message, and nothing is written.                                   *)
NotANumber(f) == f \in doubt /\ UNCHANGED <<cam, doubt>>

set_offset ==
  /\ Click /\ connected
  /\ \/ NotANumber("offset")
     \/ cam' = Entered("offset") /\ Heard("offset")
     \/ Failing /\ MayWrite(Entered("offset")) /\ Unsure("offset")
  /\ UNCHANGED <<conn, panel, trig, pc>>

(* The range check of the detector temperature is never true.              *)
detTemp_set ==
  /\ Click /\ connected
  /\ \/ NotANumber("temp") /\ UNCHANGED conn
     \/ cam' = Entered("temp") /\ Heard("temp") /\ UNCHANGED conn
     \/ Failing /\ MayWrite(Entered("temp")) /\ Unsure("temp") /\ commErrorResponse
  /\ UNCHANGED <<panel, trig, pc>>

(* What is not a number counts as 0. Whether there is a connection is not  *)
(* asked: with a closed socket sendCommand raises an exception while it    *)
(* holds the lock, and the update thread never gets it again.              *)
hv_set ==
  /\ Click /\ reg
  /\ \/ connected /\ cam' = Entered("hv") /\ Heard("hv") /\ UNCHANGED conn
     \/ connected /\ "hv" \in doubt /\ cam' = [cam EXCEPT !.set["hv"] = 0] /\ UNCHANGED <<conn, doubt>>
     \/ connected /\ Failing /\ MayWrite(Entered("hv")) /\ Unsure("hv") /\ commErrorResponse
     \/ ~connected /\ lockLost' = TRUE /\ UNCHANGED <<cam, reg, connected, doubt>>
  /\ UNCHANGED <<panel, trig, pc>>

(* HV_onOff and hv_en_ds write registers that are not shown.               *)
HVButtonFails ==
  /\ Click /\ connected /\ Failing /\ commErrorResponse
  /\ UNCHANGED <<cam, panel, trig, pc, doubt>>

callight_change(v) ==
  /\ Click
  /\ field' = [field EXCEPT !["light"] = v]
  /\ LET written == [cam EXCEPT !.set["light"] = v]
     IN \/ ~connected /\ Unsure("light") /\ UNCHANGED cam
        \/ connected /\ cam' = written /\ Heard("light")
        \/ connected /\ Failing /\ MayWrite(written) /\ Unsure("light")
  /\ UNCHANGED <<conn, state, shown, warned, trig, pc>>

clocksource_change(v) ==
  /\ Click /\ v \in {0, 1}
  /\ field' = [field EXCEPT !["clock"] = v]
  /\ IF connected THEN SetClock ELSE Unsure("clock") /\ UNCHANGED cam
  /\ UNCHANGED <<conn, state, shown, warned, trig, pc>>

-----------------------------------------------------------------------------
(* The trigger mode.                                                       *)

Keep == last' = mode' /\ pc' = "idle" /\ next' = 1
Refused == mode' = last /\ Keep

trigmode_change(m) ==
  /\ Click
  /\ \/ m # "Internal Trigger" /\ mode' = m /\ Keep
     \/ m = "Internal Trigger" /\ ~connected /\ Refused
     \/ m = "Internal Trigger" /\ connected /\ mode' = m /\ pc' = "clear" /\ UNCHANGED <<last, next>>
  /\ UNCHANGED <<cam, conn, panel, config, doubt>>

(* Mutant: the triggers of an earlier setting stay.                        *)
clearAllInternalTrigger_Not ==
  /\ pc = "clear" /\ Heard("trigger")
  /\ pc' = "set"
  /\ UNCHANGED <<cam, conn, panel, trig, clicks>>

(* Board after board; its error gives a message only.                      *)
Cleared(S) == [cam EXCEPT !.trig = [c \in Fitted |-> IF c \in S THEN TriggerOff ELSE @[c]]]

clearAllInternalTrigger ==
  /\ pc = "clear"
  /\ \/ cam' = Cleared(Fitted) /\ Heard("trigger")
     \/ Failing /\ (\E S \in SUBSET Fitted : cam' = Cleared(S)) /\ Unsure("trigger")
  /\ pc' = "set"
  /\ UNCHANGED <<conn, panel, trig, clicks>>

InSet == pc = "set" /\ next <= Len(Names)
entry == config[Names[next]]

NoSetting ==
  /\ InSet /\ entry = NoEntry
  /\ next' = next + 1
  /\ UNCHANGED <<cam, conn, panel, mode, last, config, pc, clicks, doubt>>

(* An entry that cannot be read, or a level out of range.                  *)
BadEntry ==
  /\ InSet /\ entry # NoEntry
  /\ \/ entry = Invalid
     \/ entry # Invalid /\ entry.polarity = "negative" /\ entry.level \notin 0..MaxLevel
  /\ Refused /\ Unsure("trigger")
  /\ UNCHANGED <<cam, conn, panel, config, clicks>>

(* The name of the code for a positive polarity does not exist, or the     *)
(* board of the channel: an exception, and the mode stays.                 *)
EntryRaises ==
  /\ InSet /\ entry \notin {NoEntry, Invalid}
  /\ \/ entry.polarity = "positive"
     \/ entry.level \in 0..MaxLevel /\ channel_map[Names[next]] \notin Fitted
  /\ pc' = "idle" /\ next' = 1 /\ Unsure("trigger")
  /\ UNCHANGED <<cam, conn, panel, mode, last, config, clicks>>

(* The signals of the data are those of the ADC turned over: so are level  *)
(* and polarity.                                                           *)
Setting(e) == [enable |-> e.enable, polarity |-> "positive", level |-> MaxLevel - e.level]

(* Mutant: the range of the level is not looked at.                        *)
setInternalTrigger_NoRange ==
  /\ InSet /\ entry \notin {NoEntry, Invalid} /\ entry.polarity = "negative"
  /\ channel_map[Names[next]] \in Fitted
  /\ cam' = [cam EXCEPT !.trig[channel_map[Names[next]]] = Setting(entry)] /\ next' = next + 1
  /\ UNCHANGED <<mode, last, pc, doubt, conn, panel, config, clicks>>

setInternalTrigger ==
  /\ InSet /\ entry \notin {NoEntry, Invalid}
  /\ entry.polarity = "negative" /\ entry.level \in 0..MaxLevel
  /\ channel_map[Names[next]] \in Fitted
  /\ LET written == [cam EXCEPT !.trig[channel_map[Names[next]]] = Setting(entry)]
     IN \/ cam' = written /\ next' = next + 1 /\ UNCHANGED <<mode, last, pc, doubt>>
        \/ Failing /\ MayWrite(written) /\ Refused /\ Unsure("trigger")
  /\ UNCHANGED <<conn, panel, config, clicks>>

TriggersSet ==
  /\ pc = "set" /\ next > Len(Names)
  /\ UNCHANGED mode /\ Keep
  /\ UNCHANGED <<cam, conn, panel, config, clicks, doubt>>

-----------------------------------------------------------------------------
(* The camera is switched off and on; the file is edited.                  *)

CameraRestart ==
  /\ clicks < MaxClicks /\ clicks' = clicks + 1
  /\ cam' = Default(cam.sata) /\ doubt' = Items
  /\ UNCHANGED <<conn, panel, trig, pc>>

EditConfig(c) ==
  /\ Click
  /\ config' = c /\ Unsure("trigger")
  /\ UNCHANGED <<cam, conn, panel, mode, last, next, pc>>

-----------------------------------------------------------------------------
Connecting == APDCAM_on \/ ReadStatus \/ ApplyClock \/ ReadOffsets \/ ReadLight \/ APDCAM_off
Updating   == UpdateFails \/ UpdatePower \/ UpdateSata \/ UpdatePattern
Triggering == clearAllInternalTrigger \/ NoSetting \/ BadEntry \/ EntryRaises \/ setInternalTrigger
              \/ TriggersSet

Next ==
  \/ Connecting \/ Updating \/ Triggering
  \/ analog_power_select \/ dual_sata_select \/ APDCAM_reset \/ Cancel
  \/ \E code \in Code : test_pattern_select(code)
  \/ \E f \in {"hv", "temp", "offset"}, v \in Value : TypeIn(f, v)
  \/ set_offset \/ detTemp_set \/ hv_set \/ HVButtonFails
  \/ \E v \in Value : callight_change(v) \/ clocksource_change(v)
  \/ \E m \in Mode : trigmode_change(m)
  \/ CameraRestart \/ \E c \in Configs : EditConfig(c)

Spec == Init /\ [][Next]_vars

-----------------------------------------------------------------------------
(* Properties.                                                             *)

(* What the panels show is what the camera has, for every setting of which *)
(* the camera has been heard since the last incident, a lost command       *)
(* included; a voltage to less than the one count that reading, rounding   *)
(* and writing it may cost.  The toggles, which invert what they believe,  *)
(* believe what they show.  Different test patterns are at least warned of.*)
Agrees(f) == IF f = "hv" THEN 10 * field[f] - 12 * cam.set[f] \in -4..11
             ELSE field[f] = cam.set[f]

ShownIsSet ==
  connected /\ pc = "idle" =>
    /\ \A t \in Toggle \ doubt : shown[t] = state[t]
    /\ \A f \in Field \ doubt : Agrees(f)
    /\ "power" \notin doubt => state["power"] = cam.power
    /\ "sata" \notin doubt => state["sata"] = cam.sata
    /\ "pattern" \notin doubt => warned \/ \A b \in Board : cam.pattern[b] = state["pattern"]

(* While the mode is internal trigger and nothing has failed since it was  *)
(* selected, exactly the channels with an entry have a trigger, with its   *)
(* level; of two names of one channel the later one counts.                *)
LastName(c) == {i \in DOMAIN Names : channel_map[Names[i]] = c /\ config[Names[i]] # NoEntry}

TriggersAreConfig ==
  mode = "Internal Trigger" /\ pc = "idle" /\ "trigger" \notin doubt =>
    \A c \in Fitted :
      \/ LastName(c) = {} /\ cam.trig[c] = TriggerOff
      \/ \E i \in LastName(c) :
           /\ \A j \in LastName(c) : j <= i
           /\ cam.trig[c] = Setting(config[Names[i]])
=============================================================================
