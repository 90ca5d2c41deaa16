# Verification of the APDCAM-10G control software

This directory holds TLA+ models of the programs in `src/`, the TLC runs that
check them and the proofs that TLAPS checks. `PROJECT.json` lists the
components, the runs, the hazards of the code and, for every definition, the
lines of the source it stands for.

## 1. Inventory

### The system

An APDCAM-10G camera is an optical detector with a control card (CC), one to
four ADC cards and a power/control card (PC). A host talks to it over UDP:
register commands on one port, and up to four streams of sample packets on
others. The repository holds

* a Python class library with a GUI (`APDCAM10G_control.py`,
  `apdcam10g_control_gui.py`, `apdcam10g_settings.py`, `apdcam_plot.py`) that
  reads and writes registers and starts measurements;
* a set of C++ programs (`APDTest_10G/`), of which `APDTest` executes a command
  file: it sets the camera up, receives the sample streams and writes one file
  per channel. The Python `measure()` writes such a file, starts `APDTest` and
  polls for its end.

### Components

| component | state it keeps | operations | hard behaviour |
|---|---|---|---|
| Register access, `APDCAM10G_regCom` (APDCAM10G_control.py 500-1197) | socket, packet under construction `UDP_data`, RLock, status arrays | `sendCommand`, `getAnswer`, `clearAnswerQueue`, `readPDI`, `readCCdata`, `writePDI` | answers do not say which register they belong to; packets and answers get lost, late; repetitions; several threads share one packet buffer and one socket |
| Card control (1308-2090) | registers of the cards, the cached CC settings and status | `setADCDualSATA`, `syncADC`, `setAnalogPower`, `setTrigger`, `setInternalTriggerADC`, HV, clock, offsets, DAC | read-modify-write on shared control registers, some locked, some not; error paths between acquire and release; the cache |
| CAMTIMER (395-420, 1200-1332) | the timer object and the timer registers | `loadTimerSetup`, `timerArm`, `timerRun`, `timerIdle`, `allocateTimer` | several commands appended to one packet without the lock; range checks at field widths |
| Connection (539-639, 873-942) | address, firmware data, code table, socket | `connect`, `close`, `readStatus`, `FactoryReset` | half-open connection after an error; swallowed errors |
| Measurement (2092-2365) | `measurePara`, the subprocess, the thread | `measure`, `measurementStatus`, `waitForMeasurement` | error of `readStatus` ignored; two data paths; polling the output of another program |
| Native receiver, `APDCAM10G_data` (2473-2870) | streams, sockets, buffers | `allocate`, `startReceive`, `startStream`, `getData` | buffer limits, blocking receive |
| GUI (apdcam10g_control_gui.py) | widgets, `Update_APDCAM`, `measurementRunning`, `stopMeasurement` | start/stop of experiment, measurement, camera on/off; the update thread | three threads, plain Boolean flags for exclusion and for stopping |
| Stream receiver, `CCamServer` (CamServer.cpp) | ring of packets, packet counter | `OnRead`, `SetBuffer`, `SetSignalFrequency`, `Reset` | ring overwritten while it is read; notification every n packets |
| Data evaluation, `CDataEvaluation` (DataEvaluation.cpp) | per-stream work area, expected packet serial, ring of samples per channel | `Handler`, `ProcessData`, `ProcessFrame`, `ProcessBlock` | lost packets are filled in, unsigned lengths, a block may span packets |
| Command client, `CGECClient`/`CUDPClient`/`CCamClient` | command queue of one, answer and its event | `SendData`, `OnRead`, timeout and retry | receiver thread and caller share the answer; a late answer |
| APD library, `HighlevelFunctions.cpp` | one `WORK_SET` per handle with a state | `APDCAM_Open`, `_Allocate`, `_ARM`, `_Start`, `_Wait`, `_Stop` | protocol of calls, stop racing the end of the data, timeouts |
| Threads and events (`LnxClasses.cpp`, `SysLnxClasses.cpp`) | thread, pthread condition, timer | `Start`, `Stop`, `Set`, `Reset`, `WaitFor*` | lost wake-ups, joining a thread that never started |
| Script interpreter (`APDTest.cpp`) | global handle and settings | one function per command word | sequential |
| Panels (apdcam10g_control_gui.py, apdcam10g_settings.py) | entry fields, toggles with a `..._state`, trigger mode | entries, buttons, toggles, `update`, `trigmode_change` | the panels show copies; a toggle inverts its copy; an update ends at its first error |
| Plot GUI (apdcam_plot.py) | lists of figures, plot IDs and legends, options, data | `figure_select`, `getdata`, `rawplot`, `spectrplot` | numbers of closed windows are used again; handlers nest in the event loop |
| Channel maps, type tables, XML writer | tables | pure functions | indices only |

The Python threads of the GUI share one `APDCAM10G_regCom` object: the Tk main
thread (buttons, settings), the status update thread and the measurement
thread. The C++ programs have a receiver thread per stream, an evaluation
thread, and the caller.

### What makes each component correct

* Register access: a call that returns without an error has read what the
  registers hold, or has written them, although an answer names no register and
  packets get lost; the RLock is taken and given back in pairs on every path;
  nothing of a finished call is left on the wire for the next one.
* Card control: a change of some bits of a control register keeps the others,
  whoever changes them meanwhile; a pulse ends; settings of several cards agree;
  an error in the middle is reported and the lock given back.
* Stream: samples stay in order and in their place whatever the network does,
  the evaluation is woken for everything it must evaluate, a measurement that
  is complete ends, and a stop ends both threads with nothing left.
* GUI measurement: there is one measurement at a time and one program; what is
  copied to a shot's directory belongs to that shot; a stop ends the thread,
  the display is updated again and the next measurement can begin.
* Session: an open connection uses the code table of the firmware at its other
  end; a factory reset keeps the dual SATA setting, and a timer setup loaded
  without an error is the one in memory, whatever was left in the packet before:
  unless a command that is sent and not read back was lost, which the code has no
  means to notice.
* Native receiver: what is read belongs to this measurement and to the ADC whose
  file it is written to; without an incident less than one packet of each ADC's
  data is missing; it ends.
* Panels: what is shown is what the camera has, as far as it has been heard and
  no command that is sent only was lost; the internal triggers are those of the
  configuration file.
* Plots: a curve goes into the plot of its window and its legend names it.
* Not modelled: a command answer of the C++ client reaches the caller that waits
  for it and no other; a C++ session's buffers outlive the threads that use them.

## 2. Plan

| module | contents | state |
|---|---|---|
| `RegCom`, `RegComProofs` | register access by several threads over an unreliable network, its invariants proved | done |
| `RegFile`, `RegComRefines` | the abstract promise: every call reads or writes the registers at one moment; `RegCom` implements it, proved in `RegComProofs` | done |
| `CardControl`, `CardControlProofs` | the operations that read, change and write back, each access one step as `RegFile` allows | done |
| `CamStream`, `CamStreamProofs` | receiver, ring and evaluation of one sample stream, and their stop | done |
| `GuiMeasurement`, `GuiMeasurementProofs` | the threads of the GUI, the program they start and the files between them: start, stop, exclusion, updates, polling | done |
| `CameraSession`, `CameraSessionProofs` | connect, close and factory reset with their error paths; the timer setup and the packet that collects its commands, over several cameras | done |
| `NativeReceiver`, `NativeReceiverProofs` | `measure()` with the Python receiver, the camera's streams and the second of silence | done |
| `ControlPanel`, `ControlPanelProofs` | the entries, toggles and trigger modes of the GUI against the camera | done |
| `PlotFigures`, `PlotFiguresProofs` | the plot panel's lists against the windows, with nested handlers | done |

`CardControl` takes register accesses as `RegFile` promises them, `CameraSession`
and `ControlPanel` take whole operations as one step with a result; `CameraSession`
adds what is below that level, the packet shared by all commands, which may be
kept, dropped or lost.

Theorems, in this order: the invariants of `RegCom` and of `CardControl`, the
exclusions of `GuiMeasurement`, everything checked of `CameraSession` and
`ControlPanel`, of `NativeReceiver`, `CamStream` and `PlotFigures`, what is copied
and shown by `GuiMeasurement`, and that `RegCom` implements `RegFile` (all done).
Every safety property of a run is stated by a theorem; the liveness properties
stay with TLC. Next would be how far the assumptions of section 5 can be weakened.

Not planned: the C++ command client, sessions and thread wrappers. They are used
by `APDTest_10G` in one fixed sequence before and after the streams, by one
thread, and their hazards (a late answer finding a deleted context, buffers freed
under running threads) are listed in `PROJECT.json` without a property. The
unpacking of samples and the channel maps are constant tables and loops without
state.

## 3. The modules and the code

### RegCom

One `APDCAM10G_regCom` object, used by the threads `Thread`. A thread is in one
call of `Calls` at a time; `pc` says where:

| `pc` | code (APDCAM10G_control.py) |
|---|---|
| `acquire` | `self.lock.acquire()` at the start of `readPDI`, `readCCdata`, `writePDI` |
| `rsend`, `recv`, `rdone` | the send loop, the answer loop and the end of a repetition in `readPDI` and `readCCdata` |
| `clear`, `wclear` | `clearAnswerQueue`, called from the read loop and from the write loop |
| `wsend`, `wdone` | the send loop and the end of `writePDI`; between them its read back is a nested read |
| `append` | `loadTimerSetup` appending commands with `sendImmediately=False` |
| `flush` | the sending call of `sendCommand` outside the longer critical sections |
| `dead` | an exception in `sendCommand` with the lock held |

`UDP_data` is the packet under construction, shared by all threads. `toCam` and
`rxq` are the two directions of the UDP channel and the queue of the socket.
`Shape[r]` is all that the code compares in an answer: the byte count, or the
block code of a control card block. The building of a packet inside a critical
section is one step with its sending, because no other thread can touch
`UDP_data` between them; in `loadTimerSetup`, which holds no lock, every command
is a step. The camera executes commands in the order sent and answers the reads.
`Faults` names what may go wrong; the code's reaction to each is modelled, the
exceptions included. `close()` empties the socket and takes no lock.

### RegFile, RegComRefines

`RegFile` is what a user of the class may rely on: between its request and its
answer a call has one moment at which it reads all its registers, a checked
write that answers without an error is in the registers at that moment, and
commands without a read back take effect later, in the order sent, or never.
`RegComRefines` maps the threads' `pc` to the stages of a call, the lock to the
call being made, and the unchecked commands in `toCam` and `UDP_data`
(`SendsIn`) to the sends without effect. A thread that holds the lock is `busy`; the
step that gives it back and returns is the moment of the call. The camera's
execution of a checked write is a step of the call in progress (`Overwrite`).

### CardControl

The operations that read a control register, change bits and write it back:
`setADCDualSATA`, `syncADC` (both hold the RLock from their first step to their
last), `setDualSATA`, `setTrigger` with `setInternalTriggerADC`, `HVOn`/`HVOff`
(`switchHV`) and `setAnalogPower` (no lock between their steps). A register is
the set of its bits that are set, and `copy` is the variable `data` of the
Python method. One `readPDI` or `writePDI` is one step, the granularity `RegFile`
promises; its error is a fault, and a failed write may have changed any of its
registers. The error paths are those of the code: `setADCDualSATA` takes
`data[0]` of a failed read, `syncADC` overwrites the error of its second write.
`lock` is the owner between two steps; the nested acquisitions of the accesses
are `Available`.

### CamStream

One sample stream of `APDTest`, from `APDCAM_Start` on. The receiver thread
(`CUDPServer::Handler`, `CCamServer::OnRead`) writes packet number
`PacketCounter` into slot `PacketCounter % MaxPacketNo` before it looks at the
packet (`ReceiveNext`, `ReceiveStray`), and counts, rejects or signals in a
second step (`CountOneShot`, `CountCyclic`, `CountTest`, `Reject`). The
evaluation thread waits for the signal (`Wake`), reads the packet counter
(`ProcessData`), then for each packet its header (`ReadHeader`), fills gaps with
zeros (`Fill`) and cuts the data into blocks (`Frame`). `signals` counts the
bytes in the pipe the event is made of: `Set` writes one, `Reset` takes one. The
caller stops the receiver, then the evaluation (`Stop`, `ServerExit`,
`EvalExit`). Data is counted in octets (`CC_OCTET_SIZE` bytes), numbered as the
camera sends them, 0 for a zero put in; so "in order and in place" is a
statement about numbers. The bytes asked for go through an `unsigned int`
(`CLnxServer::SetNotification`, LnxClasses.cpp:485): `RequestedData` is what is left
of them, `DataFits` that nothing is cut off. `exit(1)` after a continuity error is `abort`, a
division by zero `crash`; both end the process. The camera sends its packets in
order and may mark them as test packets; the network may lose, repeat or delay
them, or deliver one of another stream.

### GuiMeasurement

The main thread (`main`, buttons and the attempts of `APDCAM_on`), the thread
of `update_APDCAM_widgets` (`updater`), a thread of `runMeasurement` for each
measurement of `Meas`, and for each of them the program `APDTest_10G` it starts.
The flags are the attributes of the GUI class of the same names; `sock` is the
open `commSocket`. The labels of a measurement thread:

| `pc` | code |
|---|---|
| `begin`, `loop`, `settings` | apdcam10g_control_gui.py 513-582, 584, 593-608 |
| `measure`, `kill`, `fork`, `await`, `failed` | `measure()`, APDCAM10G_control.py 2146-2294: registers and command file; `killall` and `rm`; the program in the background; the wait for its first lines; 619-623 of the GUI after an error |
| `status`, `read` | 632-637 with `measurementStatus`: the process list, then the output |
| `over`, `wait`, `wstatus`, `wread`, `config`, `abort` | 638-682: what follows the loop, the wait for the data, `writeConfigFile`, `abortMeasurement` |
| `end`, `check`, `copy`, `finish` | 684, 686, 689-695, 696-706 |
| `dead` | an exception ended the thread |

A program is `forked` (the shell has not emptied the output file yet), `running`,
`measuring`, `erring` (an error line is printed, the commands go on) or `saving`,
and ends as `done`, `failed`, `crashed` or `killed`. The shared files keep only
whose they are: `out` with two kinds of lines, `dat`, `xml`, and `copied` for the
directories of the shots. `env` fixes, per behaviour, what may go wrong.

A register access is one step, and a thread that holds the lock when its socket
is closed ends with it (`LockLost`), as `RegCom` shows with `close`. Time is two
limits, `meas_length + 2` and the time for saving, counted from before
`measure()` as in the code; a program that does not hang ends before the second.
`Kill` waits for a forked shell to become its program: a thread needs seconds to
come from the fork to the next `killall`.

Most properties are stated for behaviours in which `measure()` does not fail
(`Sequential`). After a failure, line 622 gives the flag up although the thread
is still at work, and 687 does so again at its end; a third measurement may then
run beside the second.

### CameraSession

One program with an `APDCAM10G_regCom` object and its `CAMTIMER`, which may use it
for several cameras one after the other. The stages of `pc`:

| `pc` | code (APDCAM10G_control.py) |
|---|---|
| `open`, `identify`, `boards`, `interface` | `connect`: `startReceiveAnswer`; the firmware (`Identify`); the boards (`FindBoards`); `getInterface` |
| `getDualSATA` | the last step of `connect` and the first of `FactoryReset` |
| `reset`, `resetCC` | `FactoryReset`: the ADC and control boards (`ResetBoards`), then `OP_RESET` (`ResetCard`) |
| `sata`, `adcs` | `setDualSATA`, called by `FactoryReset` or by the program: the communications card (`SetSata`), then `setADCDualSATA` (`SetAdcs`) |
| `append` | `loadTimerSetup`, one command after the other |
| `mode1`, `mode2` | `timerIdle`, `timerArm`, `timerRun` after their read |

A register access is one step, as `RegFile` allows. Below that level the module
has the packet under construction: `UDP_data` holds the last command for each
register of `Reg` (dual SATA and the timer registers), because the camera
executes a packet in order and each command writes its register whole; `OP_RESET`
is a command for all of them. What a send can do is `Send` and `SendFails`:

* the packet is executed (`Execute`), or it is lost and the caller gets "" all the
  same (`Lose`);
* a `socket.error` (727-731), or no socket at all, keeps everything in `UDP_data`
  for the next access, of this thread or another, to this camera or another;
* a packet sent short (732-735) is dropped with an error.

A read sends what has been collected with its own command and repeats only the
latter, so it succeeds although the commands in its packet were lost (`readCCdata`,
`ReadFails`). None of the commands of `Reg` is read back by the code. `gone` is
history: the registers whose last command was lost since the call began. The
properties name it, because the code promises nothing for such a register: nobody
notices. `OtherAccess` is any access of another thread: it sends the packet.

`setup` and `kind` are the cameras, of firmware before 105 (`v1`), from 105 (`v2`),
with no boards or unknown; `HasRegisters` is what the two code tables differ in
here, because the differences are exceptions in the code. `moved` says that
`setIP` turned the open connection to another address. `InRange` has the checks of
`loadTimerSetup` and its exceptions: of `to_bytes` for the clock divider, and for the
channels of a timer that are not a number of four bits (1301), as in the
`bytes([0])` they begin with (`NoChannels`). Negative settings are refused by the
same checks as those that are too large, fractions are rounded in memory first; the
model has natural numbers. `shared` is the set of timers that are still one and the
same Python object.

### NativeReceiver

`measure(data_receiver='Python')`: `pc` follows `measure()` and, inside it,
`allocate`, `startReceive` (`arrays`, `receive`), `startStream`, `getData` (`data`)
and the stops. The camera side is what it was told (`sata`, `samples`, `octets`)
and what it has still to send (`on`, `left`); a packet keeps the measurement and
the ADC it is from, which the code never looks at. `buffer` is the host's socket
queue, `got` what the receiver has read. Masks and resolution are those of the
request, a mask for each chip of each ADC. The sizes of packets are computed as in
the code, with the rounding that makes the number of packets a float;
`packets_per_adc` is the number the receiver waits for, `CameraPackets` the one
the camera sends, which has an incomplete packet at the end and is computed from
the channels that are set, not from the highest one.

A command arrives (`Arrives`), is lost unnoticed (`Lost`), or is refused with an
error (`Refused`). A `socket.error` leaves it in `UDP_data`, so a START or a STOP
that has "failed" is executed with the next command, at the latest with the
`readStatus` of the next `measure()` (2146), before that one has sent a STOP.
`stopped` is history: no START has been executed, or is waiting in `UDP_data`,
since the last executed STOP; `clean` is its value when a measurement began to open
its sockets. `fault` says that a setting, the START, the trigger or data got lost
in this measurement.

### ControlPanel

The camera (`cam`) and what the panels believe of it: `field` for the entries,
`state` and `shown` for the toggles. Voltages are counts in the camera and tenths of
a volt in the panel, with the conversions of the code: the factor 255 (`HVReading`),
the rounding of the display (`Volts`) and the truncation of what is written
(`Counts`). `pc` is the place in `APDCAM_on` (`status` to
`light`), in the settings panel's `update` (`power`, `sata`, `pattern`) and in
`trigmode_change` (`clear`, `set`); a button runs to its end in the main thread.
Each access may fail, after which the code closes the connection or not, reverts
the widget or not, and goes on or not, as modelled action by action. `doubt` is a
history variable: the settings of which the camera has not been heard since a
failure, a restart or an entry that was typed and not set, and those with a lost
command: `setClock` (1402-1417), `OP_SETSATACONTROL` (1553) and the commands of
`FactoryReset` are sent, answered with "" and never read back. `Fitted` are the
channels of boards that were found; a trigger entry for another one is an
`IndexError` (1993, `EntryRaises`). Exceptions that leave `readPDI` or `sendCommand`
with the lock held set `lockLost`.

### PlotFigures

The lists of `APDCAM_Plot_class`, indexed by figure number, against the windows of
matplotlib, which number themselves; `window` counts how often a number was
used, so that flap's plot ID can tell a window from its successor. Selection
(`NewFigure`, `OldFigure`, `ClosedFigure`) is `figure_select` of the code, also as
called by a plot. A plot is an element of `stack`; handlers run while it is in
`root.update()` (`update1`, `update2`) or in `plt.pause()`. `regular` is history:
windows got the numbers of their list entries, and nothing was closed, brought to
the front or loaded in the middle of a plot.

## 4. The runs

| run | question | answer |
|---|---|---|
| `regcom` | Do reads, checked writes and plain sends of two threads, with packets and answers lost and short sends, behave as `RegFile` says, and do the invariants of the protocol hold? | yes |
| `regcom_faults` | With failing sends and receives, late answers and another thread closing the socket: is the lock always with the right thread, at the right depth, and given back? | yes, except by a thread that an exception has ended |
| `card` | When the operations that share a register are locked, does a change keep other bits, do the dual SATA settings agree, and is the lock given back, with failing writes and commands? | yes |
| `card_mixed` | With unlocked operations on the same registers and failing reads, does the copy of a locked operation stay current and does the synchronisation always end? | yes |
| `card_lost_update` | Does the unlocked `setInternalTriggerADC` keep the other bits? | no |
| `stream` | Samples in place, no lost wake-up, nothing left after a stop, a complete measurement ends, a stop returns? | yes |
| `gui` | Over two measurements, started and stopped at any time, with the camera switched on and off and the program failing, crashing, hanging or waiting for a trigger: one measurement and one program at a time, each shot's own data in its directory, an end after a stop? | yes |
| `gui_stop` | Is `measurementRunning` set only while a measurement runs? | no, not after a stop before the first iteration |
| `session` | With failing accesses, packets kept, dropped and lost, refused setups and two cameras: is an open connection identified, dual SATA kept by a reset, a loaded setup the one in memory, and does changing the timer mode leave the setup alone? | yes, but for a register whose own command was lost with its packet |
| `native` | With lost packets, commands that are lost, refused or sent later, refused sockets, other SATA settings and late triggers: does what is read belong to this measurement and its ADC, is less than a packet of each ADC missing without an incident, does `measure()` return? | yes; the first two unless a stream was started, or to be started, when the sockets were opened |
| `panel` | Over any three clicks, failures and lost commands: do the panels show what the camera has, and are the internal triggers those of the file? | yes, for what has been heard of the camera since; a voltage to less than a count |
| `plot` | With windows closed, activated and made again, and handlers nested: are the lists true of the windows? | yes, while windows are numbered in list order |

For every property of a passing run `PROJECT.json` names a mutant, a plausible
slip in the code (a missing release, a queue not cleared, a lock not taken, an
event not reset), under which the run finds the property violated.

### Findings

* **Lost update in `setInternalTriggerADC`** (2017-2033): the register is read
  and written back without the lock over both, unlike in the other operations
  on `ADC_REG_CONTROL` (run `card_lost_update`).
* **A stop before the first iteration ends the GUI's ability to measure**
  (`runMeasurement`, 653): `APD_settings` is not bound, the thread ends with a
  `NameError`, `measurementRunning` stays `True` (run `gui_stop`).

Seen while modelling, without a run of its own; the models contain each of them,
and the properties say what holds nevertheless:

* Register access. A packet survives a `socket.error` in `sendCommand` (729-731):
  it is sent again in front of the repeated command, and its surplus answers are
  taken for those of later reads; the short-send path next to it clears the
  packet. Commands that were reported as failed are executed with the next
  access. `setADCDualSATA` (1577) keeps the lock when an exception comes between
  acquire and release. `syncADC` overwrites the error of the write that ends the
  pulse (1487-1489): the cards may be left synchronising while the caller gets
  the empty error text.
* Session. With firmware from 105 on, `connect` and `readStatus` need names that
  the second code table does not have: an exception, with the socket left open.
  The last steps of `connect` (621) return an error without closing. A refused
  `loadTimerSetup` stays in `UDP_data` and is executed with the next access, by
  another camera if one was connected meanwhile. The timer commands (1304), the
  clock commands (1402-1417) and `OP_SETSATACONTROL` (1553) are sent and never read
  back: a lost packet gives "", and `FactoryReset` then returns "" with dual SATA not
  restored. `OP_RESET` that could not be sent (935) stays in the packet and resets
  the card with the next access. A timer that has been allocated without channels
  keeps their default, `bytes([0])`, and loading it is a `TypeError` (1301) with half
  the setup in the packet. A timer with exactly 2^28
  pulses passes the check (1285) and is loaded with 0. `FactoryReset` returns ""
  when dual SATA could not be restored (939). The attribute `dualSATA` keeps its
  value when `setDualSATA` changes the camera.
* Native receiver. No serial number is looked at. A START that could not be sent
  (727-731) goes out with the first access of the next measurement (2146): streams
  run when its sockets are opened, and its data may be mixed with theirs. The
  incomplete last packet is not waited for (2543-2546): up to one packet of samples
  is missing of each ADC. The number of packets is a
  float unless the sample size is a multiple of 4 bytes: an exception; so is a
  second ADC without dual SATA, and a third one with it. The results of
  `setOctet`, `setSampleNumber` and the stops are not looked at. `measure()`
  returns no error for a stream that was silent for a second.
* Panels. The two bytes of a voltage are combined with 255 (840). A voltage that is
  shown and set again unchanged may come out one count lower, as it is rounded when
  shown and cut off when written (GUI 1112). A trigger for a channel whose board is
  missing is an `IndexError` (1993), and the mode stays internal. A positive
  internal trigger raises an exception, because the code has no `INT_NEGATIVE`,
  and the mode stays internal. The range check of `detTemp_set` is never true.
  `hv_set` does not ask whether there is a connection: `sendCommand` raises an
  exception with the lock held, and the update thread waits for ever.
  `getCallight` takes an element of `None` after a failed read, and the settings
  panel is not updated. A new camera type resets the version shown, not the one
  in the configuration.
* Plots. After a window was closed its number is given again, so "New figure"
  adds an entry whose index is not its number, and the window inherits a plot ID
  and a legend. `legend_list` does not start anew with the other lists (366-367).
  In the control GUI `spectrplot` ends with a `NameError` for `root`, after the
  figure was selected. Data loaded in `root.update()` get the legend of what was
  loaded when the plot is drawn.
* Streams. A one-shot measurement does not survive a lost packet
  (`CCamServer::OnRead`, 38-42): the receiver counts bytes received, so the last
  packets are not signalled and the filling in of zeros is never reached.
  `SetSignalFrequency` (CamServer.h:67) makes the frequency zero for a ring of
  one packet, and `OnRead` divides by it. With a ring of 51 packets or fewer
  a receiver that overtakes the evaluation is not noticed (`CDataEvaluation::ProcessData`,
  DataEvaluation.cpp:323): the gap is below `MAX_PACKET_LOSS`, zeros are filled in.
  The bytes asked for are cut to an `unsigned int` (LnxClasses.cpp:485): from 4 GiB
  per stream on the receiver stops counting early and the samples never come.
* Measurement. The files of a program that was killed are copied as the data of
  the shot, with the configuration of an earlier one (677-689).
  `measurementRunning` is cleared early after a failed `measure()` (622).
  `APDCAM_on` does not set `Update_APDCAM`: the display stands still after a
  reconnection until a measurement has run.

### Bounds, and why they are enough

* `regcom`: two threads, enough for one to work between any two steps of
  another. `RepeatNumber` 2 (5 in the code): a first repetition and a last one.
  Three registers, two of equal byte count that can be mistaken for each other
  and a third between them. `MaxBacklog` 1 and `MaxPacket` 5 bound what may be
  outstanding when a call begins; they cut off only behaviours in which unread
  commands pile up.
* `regcom_faults`: no backlog, two registers, one of them a control card block
  with a code of its own; the properties are about the lock only.
* `card*`: two ADC cards (the first and the last of the loop), two high voltage
  generators, two or three threads.
* `stream*`: a ring of 4 packets that wraps; packets of 3 octets and blocks of 2,
  so every other block spans two packets; 7 samples, not a multiple of anything;
  `LastPacket` 6 in cyclic mode, more than a ring; one stray packet; gaps of one
  and of two packets fillable (`MAX_PACKET_LOSS` 1, and the comparison allows
  one more). `MinFrequency` stands for the 100 of `APDCAM_ARM`, which with a ring
  of 4 would be cut to half a ring anyway. The faults are taken in the
  combinations of `MCFaultSets`. `UIntOctets` 16 is just above the 14 octets asked
  for; with 8, as for a request of more than 4 GiB, TLC finds the first samples only
  and `StoredInOrder` violated. Test packets come alone, because they are
  counted and not signalled.
* `gui*`: two measurements, so one meets what the other has left, in each
  direction. The sets of `MCEnvSets` pair what can meet: a disconnection with a
  failing program, a failing `measure()` with a failing program, a hanging with
  a crashing one. Connecting a connected camera again is left to the sets with
  `disconnect`; elsewhere it changes nothing.
* `session`: two cameras, the first with the older firmware, the second of any
  other kind, the first with dual SATA on or off; two timers, since a third meets
  nothing new in `loadTimerSetup`; a proper setting, one out of range and one without
  channels, one clock divider out of range; all faults at once, any number of
  times; `MaxCalls` 5: edit, refused load, connect elsewhere, edit again, load. A
  reset whose `OP_RESET` is kept, followed by a connection to the other camera and a
  load, fits as well.
* `native`: one, two and three ADCs (the array sizes fail in different ways with
  two and three); three requests, whose masks differ between the first ADC and the
  others, full, with holes, or of a size that needs rounding; an MTU too
  small for an octet and one for 8 octets; two measurements, so that the second
  meets packets, settings and kept commands of the first; `Endless` 3 packets stand
  for a stream without a sample count. Five samples of a full board are two and a
  half packets, so a last packet is incomplete.
* `panel`: two boards fitted and a channel of a third that is missing; three
  channels, one of which has two names; levels 0 to 3 and a byte of 2 values, so that
  a voltage has a high byte; `MaxClicks` 3 user actions or incidents, each of several
  steps, besides an initial camera left by another program. `ShownIsSet` needs two
  (an action and one that disturbs it). Entries 0, 1 and 3 tenths of a volt are 0, 0
  and 2 counts.
* `plot`: two sets of one dimension and of three, three figures (two open and one
  to come), two plots nested, 7 events: a window opened, plotted, closed and made
  again takes 5.

Where the system may really stop (no camera packet left, an ended process, all
threads dead, no backlog or no call or click left) `CHECK_DEADLOCK FALSE` is set; `regcom` and
`card` check that it does not.

### Fairness

* `RegCom`: `WF` of each thread while it is in a call, because threads are
  scheduled, and of the camera, which executes what it was sent. Acquiring the
  lock is not fair: Python's `RLock` gives no order, and `LockIsReleased` is
  about the holder.
* `CardControl`: `WF` of each thread in a call, acquisition excepted.
* `CamStream`: `WF` of the steps of the receiver and of the evaluation. `SF` of
  receiving the next packet, because the socket's queue is first in, first out:
  a stray packet delays it and cannot replace it for ever. Nothing makes a
  caller stop or the network lose anything.
* `NativeReceiver`: `WF` of the receiver's steps, a thread with timeouts on every
  receive, and of each stream's sending. A stream that waits for a trigger is
  silent, not unfair.
* `GuiMeasurement`: `WF` of the steps of a measurement thread, of what a program
  does unless it hangs or waits for a trigger, and of the time. Nobody has to press a
  button, and a trigger need not come. `MeasurementEnds` allows `LockLost`: a
  thread waiting for a lock that an ended thread keeps waits for ever.

## 5. The proofs

Eight modules hold the proofs, one for each component. All results are proved for
every value of the constants, under the assumptions of the modules
(`RegComAssumption`, `CardAssumption`, `GuiAssumption`, `SessionAssumption`,
`PanelAssumption`, `NativeAssumption`, `StreamAssumption`, `PlotAssumption`,
`ToggleAssumption`): the constants have their types, a call names at least one
register and as many values, boards are numbered from 1, rings, packets and blocks
are not empty, there is at least one request and one MTU, and `None` is no title,
camera type, number or plot ID. `GuiMeasurementProofs` is for any number of
measurements and every environment. Where a theorem needs more, it is named
below.

* `RegComProofs!TypeCorrect`, `LockCorrect`: types, bounded repetition and the
  depth of the lock, under every fault. The types alone are not inductive: that
  a thread in the write loop makes a write call (`OpInv`), and that a loop is
  entered with a counter below `RepeatNumber` (`LoopInv`), are part of
  `TypeInv`. `LockDiscipline` is inductive relative to `TypeInv`.
* `RegComProofs!ReadCorrect`, `WriteCorrect`, `WireClean`: a successful read is
  current, a successful checked write is in the registers, a free lock means a
  clean wire, when packets and answers are at worst lost or a send is short
  (`OnlyLoss`). The invariant `SafeInv` counts: during a repetition the answers
  read, the answers waiting and the reads under way are at most the registers
  asked for, and as long as they are exactly as many, each stands in its place;
  one that is missing stays missing until the queue is cleared, because the
  receive times out only on an empty wire. This is why the assumption is needed:
  with late answers, or after a `socket.error`, the count is wrong and nothing
  in an answer tells so.
* `RegComProofs!Refines`: under the same assumption `Spec => IsRegFile`, step by
  step. `FileInv` is needed besides: no error text before the network was used,
  and the checked writes on their way belong to the call that holds the lock
  (`Owned`), so that the camera's step is one of that call. Most steps inside a call are
  steps of `RegFile` that lose what was posted, or none (`Within`). `SendsIn` is
  a recursive function; that it turns joined packets into joined commands
  (`SendsOfBoth`) is proved with a least counterexample (`UpTo`), as are the
  other facts about it. Without the assumption it is false: a late answer
  is a read that never happened.
* `CardControlProofs!TypeCorrect`, `CopiesStayCurrent`: with any operations in
  other threads and any failure. `IInv` adds to the types that the lock owner is
  the thread inside a locked operation (`LockInv`) and which labels belong to
  which operation (`LabelInv`); a step of another thread that touches a register
  needs the lock available, which it is not.
* `NoLostUpdate`: when threads only call locked operations (`OnlyLockedOps`) a
  step changes nothing but the bits it is about, from `IInv`.
  `card_lost_update` shows what happens without the assumption; the run `card`
  allows more, unlocked operations on registers no other thread uses.
* `SyncEnds`: without failing writes, a free lock means no card is left
  synchronising, for any mixture of locked and unlocked operations. `SyncInv`
  says besides that no copy taken outside the pulse has the bit set; an unlocked
  operation could otherwise write it back. With a failing write it does not
  hold: the cards keep the bit.
* `SataAgrees`: `setDualSATA` without an error has set the control card and every
  ADC card, when no command is lost (nobody reads it back) and one thread at most
  calls it (`OneSetter`; its callers are in the main thread, and the command is
  sent before the lock is taken). `SataInv` says that the cards the loop has
  passed have the setting; no other thread can write them, as the lock is held.

* `GuiMeasurementProofs!TypeCorrect`, and `Exclusion`: one measurement at a time.
  `FlagInv` says the flag is set while a thread is at work. It is inductive only
  with `OutputInv`, which keeps the threads out of the error branch that gives
  the flag up: with `measure()` succeeding, a program prints the start before
  any error, so `await` finds it.
* `ProgramExclusion`: one program at a time. `KilledInv` says that nobody is alive
  between a `killall` and the start of the next program; it needs `Exclusion`,
  for a second thread could start its program there.
* `UpdatesResume`: while the updates are off, some thread still has to switch them
  on again (`Owes`), also beside other threads and after errors. It needs
  `ConnectionInv`: without a disconnection no thread ends with an exception
  before it has come to its end.
* `CopiesAreOwn`: for a measurement at work, its program alone writes the files
  (`ProgramInv`, from the two exclusions), and who has waited for the program's
  end without an error or a stop finds its data, then its configuration, in
  place (`ResultInv`). `ThreadInv` is needed for the ways around: nobody comes
  past the loop without having started its program, unless an error or a stop
  is remembered, and those prevent the copy.

* `CameraSessionProofs`: `Identified` from `ConnectInv`, which says of each stage of
  `connect` what has been learnt of the camera, and which call a stage belongs to;
  it is for connections that `setIP` has not turned elsewhere (`moved`).
  `ResetKeepsSata` from `SataInv`: once it has been sent, the dual SATA command is
  not in the packet any more, and the camera has the setting or the command was
  lost; a reset that was kept in the packet went out before it or with it.
  `LoadCorrect` from `LoadInv`: while a setup is
  collected, each of its commands is in the packet, has been executed with the
  access of another thread, or was lost with it (`gone`), so that the last packet
  completes it; what an earlier setup or reset left in the
  packet is overwritten, because a setup has a command for every register it
  touches. No bound on how often anything is lost is assumed; the theorems say what
  a caller knows after "" and no more. `MemoryInv` adds that a timer not in use is a
  fresh object (`SharingIsHarmless`). `ModeChangesRunOnly` from `ModeInv`: between the
  read and the last command of a mode change the packet is empty, so accesses of
  other threads send nothing, and the mode read stays that of the camera.
* `ControlPanelProofs`: `PanelsTellTheTruth` from `ShownInv`, which is `ShownIsSet`
  at every place of the main thread; it needs `StatusInv`, that nothing has been
  heard yet when the status is read, because a large voltage is then shown wrong
  and must be in doubt. That a voltage agrees to less than a count, from either
  side, is arithmetic about the two conversions (`VoltsType`, `CountsType`). A
  setting whose command may have been lost is in doubt from then on.
  `TriggersCorrect` from `TrigInv`: up to the loop variable
  the channels have the trigger of their last name with an entry, and the mode
  that is fallen back to is the internal one only if it is selected anyway.

* `NativeReceiverProofs`: `TypeCorrect` with `RoomInv`, that a packet has room for an
  octet before anything is divided by it. `DataIsFresh`: what is held, in a socket or
  in the arrays, is of this measurement and its ADC (`PacketsInv`) if the
  streams were stopped when the sockets were opened (`clean`), because streams
  that were stopped are silent, nothing that waits in the packet starts them before
  this measurement does (`WaitingInv`), and no socket outlives `measure()`
  (`StreamsInv`).
  `MeasurementIsComplete`: without an incident the camera has been told what was
  asked for (`SetUpInv`), and for each stream what is read, what waits and what is
  still to come are as many packets as the receiver waits for, or as the camera
  sends (`DataInv`); a stream ends only when it is silent for a second with nothing
  to come (`DoneInv`). That either number leaves less than one packet of the data the
  camera sends is arithmetic: quotients with a rest (`Rest`), masks, whose highest
  bit is at least their number of channels (`MaskBits`), and sizes of samples, which
  rise with it (`SampleSizes`).
* `CamStreamProofs!TypeCorrect`, and `StopLeavesNothing`: from `SignalInv`. After
  the receiver has ended nothing is counted, and its last signal is there until
  the evaluation has seen the last count (`LastInv`); the evaluation would
  stop at a waiting packet of another stream (`OwnInv`).
* `WakeupIsNotLost`: `WakeInv` says that there is a signal, or the evaluation is about
  to read the counter, or everything that is signalled for is covered by what it
  has read. It is needed at every place of the evaluation, not only in its sleep.
* `SamplesInOrder`, the longest proof. `OrderInv` relates the octets stored to the
  packets before: the octets before the packet expected are those stored and those in the work
  buffer, each with its value (`WorkInv`); each packet since the expected one waits
  behind earlier ones, was lost, or was not counted as there was enough
  (`Healthy`); or, when the receiver has overtaken the evaluation, the next
  packet is so far ahead that the continuity check ends the program (`Doomed`).
  Gaps being filled are lost packets (`HeaderInv`).
* `PlotFiguresProofs!TypeCorrect` and `ListsAreTrue`: from `PlotInv`, that the lists reach
  as far as the numbers of the windows (`ListsInv`) and, as long as nothing came
  in between, that of all plots under way only the innermost is between its
  drawing and what is recorded of it (`RegularInv`). The property says nothing
  of plots under way, so it is not inductive: a nested plot draws in the window
  that an outer one has selected.

The theorems about streams have assumptions on the combinations of faults, which
hold for the sets the run checks, and TLC shows that they are needed:

* `StopLeavesNothing` and `WakeupIsNotLost` need that overrun and packets of another
  stream do not come together (`OwnPackets`): otherwise a stray packet overwrites
  a counted one, and the evaluation stops at it. `WakeupIsNotLost` needs a ring
  of two packets at least, for which the signal frequency is not zero.
* `SamplesInOrder` needs that overrun comes without disorder and without packets of
  another stream, and that fewer than `MaxPacketNo - 1` lost packets are filled
  in (`OverrunAlone`), and that the data asked for fits into an `unsigned int`
  (`DataFits`): an overrun is only noticed as a gap of a whole ring.
  With `MAX_PACKET_LOSS = MaxPacketNo - 1`, or with disorder besides, TLC finds
  samples in the wrong place; with `MaxPacketNo - 2` it finds none. In
  the program the limit is 50 (`DataEvaluation.h:13`) and the ring a percentage of
  the measurement's data, 10 by default (`HighlevelFunctions.cpp:667`, 725-735),
  so that a short measurement, with a ring of 51 packets or fewer, is outside the
  assumption: an overrun then passes for a gap, and zeros stand for packets that
  were received, until a packet with a smaller counter ends the program or the
  measurement is complete.

Left to model checking: `LockIsReleased`, `LockGivenBack`, `MeasurementEnds`,
`StopReturns` (liveness under fairness, which the prover does not do). What recursive
definitions compute for every input is proved only for `SendsIn`, from its
definition.

## 6. What the models leave out

* `OP_WAIT` and the delays; the bytes of commands and answers; UDP duplication
  and reordering on the register channel (a local network; the code has no
  defence). Late answers are modelled and do break `ReadIsCurrent`: a late
  answer is accepted for a later read when its byte count fits.
* The cached status object as data: `CameraSession` has `readStatus` with its
  errors and `getDualSATA`, `ControlPanel` what the panels take from them.
* In `CamStream`: the overwriting of the packet that is just being copied, which
  can mix a sample from two packets unnoticed; packets of another stream
  together with an overrun, after which the evaluation starts a block in the
  middle of a sample; errors of `recvfrom`; triggers, calibration, the unpacking
  of samples.
* In `GuiMeasurement`: `waitForMeasurement`, which the GUI does not use; the contents of settings and of the display; leaving the
  GUI; the error of `readStatus` that `writeConfigFile` ignores; a user who
  runs a second GUI.
* Lost commands: `RegCom`, `CardControl` (dual SATA), `CameraSession`, `NativeReceiver`
  and `ControlPanel` have them where the code sends without reading back; none of the
  properties says that they do not matter. Left out is a loss of those commands of
  `connect`, `FactoryReset` and the set-up of a measurement that write registers the
  module does not have (the synchronisation of the boards, the sample divider).
* In `CameraSession`: timer attributes that are negative or fractions, and attributes
  of a timer that the program writes itself after `allocateTimer`.
* In `NativeReceiver`: the order of packets in the network, their contents, and
  the octets of a packet beyond their number.
* In `ControlPanel`: the shutter, the camera type lists, the other threads, which
  change no setting; in `PlotFigures`: what flap draws, the ranges and filters,
  which are parameters of its calls.
* The C++ command client, sessions and thread wrappers, see the plan.
* The components with status `not_modelled` in `PROJECT.json`, with their reasons.
