--------------------------- MODULE GuiMeasurement ---------------------------
(***************************************************************************)
(* A measurement from the GUI: the main thread with its buttons, the       *)
(* thread that updates the status display, one thread per measurement, the *)
(* program APDTest_10G each of them starts, and the files in data/ through *)
(* which the program and the threads talk.                                 *)
(*                                                                         *)
(* The threads share plain flags. Only measurementRunning keeps two        *)
(* measurements from using the same files, and only stopMeasurement ends   *)
(* one. A register access is one step here (see RegFile); after close() it *)
(* ends the thread with an exception in sendCommand, which keeps the lock. *)
(***************************************************************************)
EXTENDS Naturals, FiniteSets

CONSTANTS
  Meas,      \* the measurements the user starts
  NoMeas,
  EnvSets    \* what the environment may do, see below

(***************************************************************************)
(* disconnect    the APDCAM is switched off or does not answer             *)
(* measureFails  measure() returns an error text                           *)
(* progFails     APDTest_10G prints an error line while it measures        *)
(* progCrashes   APDTest_10G ends without saving and without an error line *)
(* writeFails    APDCAM_config.xml cannot be written                       *)
(* hang          APDTest_10G does not end in the time expected             *)
(* trigger       the measurement waits for a trigger that may never come   *)
(***************************************************************************)
AllEnv == {"disconnect", "measureFails", "progFails", "progCrashes", "writeFails",
           "hang", "trigger"}

ASSUME GuiAssumption ==
  /\ NoMeas \notin Meas
  /\ EnvSets \subseteq SUBSET AllEnv

VARIABLES
  env,                 \* chosen for the whole behaviour
  sock,                \* commSocket is open
  APDCAM_connected, Update_APDCAM, stopMeasurement, measurementRunning,
  main,                \* what the main thread is doing
  updater,             \* the thread of update_APDCAM_widgets
  pc,                  \* the measurement threads
  local,               \* and their local variables, see Local
  prog,                \* the programs, one per measurement
  out,                 \* APDTest_10G.out: who wrote it, and its lines
  dat, xml,            \* whose Channel*.dat and APDCAM_config.xml are in data/
  measurePara,         \* whose parameters the register object holds
  copied               \* what is in the directory of each shot

flags  == <<APDCAM_connected, Update_APDCAM, stopMeasurement, measurementRunning>>
files  == <<out, dat, xml, copied>>
disk   == <<prog, files, measurePara>>
vars   == <<env, sock, flags, main, updater, pc, local, disk>>

Owner == Meas \cup {NoMeas}

Outside == {"none", "done", "dead"}
PC == Outside \cup
  {"begin", "loop", "settings", "measure", "kill", "fork", "await", "failed",
   "status", "read", "over", "wait", "wstatus", "wread", "config", "abort",
   "end", "check", "copy", "finish"}

(* err # "", whether APD_settings and the trigger variables are bound,     *)
(* APDCAM_started, run_stat of measurementStatus, and how many of the two  *)
(* time limits have passed.                                                *)
Local == [err : BOOLEAN, settings : BOOLEAN, started : BOOLEAN,
          seen : {"Running", "Finished"}, clock : 0 .. 2]

Fresh == [err |-> FALSE, settings |-> FALSE, started |-> FALSE, seen |-> "Running",
          clock |-> 0]

Live == {"forked", "running", "measuring", "erring", "saving"}

(* Every variable keeps its type.                                          *)
TypeOK ==
  /\ env \in SUBSET AllEnv
  /\ sock \in BOOLEAN
  /\ flags \in BOOLEAN \X BOOLEAN \X BOOLEAN \X BOOLEAN
  /\ main \in {"idle", "connecting", "retry", "closing", "blocked"}
  /\ updater \in {"idle", "reading", "dead"}
  /\ pc \in [Meas -> PC]
  /\ local \in [Meas -> Local]
  /\ prog \in [Meas -> Live \cup {"none", "done", "failed", "crashed", "killed"}]
  /\ out \in [of : Owner, lines : SUBSET {"start", "error"}]
  /\ dat \in Owner /\ xml \in Owner /\ measurePara \in Owner
  /\ copied \in [Meas -> [made : BOOLEAN, dat : Owner, xml : Owner]]

Init ==
  /\ env \in EnvSets
  /\ sock = FALSE
  /\ APDCAM_connected = FALSE /\ Update_APDCAM = TRUE
  /\ stopMeasurement = FALSE /\ measurementRunning = FALSE
  /\ main = "idle" /\ updater = "idle"
  /\ pc = [m \in Meas |-> "none"]
  /\ local = [m \in Meas |-> Fresh]
  /\ prog = [m \in Meas |-> "none"]
  /\ out = [of |-> NoMeas, lines |-> {}]
  /\ dat = NoMeas /\ xml = NoMeas /\ measurePara = NoMeas
  /\ copied = [m \in Meas |-> [made |-> FALSE, dat |-> NoMeas, xml |-> NoMeas]]

-----------------------------------------------------------------------------
(* A thread has ended in sendCommand and keeps the lock for ever.          *)
LockLost == updater = "dead" \/ \E m \in Meas : pc[m] = "dead" /\ local[m].settings

Active(m) == pc[m] \notin Outside

At(m, label) == pc[m] = label

Goto(m, label) == pc' = [pc EXCEPT ![m] = label]

Set(m, field, value) == local' = [local EXCEPT ![m][field] = value]

(* A thread that has ended has no variables.                               *)
Ends(m) == Goto(m, "done") /\ local' = [local EXCEPT ![m] = Fresh]

-----------------------------------------------------------------------------
(* The main thread.                                                        *)

(* Mutant: the button does not look whether a measurement is running.      *)
startExp_Always(m) ==
  /\ main = "idle"
  /\ At(m, "none")
  /\ measurementRunning' = TRUE /\ stopMeasurement' = FALSE
  /\ Goto(m, "begin")
  /\ UNCHANGED <<env, sock, APDCAM_connected, Update_APDCAM, main, updater, local, disk>>

startExp(m) ==
  /\ main = "idle"
  /\ At(m, "none")
  /\ ~measurementRunning
  /\ measurementRunning' = TRUE /\ stopMeasurement' = FALSE
  /\ Goto(m, "begin")
  /\ UNCHANGED <<env, sock, APDCAM_connected, Update_APDCAM, main, updater, local, disk>>

stopExp ==
  /\ main = "idle"
  /\ stopMeasurement' = TRUE
  /\ UNCHANGED <<env, sock, APDCAM_connected, Update_APDCAM, measurementRunning, main,
                 updater, pc, local, disk>>

others == <<env, stopMeasurement, measurementRunning, updater, pc, local, prog,
            files, measurePara>>

(* The attempts of APDCAM_on: connect opens the socket, if it is not open, *)
(* and talks to the camera; after an error APDCAM_on closes it, tries      *)
(* again, and in the end goes on as APDCAM_off. Connecting once more to a  *)
(* camera that answers changes nothing.                                    *)
APDCAM_on ==
  /\ main = "retry" \/ (main = "idle" /\ (~APDCAM_connected \/ "disconnect" \in env))
  /\ sock' = TRUE
  /\ main' = "connecting"
  /\ UNCHANGED <<others, APDCAM_connected, Update_APDCAM>>

Connected ==
  /\ main = "connecting" /\ ~LockLost
  /\ APDCAM_connected' = TRUE
  /\ main' = "idle"
  /\ UNCHANGED <<others, sock, Update_APDCAM>>

ConnectFails ==
  /\ main = "connecting" /\ ~LockLost
  /\ "disconnect" \in env
  /\ sock' = FALSE
  /\ main' = "retry"
  /\ UNCHANGED <<others, APDCAM_connected, Update_APDCAM>>

APDCAM_off ==
  /\ main = "retry" \/ (main = "idle" /\ "disconnect" \in env)
  /\ Update_APDCAM' = FALSE
  /\ main' = "closing"
  /\ UNCHANGED <<others, sock, APDCAM_connected>>

Close ==
  /\ main = "closing"
  /\ sock' = IF APDCAM_connected THEN FALSE ELSE sock
  /\ APDCAM_connected' = FALSE
  /\ main' = "idle"
  /\ UNCHANGED <<others, Update_APDCAM>>

(* A change of a setting failed: set_HV and the like.                      *)
commErrorResponse ==
  /\ main = "idle" /\ APDCAM_connected /\ ~LockLost
  /\ "disconnect" \in env
  /\ sock' = FALSE
  /\ APDCAM_connected' = FALSE
  /\ UNCHANGED <<others, main, Update_APDCAM>>

(* The main thread needs the lock for a setting, or to connect.            *)
Blocked ==
  /\ LockLost
  /\ main = "connecting" \/ (main = "idle" /\ APDCAM_connected)
  /\ main' = "blocked"
  /\ UNCHANGED <<others, sock, APDCAM_connected, Update_APDCAM>>

MainStep ==
  \/ stopExp \/ APDCAM_on \/ Connected \/ ConnectFails \/ APDCAM_off \/ Close
  \/ commErrorResponse \/ Blocked \/ \E m \in Meas : startExp(m)

-----------------------------------------------------------------------------
(* The update thread: a readStatus whenever both flags are set.            *)

unread == <<env, sock, flags, main, pc, local, disk>>

BeginUpdate ==
  /\ updater = "idle"
  /\ Update_APDCAM /\ APDCAM_connected
  /\ updater' = "reading"
  /\ UNCHANGED unread

EndUpdate ==
  /\ updater = "reading" /\ ~LockLost
  /\ updater' \in {"idle"} \cup (IF sock THEN {} ELSE {"dead"})
  /\ UNCHANGED unread

-----------------------------------------------------------------------------
(* The program: APDTest_10G executes the command file. Its output file is  *)
(* emptied by the shell that starts it in the background, which may be     *)
(* after the measurement thread has looked into it.                        *)

Become(m, state) == prog' = [prog EXCEPT ![m] = state]

Writes(m, line) ==
  out' = IF out.of = m THEN [out EXCEPT !.lines = @ \cup {line}] ELSE out

Exec(m) ==
  /\ prog[m] = "forked"
  /\ Become(m, "running")
  /\ out' = [of |-> m, lines |-> {}]
  /\ UNCHANGED <<dat, xml, copied>>

(* The commands up to START; an error is printed and the next command      *)
(* executed all the same.                                                  *)
StartCommand(m) ==
  /\ prog[m] = "running"
  /\ \/ Become(m, "measuring") /\ Writes(m, "start")
     \/ "measureFails" \in env /\ Become(m, "erring") /\ Writes(m, "error")
  /\ UNCHANGED <<dat, xml, copied>>

WaitError(m) ==
  /\ prog[m] = "measuring"
  /\ "progFails" \in env
  /\ Become(m, "erring") /\ Writes(m, "error")
  /\ UNCHANGED <<dat, xml, copied>>

(* SAVE, after a WAIT that may have failed.                                *)
SaveCommand(m) ==
  /\ prog[m] \in {"measuring", "erring"}
  /\ Become(m, IF prog[m] = "erring" THEN "failed" ELSE "saving")
  /\ dat' = m
  /\ UNCHANGED <<out, xml, copied>>

Exit(m) ==
  /\ prog[m] = "saving"
  /\ Become(m, "done")
  /\ UNCHANGED files

Crash(m) ==
  /\ "progCrashes" \in env
  /\ prog[m] \in {"measuring", "saving"}
  /\ Become(m, "crashed")
  /\ UNCHANGED files

ProgStep(m) ==
  /\ Exec(m) \/ StartCommand(m) \/ WaitError(m) \/ SaveCommand(m) \/ Exit(m) \/ Crash(m)
  /\ UNCHANGED <<env, sock, flags, main, updater, pc, local, measurePara>>

(* What happens without anybody's help: a program may hang while it waits  *)
(* for a trigger, for data or for the disk.                                *)
ProgRuns(m) ==
  /\ \/ Exec(m) \/ StartCommand(m)
     \/ "hang" \notin env /\ Exit(m)
     \/ SaveCommand(m) /\ (env \cap {"trigger", "hang"} = {} \/ prog[m] = "erring")
  /\ UNCHANGED <<env, sock, flags, main, updater, pc, local, measurePara>>

(* Mutant: the time goes on after the last limit.                          *)
Tick_On(m) ==
  /\ Active(m)
  /\ local[m].clock = 0 \/ "hang" \in env
  /\ Set(m, "clock", local[m].clock + 1)
  /\ UNCHANGED <<env, sock, flags, main, updater, pc, disk>>

(* meas_length + 2 s pass, then the time for saving, which is long enough  *)
(* for a program that does not hang.                                       *)
Tick(m) ==
  /\ Active(m) /\ local[m].clock < 2
  /\ local[m].clock = 0 \/ "hang" \in env
  /\ Set(m, "clock", local[m].clock + 1)
  /\ UNCHANGED <<env, sock, flags, main, updater, pc, disk>>

TimeOver(m)       == local[m].clock >= 1
SavingTimeOver(m) == local[m].clock = 2

-----------------------------------------------------------------------------
(* runMeasurement, up to the start of the program.                         *)

(* What most steps of a measurement thread leave alone.                    *)
camera == <<env, sock, APDCAM_connected, main, updater>>
quiet  == <<Update_APDCAM, stopMeasurement, measurementRunning>>

(* Without a camera, or when the user does not confirm.                    *)
Refuse(m) ==
  /\ At(m, "begin")
  /\ measurementRunning' = FALSE
  /\ Ends(m)
  /\ UNCHANGED <<camera, Update_APDCAM, stopMeasurement, disk>>

Begin(m) ==
  /\ At(m, "begin") /\ APDCAM_connected
  /\ Goto(m, "loop")
  /\ UNCHANGED <<camera, quiet, local, disk>>

(* One iteration: a thread that has not started the camera and finds it    *)
(* gone ends with a NameError at the test of externalTriggerPolarity.      *)
Loop(m) ==
  /\ At(m, "loop")
  /\ \/ stopMeasurement /\ Goto(m, "over")
     \/ ~stopMeasurement /\ ~local[m].started /\ APDCAM_connected /\ Goto(m, "settings")
     \/ ~stopMeasurement /\ ~local[m].started /\ ~APDCAM_connected /\ Goto(m, "dead")
     \/ ~stopMeasurement /\ local[m].started /\ Goto(m, "status")
  /\ UNCHANGED <<camera, quiet, local, disk>>

ReadSettings(m) ==
  /\ At(m, "settings")
  /\ Set(m, "settings", TRUE)
  /\ Update_APDCAM' = FALSE
  /\ Goto(m, "measure")
  /\ UNCHANGED <<camera, stopMeasurement, measurementRunning, disk>>

(* measure(): the register accesses and the command file.                  *)
SetUp(m) ==
  /\ At(m, "measure") /\ ~LockLost
  /\ \/ sock /\ Goto(m, "kill") /\ measurePara' = m
     \/ sock /\ "measureFails" \in env /\ Goto(m, "failed") /\ UNCHANGED measurePara
     \/ ~sock /\ Goto(m, "dead") /\ UNCHANGED measurePara
  /\ UNCHANGED <<camera, quiet, local, prog, files>>

(* Mutant: the program of an earlier measurement goes on.                  *)
Kill_Not(m) ==
  /\ At(m, "kill")
  /\ dat' = NoMeas
  /\ Goto(m, "fork")
  /\ UNCHANGED <<camera, quiet, local, out, xml, copied, measurePara, prog>>

KillAll == prog' = [p \in Meas |-> IF prog[p] \in Live THEN "killed" ELSE prog[p]]

(* killall and rm of the command line. A shell that has been forked for a  *)
(* program has long become that program by then.                           *)
Kill(m) ==
  /\ At(m, "kill")
  /\ \A p \in Meas : prog[p] # "forked"
  /\ KillAll
  /\ dat' = NoMeas
  /\ Goto(m, "fork")
  /\ UNCHANGED <<camera, quiet, local, out, xml, copied, measurePara>>

Fork(m) ==
  /\ At(m, "fork")
  /\ Become(m, "forked")
  /\ Goto(m, "await")
  /\ UNCHANGED <<camera, quiet, local, files, measurePara>>

(* The lines are read in order: whoever finds the start does not look for  *)
(* errors. Nothing in ten seconds is an error, too.                        *)
AwaitStart(m) ==
  /\ At(m, "await")
  /\ \/ /\ "start" \in out.lines
        /\ Set(m, "started", TRUE)
        /\ Goto(m, "status")
     \/ /\ "start" \notin out.lines
        /\ "error" \in out.lines \/ "measureFails" \in env
        /\ Goto(m, "failed")
        /\ UNCHANGED local
  /\ UNCHANGED <<camera, quiet, disk>>

(* measure() has returned an error.                                        *)
Failed(m) ==
  /\ At(m, "failed")
  /\ Set(m, "err", TRUE)
  /\ measurementRunning' = FALSE
  /\ Goto(m, "over")
  /\ UNCHANGED <<camera, Update_APDCAM, stopMeasurement, disk>>

-----------------------------------------------------------------------------
(* measurementStatus: the process list first, then the output.             *)

Processes == IF \E p \in Meas : prog[p] \in Live THEN "Running" ELSE "Finished"

(* The loop ends when the time is over, which is not asked with a trigger. *)
Status(m) ==
  /\ At(m, "status")
  /\ \/ /\ TimeOver(m) /\ "trigger" \notin env
        /\ Goto(m, "over")
        /\ UNCHANGED local
     \/ /\ ~TimeOver(m) \/ "trigger" \in env
        /\ Set(m, "seen", Processes)
        /\ Goto(m, "read")
  /\ UNCHANGED <<camera, quiet, disk>>

ReadOutput(m) ==
  /\ At(m, "read")
  /\ Set(m, "err", "error" \in out.lines)
  /\ Goto(m, IF "error" \in out.lines \/ local[m].seen = "Finished" THEN "over" ELSE "loop")
  /\ UNCHANGED <<camera, quiet, disk>>

(* After the loop: APD_settings is used, bound or not.                     *)
Over(m) ==
  /\ At(m, "over")
  /\ Goto(m, IF local[m].settings THEN "wait" ELSE "dead")
  /\ UNCHANGED <<camera, quiet, local, disk>>

Wait(m) ==
  /\ At(m, "wait")
  /\ Goto(m, IF ~local[m].err /\ local[m].started /\ ~stopMeasurement THEN "wstatus" ELSE "end")
  /\ UNCHANGED <<camera, quiet, local, disk>>

WaitStatus(m) ==
  /\ At(m, "wstatus")
  /\ Set(m, "seen", Processes)
  /\ Goto(m, "wread")
  /\ UNCHANGED <<camera, quiet, disk>>

(* Mutant: an error line is not an error.                                  *)
WaitRead_NoError(m) ==
  /\ At(m, "wread")
  /\ \/ local[m].seen = "Finished" /\ Goto(m, "config")
     \/ /\ local[m].seen = "Running"
        /\ Goto(m, IF SavingTimeOver(m) THEN "abort" ELSE "wait")
  /\ UNCHANGED <<camera, quiet, local, disk>>

(* Mutant: the waiting has no time limit.                                  *)
WaitRead_Endless(m) ==
  /\ At(m, "wread")
  /\ Set(m, "err", "error" \in out.lines)
  /\ \/ "error" \in out.lines /\ Goto(m, "end")
     \/ "error" \notin out.lines /\ local[m].seen = "Finished" /\ Goto(m, "config")
     \/ /\ "error" \notin out.lines /\ local[m].seen = "Running"
        /\ Goto(m, "wait")
  /\ UNCHANGED <<camera, quiet, disk>>

(* A stop is seen at the next test of the waiting loop.                    *)
WaitRead(m) ==
  /\ At(m, "wread")
  /\ Set(m, "err", "error" \in out.lines)
  /\ \/ "error" \in out.lines /\ Goto(m, "end")
     \/ "error" \notin out.lines /\ local[m].seen = "Finished" /\ Goto(m, "config")
     \/ /\ "error" \notin out.lines /\ local[m].seen = "Running"
        /\ Goto(m, IF SavingTimeOver(m) THEN "abort" ELSE "wait")
  /\ UNCHANGED <<camera, quiet, disk>>

(* It reads the status of the camera, whatever comes of it.                *)
writeConfigFile(m) ==
  /\ At(m, "config") /\ ~LockLost
  /\ \/ sock /\ xml' = measurePara /\ Goto(m, "end") /\ UNCHANGED local
     \/ sock /\ "writeFails" \in env /\ Set(m, "err", TRUE) /\ Goto(m, "end")
             /\ UNCHANGED xml
     \/ ~sock /\ Goto(m, "dead") /\ UNCHANGED <<xml, local>>
  /\ UNCHANGED <<camera, quiet, prog, out, dat, copied, measurePara>>

abortMeasurement(m) ==
  /\ At(m, "abort")
  /\ KillAll
  /\ Goto(m, "end")
  /\ UNCHANGED <<camera, quiet, local, files, measurePara>>

(* Mutant: the updates are not switched on again.                          *)
End_NoUpdate(m) ==
  /\ At(m, "end")
  /\ Goto(m, "check")
  /\ UNCHANGED <<camera, Update_APDCAM, stopMeasurement, measurementRunning, local, disk>>

End(m) ==
  /\ At(m, "end")
  /\ Update_APDCAM' = TRUE
  /\ Goto(m, "check")
  /\ UNCHANGED <<camera, stopMeasurement, measurementRunning, local, disk>>

Check(m) ==
  /\ At(m, "check")
  /\ \/ /\ local[m].err \/ stopMeasurement
        /\ measurementRunning' = FALSE
        /\ Ends(m)
     \/ /\ ~(local[m].err \/ stopMeasurement)
        /\ Goto(m, "copy")
        /\ UNCHANGED <<measurementRunning, local>>
  /\ UNCHANGED <<camera, Update_APDCAM, stopMeasurement, disk>>

Copy(m) ==
  /\ At(m, "copy")
  /\ copied' = [copied EXCEPT ![m] = [made |-> TRUE, dat |-> dat, xml |-> xml]]
  /\ Goto(m, "finish")
  /\ UNCHANGED <<camera, quiet, local, prog, out, dat, xml, measurePara>>

Finish(m) ==
  /\ At(m, "finish")
  /\ measurementRunning' = FALSE
  /\ Ends(m)
  /\ UNCHANGED <<camera, Update_APDCAM, stopMeasurement, disk>>

MeasStep(m) ==
  \/ Refuse(m) \/ Begin(m) \/ Loop(m) \/ ReadSettings(m) \/ SetUp(m) \/ Kill(m) \/ Fork(m)
  \/ AwaitStart(m) \/ Failed(m) \/ Status(m) \/ ReadOutput(m) \/ Over(m) \/ Wait(m)
  \/ WaitStatus(m) \/ WaitRead(m) \/ writeConfigFile(m) \/ abortMeasurement(m)
  \/ End(m) \/ Check(m) \/ Copy(m) \/ Finish(m)

Next ==
  \/ MainStep \/ BeginUpdate \/ EndUpdate
  \/ \E m \in Meas : ProgStep(m) \/ Tick(m) \/ MeasStep(m)

Spec == Init /\ [][Next]_vars

FairSpec ==
  /\ Spec
  /\ \A m \in Meas : WF_vars(MeasStep(m)) /\ WF_vars(ProgRuns(m)) /\ WF_vars(Tick(m))

-----------------------------------------------------------------------------
(* Properties.                                                             *)

(* After an error of measure() the flag is given up before the thread has  *)
(* ended (line 622), and a third measurement may then begin beside the     *)
(* second: most of what follows is about measurements without one.         *)
Sequential == "measureFails" \notin env

(* startExp's "Measurement is already runnig.": one measurement at a time. *)
OneMeasurement ==
  Sequential => \A m, n \in Meas : Active(m) /\ Active(n) => m = n

(* A program left over by a stop or a failure never meets the next one in  *)
(* data/: two programs are never alive together.                           *)
OneProgram ==
  Sequential => \A p, q \in Meas : prog[p] \in Live /\ prog[q] \in Live => p = q

(* What is copied to the directory of a shot is the data and the           *)
(* configuration of that shot, from a program that came to its end without *)
(* an error line, whatever the user pressed and earlier programs left.     *)
CopiedIsOwn ==
  Sequential /\ env \cap {"hang", "progCrashes"} = {} =>
    \A m \in Meas : copied[m].made =>
      prog[m] = "done" /\ copied[m].dat = m /\ copied[m].xml = m

(* Without disconnections the display is updated whenever no measurement   *)
(* is under way.                                                           *)
UpdatesWhenIdle ==
  "disconnect" \notin env /\ (\A m \in Meas : ~Active(m)) => Update_APDCAM

(* "This indicates that measurement is running" (line 59): no flag without *)
(* a measurement; startExp would refuse to begin another one for ever.     *)
RunningIndicates == measurementRunning => \E m \in Meas : Active(m)

(* A measurement ends when it is stopped, and without a trigger to wait    *)
(* for it ends anyway, unless the lock is lost.                            *)
MeasurementEnds ==
  \A m \in Meas :
    Active(m) /\ (stopMeasurement \/ "trigger" \notin env) ~> ~Active(m) \/ LockLost
=============================================================================
