------------------------ MODULE GuiMeasurementProofs ------------------------
(***************************************************************************)
(* Proofs about GuiMeasurement. measurementRunning is set from the start   *)
(* of a measurement thread to its last step, unless measure() fails; so    *)
(* there is one thread at a time, and the program of an earlier one, which *)
(* the thread kills before it starts its own, cannot come back.            *)
(***************************************************************************)
EXTENDS GuiMeasurement, TLAPS

(* The threads: the flag is set while one of them is at work.              *)
FlagInv == Sequential => \A m \in Meas : Active(m) => measurementRunning

(* measure() does not fail: whoever has reached the start of the measuring *)
(* has said so in its output before anything else.                         *)
OutputInv ==
  Sequential =>
    /\ "error" \in out.lines => "start" \in out.lines
    /\ \A m \in Meas :
         /\ pc[m] # "failed"
         /\ prog[m] \in {"measuring", "erring"} /\ out.of = m => "start" \in out.lines

(* Nobody is alive between the killall and the start of the next program.  *)
KilledInv ==
  Sequential =>
    \A m, p \in Meas : pc[m] = "fork" => prog[p] \notin Live

ExclInv == TypeOK /\ FlagInv /\ OneMeasurement /\ OutputInv
ProgInv == ExclInv /\ KilledInv /\ OneProgram

-----------------------------------------------------------------------------
(* The steps that are not those of a measurement thread.                   *)

LEMMA TypeInit == Init => TypeOK
  <1> SUFFICES ASSUME Init PROVE TypeOK
    OBVIOUS
  <1>1. flags \in BOOLEAN \X BOOLEAN \X BOOLEAN \X BOOLEAN
    BY DEF Init, flags
  <1>2. Fresh \in Local
    BY DEF Fresh, Local
  <1>3. pc \in [Meas -> PC] /\ local \in [Meas -> Local]
    BY <1>2 DEF Init, PC, Outside
  <1>4. copied \in [Meas -> [made : BOOLEAN, dat : Owner, xml : Owner]]
    BY DEF Init, Owner
  <1>5. env \in SUBSET AllEnv
    BY GuiAssumption DEF Init
  <1>6. QED
    BY <1>1, <1>3, <1>4, <1>5 DEF Init, TypeOK, Owner

LEMMA TypeMain == TypeOK /\ MainStep => TypeOK'
  BY DEF TypeOK, MainStep, stopExp, APDCAM_on, Connected, ConnectFails, APDCAM_off, Close,
         commErrorResponse, Blocked, startExp, others, disk, files, flags, Goto, PC

LEMMA TypeProg == ASSUME TypeOK, NEW m \in Meas, ProgStep(m) PROVE TypeOK'
  BY DEF TypeOK, ProgStep, Exec, StartCommand, WaitError, SaveCommand, Exit, Crash, Become,
         Writes, flags, files, Owner, Live

LEMMA TypeSet ==
  ASSUME TypeOK, NEW m \in Meas
  PROVE  /\ Set(m, "err", "error" \in out.lines) => local' \in [Meas -> Local]
         /\ \A field \in {"err", "settings", "started"} :
              Set(m, field, TRUE) => local' \in [Meas -> Local]
         /\ Set(m, "seen", Processes) => local' \in [Meas -> Local]
         /\ \A n \in 0 .. 2 : Set(m, "clock", n) => local' \in [Meas -> Local]
         /\ Ends(m) => local' \in [Meas -> Local]
  <1>1. local \in [Meas -> Local]
    BY DEF TypeOK
  <1>2. ASSUME Set(m, "err", "error" \in out.lines) PROVE local' \in [Meas -> Local]
    <2>1. ("error" \in out.lines) = TRUE \/ ("error" \in out.lines) = FALSE
      OBVIOUS
    <2>2. Set(m, "err", TRUE) \/ Set(m, "err", FALSE)
      BY <1>2, <2>1, Zenon DEF Set
    <2>3. QED
      BY <1>1, <2>2 DEF Set, Local
  <1>3. ASSUME Set(m, "err", TRUE) \/ Set(m, "settings", TRUE) \/ Set(m, "started", TRUE)
        PROVE  local' \in [Meas -> Local]
    BY <1>1, <1>3 DEF Set, Local
  <1>5. ASSUME Set(m, "seen", Processes) PROVE local' \in [Meas -> Local]
    BY <1>1, <1>5 DEF Set, Local, Processes
  <1>6. ASSUME NEW n \in 0 .. 2, Set(m, "clock", n) PROVE local' \in [Meas -> Local]
    BY <1>1, <1>6 DEF Set, Local
  <1>7. ASSUME Ends(m) PROVE local' \in [Meas -> Local]
    <2>1. Fresh \in Local
      BY DEF Fresh, Local
    <2>2. QED
      BY <1>1, <1>7, <2>1 DEF Ends
  <1>8. QED
    BY <1>2, <1>3, <1>5, <1>6, <1>7

LEMMA TypeTick == ASSUME TypeOK, NEW m \in Meas, Tick(m) PROVE TypeOK'
  <1>1. local[m].clock + 1 \in 0 .. 2
    BY DEF TypeOK, Local, Tick
  <1>2. local' \in [Meas -> Local]
    BY <1>1, TypeSet DEF Tick
  <1>3. QED
    BY <1>2 DEF Tick, TypeOK, flags, disk, files

LEMMA TypeMeas == ASSUME TypeOK, NEW m \in Meas, MeasStep(m) PROVE TypeOK'
  <1>1. local' \in [Meas -> Local]
    <2>1. CASE UNCHANGED local
      BY <2>1 DEF TypeOK
    <2>2. CASE ReadOutput(m) \/ WaitRead(m)
      <3>1. Set(m, "err", "error" \in out.lines)
        BY <2>2 DEF ReadOutput, WaitRead
      <3>2. QED
        BY <3>1, TypeSet
    <2>3. CASE Refuse(m) \/ Check(m) \/ Finish(m)
      BY <2>3, TypeSet DEF Refuse, Check, Finish, TypeOK
    <2>4. CASE \/ ReadSettings(m) \/ AwaitStart(m) \/ Failed(m) \/ Status(m) \/ WaitStatus(m)
               \/ writeConfigFile(m)
      <3>1. \/ Set(m, "settings", TRUE) \/ Set(m, "started", TRUE) \/ Set(m, "err", TRUE)
            \/ Set(m, "seen", Processes) \/ UNCHANGED local
        BY <2>4 DEF ReadSettings, AwaitStart, Failed, Status, WaitStatus, writeConfigFile
      <3>2. QED
        BY <2>1, <3>1, TypeSet
    <2>5. QED
      BY <2>1, <2>2, <2>3, <2>4 DEF MeasStep, Begin, Loop, SetUp, Kill, Fork, Over, Wait,
         abortMeasurement, End, Copy
  <1>2. pc' \in [Meas -> PC]
    BY DEF TypeOK, PC, Outside, Goto, Ends, MeasStep, Refuse, Begin, Loop, ReadSettings, SetUp,
       Kill, Fork, AwaitStart, Failed, Status, ReadOutput, Over, Wait, WaitStatus, WaitRead,
       writeConfigFile, abortMeasurement, End, Check, Copy, Finish
  <1>3. prog' \in [Meas -> Live \cup {"none", "done", "failed", "crashed", "killed"}]
    BY DEF TypeOK, Live, KillAll, Become, disk, MeasStep, Refuse, Begin, Loop, ReadSettings, SetUp,
       Kill, Fork, AwaitStart, Failed, Status, ReadOutput, Over, Wait, WaitStatus, WaitRead,
       writeConfigFile, abortMeasurement, End, Check, Copy, Finish
  <1>4. /\ out' = out /\ dat' \in Owner /\ xml' \in Owner /\ measurePara' \in Owner
        /\ copied' \in [Meas -> [made : BOOLEAN, dat : Owner, xml : Owner]]
    <2>1. CASE Copy(m)
      <3>1. [made |-> TRUE, dat |-> dat, xml |-> xml] \in [made : BOOLEAN, dat : Owner, xml : Owner]
        BY DEF TypeOK
      <3>2. QED
        BY <2>1, <3>1 DEF Copy, TypeOK
    <2>2. CASE ~Copy(m)
      <3>1. out' = out /\ copied' = copied
        BY <2>2 DEF disk, files, MeasStep, Refuse, Begin, Loop, ReadSettings, SetUp,
       Kill, Fork, AwaitStart, Failed, Status, ReadOutput, Over, Wait, WaitStatus, WaitRead,
       writeConfigFile, abortMeasurement, End, Check, Finish
      <3>2. dat' \in Owner /\ xml' \in Owner /\ measurePara' \in Owner
        BY <2>2 DEF TypeOK, Owner, disk, files, MeasStep, Refuse, Begin, Loop, ReadSettings, SetUp,
       Kill, Fork, AwaitStart, Failed, Status, ReadOutput, Over, Wait, WaitStatus, WaitRead,
       writeConfigFile, abortMeasurement, End, Check, Finish
      <3>3. QED
        BY <3>1, <3>2 DEF TypeOK
    <2>3. QED
      BY <2>1, <2>2
  <1>5. /\ UNCHANGED <<env, sock, APDCAM_connected, main, updater, stopMeasurement>>
        /\ Update_APDCAM' \in BOOLEAN /\ measurementRunning' \in BOOLEAN
    BY DEF TypeOK, flags, camera, quiet, MeasStep, Refuse, Begin, Loop, ReadSettings, SetUp,
       Kill, Fork, AwaitStart, Failed, Status, ReadOutput, Over, Wait, WaitStatus, WaitRead,
       writeConfigFile, abortMeasurement, End, Check, Copy, Finish
  <1>6. QED
    BY <1>1, <1>2, <1>3, <1>4, <1>5 DEF TypeOK, flags

LEMMA TypeStep == TypeOK /\ [Next]_vars => TypeOK'
  <1> SUFFICES ASSUME TypeOK, [Next]_vars PROVE TypeOK'
    OBVIOUS
  <1>1. CASE BeginUpdate \/ EndUpdate
    BY <1>1 DEF BeginUpdate, EndUpdate, unread, TypeOK, flags, disk, files
  <1>2. CASE UNCHANGED vars
    BY <1>2 DEF vars, TypeOK, flags, disk, files
  <1>3. QED
    BY <1>1, <1>2, TypeMain, TypeProg, TypeTick, TypeMeas DEF Next

(* Every variable keeps its type, for any number of measurements.          *)
THEOREM TypeCorrect == Spec => []TypeOK
  <1>1. QED
    BY TypeInit, TypeStep, PTL DEF Spec

-----------------------------------------------------------------------------
(* One thread at a time.                                                   *)

(* What a step of a measurement thread does to the flag and to the others. *)
LEMMA MeasEffect ==
  ASSUME TypeOK, Sequential, OutputInv, NEW m \in Meas, MeasStep(m)
  PROVE  /\ Active(m)
         /\ \A n \in Meas \ {m} : pc'[n] = pc[n]
         /\ pc'[m] # "failed"
         /\ measurementRunning' = measurementRunning \/ ~Active(m)'
         /\ UNCHANGED <<env, out>>
         /\ \A p \in Meas : prog'[p] \in {"measuring", "erring"} => prog'[p] = prog[p]
  <1>1. Active(m)
    BY DEF Active, Outside, At, MeasStep, Refuse, Begin, Loop, ReadSettings, SetUp, Kill,
       Fork, AwaitStart, Failed, Status, ReadOutput, Over, Wait, WaitStatus, WaitRead,
       writeConfigFile, abortMeasurement, End, Check, Copy, Finish
  <1>2. \A n \in Meas \ {m} : pc'[n] = pc[n]
    BY DEF TypeOK, Goto, Ends, MeasStep, Refuse, Begin, Loop, ReadSettings, SetUp, Kill,
       Fork, AwaitStart, Failed, Status, ReadOutput, Over, Wait, WaitStatus, WaitRead,
       writeConfigFile, abortMeasurement, End, Check, Copy, Finish
  <1>3. pc'[m] # "failed"
    BY DEF TypeOK, OutputInv, Sequential, At, Goto, Ends, MeasStep, Refuse, Begin, Loop, ReadSettings, SetUp, Kill,
       Fork, AwaitStart, Failed, Status, ReadOutput, Over, Wait, WaitStatus, WaitRead,
       writeConfigFile, abortMeasurement, End, Check, Copy, Finish
  <1>4. pc[m] # "failed"
    BY DEF OutputInv
  <1>5. measurementRunning' = measurementRunning \/ ~Active(m)'
    BY <1>4 DEF TypeOK, Active, Outside, At, Goto, Ends, quiet, MeasStep, Refuse, Begin, Loop, ReadSettings, SetUp, Kill,
       Fork, AwaitStart, Failed, Status, ReadOutput, Over, Wait, WaitStatus, WaitRead,
       writeConfigFile, abortMeasurement, End, Check, Copy, Finish
  <1>6. UNCHANGED <<env, out>>
    BY DEF camera, disk, files, MeasStep, Refuse, Begin, Loop, ReadSettings, SetUp, Kill,
       Fork, AwaitStart, Failed, Status, ReadOutput, Over, Wait, WaitStatus, WaitRead,
       writeConfigFile, abortMeasurement, End, Check, Copy, Finish
  <1>7. ASSUME NEW p \in Meas, prog'[p] \in {"measuring", "erring"} PROVE prog'[p] = prog[p]
    BY <1>7 DEF TypeOK, KillAll, Become, disk, MeasStep, Refuse, Begin, Loop, ReadSettings, SetUp, Kill,
       Fork, AwaitStart, Failed, Status, ReadOutput, Over, Wait, WaitStatus, WaitRead,
       writeConfigFile, abortMeasurement, End, Check, Copy, Finish
  <1>8. QED
    BY <1>1, <1>2, <1>3, <1>5, <1>6, <1>7

(* No thread starts, ends or fails, the flag and the output stay.          *)
LEMMA QuietStep ==
  ASSUME ExclInv, UNCHANGED <<env, pc, measurementRunning, out, prog>>
  PROVE  FlagInv' /\ OneMeasurement' /\ OutputInv'
  BY DEF ExclInv, FlagInv, OneMeasurement, OutputInv, Sequential, Active

LEMMA ExclStart ==
  ASSUME ExclInv, NEW m \in Meas, startExp(m)
  PROVE  FlagInv' /\ OneMeasurement' /\ OutputInv'
  <1>1. UNCHANGED <<env, out, prog>>
    BY DEF startExp, disk, files
  <1>2. Sequential => \A n \in Meas : ~Active(n)
    BY DEF ExclInv, FlagInv, startExp
  <1>3. pc' = [pc EXCEPT ![m] = "begin"] /\ measurementRunning' = TRUE
    BY DEF startExp, Goto
  <1>4. Sequential' = Sequential
    BY <1>1 DEF Sequential
  <1>5. FlagInv' /\ OneMeasurement'
    BY <1>2, <1>3, <1>4 DEF ExclInv, TypeOK, FlagInv, OneMeasurement, Active
  <1>6. OutputInv'
    BY <1>1, <1>3, <1>4 DEF ExclInv, TypeOK, OutputInv
  <1>7. QED
    BY <1>5, <1>6

LEMMA ExclProg ==
  ASSUME ExclInv, NEW m \in Meas, ProgStep(m)
  PROVE  FlagInv' /\ OneMeasurement' /\ OutputInv'
  <1>1. UNCHANGED <<env, flags, pc>>
    BY DEF ProgStep
  <1>2. FlagInv' /\ OneMeasurement'
    BY <1>1 DEF ExclInv, FlagInv, OneMeasurement, Active, Sequential, flags
  <1>3. OutputInv'
    <2> SUFFICES ASSUME Sequential
                 PROVE  /\ "error" \in out'.lines => "start" \in out'.lines
                        /\ \A n \in Meas :
                             prog'[n] \in {"measuring", "erring"} /\ out'.of = n
                               => "start" \in out'.lines
      BY <1>1 DEF ExclInv, OutputInv, Sequential
    <2> USE DEF ExclInv, OutputInv, TypeOK, Become, Writes
    <2>1. CASE Exec(m)
      BY <2>1 DEF Exec
    <2>2. CASE StartCommand(m)
      BY <2>2 DEF StartCommand, Sequential
    <2>3. CASE WaitError(m)
      BY <2>3 DEF WaitError
    <2>4. CASE SaveCommand(m)
      BY <2>4 DEF SaveCommand
    <2>5. CASE Exit(m) \/ Crash(m)
      BY <2>5 DEF Exit, Crash, files
    <2>6. QED
      BY <2>1, <2>2, <2>3, <2>4, <2>5 DEF ProgStep
  <1>4. QED
    BY <1>2, <1>3

LEMMA ExclMeas ==
  ASSUME ExclInv, NEW m \in Meas, MeasStep(m)
  PROVE  FlagInv' /\ OneMeasurement' /\ OutputInv'
  <1>1. CASE Sequential
    BY <1>1, MeasEffect
       DEF ExclInv, FlagInv, OneMeasurement, OutputInv, Active, Sequential
  <1>2. CASE ~Sequential
    <2>1. ~Sequential'
      BY <1>2 DEF Sequential, camera, MeasStep, Refuse, Begin, Loop, ReadSettings, SetUp, Kill,
       Fork, AwaitStart, Failed, Status, ReadOutput, Over, Wait, WaitStatus, WaitRead,
       writeConfigFile, abortMeasurement, End, Check, Copy, Finish
    <2>2. QED
      BY <2>1 DEF FlagInv, OneMeasurement, OutputInv
  <1>3. QED
    BY <1>1, <1>2

LEMMA ExclStep == ExclInv /\ [Next]_vars => ExclInv'
  <1> SUFFICES ASSUME ExclInv, [Next]_vars PROVE ExclInv'
    OBVIOUS
  <1>1. TypeOK'
    BY TypeStep DEF ExclInv
  <1>2. FlagInv' /\ OneMeasurement' /\ OutputInv'
    <2>1. CASE MainStep
      <3>1. CASE \E m \in Meas : startExp(m)
        BY <3>1, ExclStart
      <3>2. CASE \/ stopExp \/ APDCAM_on \/ Connected \/ ConnectFails \/ APDCAM_off
                 \/ Close \/ commErrorResponse \/ Blocked
        BY <3>2, QuietStep DEF stopExp, APDCAM_on, Connected, ConnectFails, APDCAM_off, Close,
           commErrorResponse, Blocked, others, disk, files
      <3>3. QED
        BY <2>1, <3>1, <3>2 DEF MainStep
    <2>2. CASE BeginUpdate \/ EndUpdate
      BY <2>2, QuietStep DEF BeginUpdate, EndUpdate, unread, flags, disk, files
    <2>3. ASSUME NEW m \in Meas, Tick(m) PROVE FlagInv' /\ OneMeasurement' /\ OutputInv'
      BY <2>3, QuietStep DEF Tick, flags, disk, files
    <2>4. CASE UNCHANGED vars
      BY <2>4, QuietStep DEF vars, flags, disk, files
    <2>5. QED
      BY <2>1, <2>2, <2>3, <2>4, ExclProg, ExclMeas DEF Next
  <1>3. QED
    BY <1>1, <1>2 DEF ExclInv

LEMMA ExclInit == Init => ExclInv
  <1>1. Init => FlagInv /\ OneMeasurement /\ OutputInv
    BY DEF Init, FlagInv, OneMeasurement, OutputInv, Active, Outside
  <1>2. QED
    BY <1>1, TypeInit DEF ExclInv

(* While measure() does not fail, one measurement thread is at work at a   *)
(* time, whatever else happens.                                            *)
THEOREM Exclusion == Spec => []OneMeasurement
  <1>1. Spec => []ExclInv
    BY ExclInit, ExclStep, PTL DEF Spec
  <1>2. ExclInv => OneMeasurement
    BY DEF ExclInv
  <1>3. QED
    BY <1>1, <1>2, PTL

-----------------------------------------------------------------------------
(* One program at a time.                                                  *)

(* A step of a measurement thread starts its program, or kills them all,   *)
(* or leaves them alone and comes no nearer to the start of one.           *)
LEMMA ForkOrKill ==
  ASSUME TypeOK, NEW m \in Meas, MeasStep(m)
  PROVE  \/ Fork(m)
         \/ KillAll
         \/ UNCHANGED prog /\ pc'[m] # "fork"
  BY DEF TypeOK, Goto, Ends, disk, MeasStep, Refuse, Begin, Loop, ReadSettings, SetUp, Kill,
     AwaitStart, Failed, Status, ReadOutput, Over, Wait, WaitStatus, WaitRead,
     writeConfigFile, abortMeasurement, End, Check, Copy, Finish

(* A step that revives no program and brings no thread to the start of one *)
(* keeps the invariant.                                                    *)
LEMMA NoneRevived ==
  ASSUME ProgInv, Sequential' = Sequential,
         \A p \in Meas : prog'[p] \in Live => prog[p] \in Live,
         \A n \in Meas : pc'[n] = "fork" => pc[n] = "fork"
  PROVE  KilledInv' /\ OneProgram'
  BY DEF ProgInv, KilledInv, OneProgram

LEMMA AliveProg ==
  ASSUME ProgInv, NEW m \in Meas, ProgStep(m)
  PROVE  KilledInv' /\ OneProgram'
  <1>1. UNCHANGED <<env, pc>>
    BY DEF ProgStep
  <1>2. \A p \in Meas : prog'[p] \in Live => prog[p] \in Live
    BY DEF ProgInv, ExclInv, TypeOK, Live, Become, ProgStep, Exec, StartCommand, WaitError,
       SaveCommand, Exit, Crash
  <1>3. QED
    BY <1>1, <1>2, NoneRevived DEF Sequential

LEMMA AliveMeas ==
  ASSUME ProgInv, NEW m \in Meas, MeasStep(m), Sequential
  PROVE  KilledInv' /\ OneProgram'
  <1>1. /\ Active(m)
        /\ \A n \in Meas \ {m} : pc'[n] = pc[n]
        /\ Sequential' = Sequential
    BY MeasEffect DEF ProgInv, ExclInv, Sequential
  <1>2. CASE Fork(m)
    <2>1. At(m, "fork") /\ Become(m, "forked") /\ pc'[m] = "await"
      BY <1>2 DEF Fork, Goto, ProgInv, ExclInv, TypeOK
    <2>2. \A p \in Meas : prog[p] \notin Live
      BY <2>1 DEF ProgInv, KilledInv, At
    <2>3. \A p \in Meas \ {m} : prog'[p] \notin Live
      BY <2>1, <2>2 DEF Become, ProgInv, ExclInv, TypeOK
    <2>4. \A n \in Meas : pc'[n] # "fork"
      BY <1>1, <2>1 DEF ProgInv, ExclInv, OneMeasurement, Active, Outside
    <2>5. QED
      BY <2>3, <2>4 DEF KilledInv, OneProgram
  <1>3. CASE KillAll
    <2>1. \A p \in Meas : prog'[p] \notin Live
      BY <1>3 DEF KillAll, Live
    <2>2. QED
      BY <2>1 DEF KilledInv, OneProgram
  <1>4. CASE UNCHANGED prog /\ pc'[m] # "fork"
    <2>1. \A n \in Meas : pc'[n] = "fork" => pc[n] = "fork"
      BY <1>1, <1>4
    <2>2. QED
      BY <1>1, <1>4, <2>1, NoneRevived
  <1>5. QED
    BY <1>2, <1>3, <1>4, ForkOrKill DEF ProgInv, ExclInv

LEMMA ProgInvStep == ProgInv /\ [Next]_vars => ProgInv'
  <1> SUFFICES ASSUME ProgInv, [Next]_vars PROVE ProgInv'
    OBVIOUS
  <1>1. ExclInv'
    BY ExclStep DEF ProgInv
  <1>2. KilledInv' /\ OneProgram'
    <2>1. CASE MainStep
      <3>1. UNCHANGED <<env, prog>>
        BY <2>1 DEF MainStep, startExp, stopExp, APDCAM_on, Connected, ConnectFails,
           APDCAM_off, Close, commErrorResponse, Blocked, others, disk
      <3>2. UNCHANGED pc \/ \E m \in Meas : pc' = [pc EXCEPT ![m] = "begin"]
        BY <2>1 DEF MainStep, startExp, stopExp, APDCAM_on, Connected, ConnectFails,
           APDCAM_off, Close, commErrorResponse, Blocked, others, Goto
      <3>3. \A n \in Meas : pc'[n] = "fork" => pc[n] = "fork"
        BY <3>2 DEF ProgInv, ExclInv, TypeOK
      <3>4. QED
        BY <3>1, <3>3, NoneRevived DEF Sequential
    <2>2. CASE BeginUpdate \/ EndUpdate \/ \E m \in Meas : Tick(m)
      BY <2>2, NoneRevived DEF BeginUpdate, EndUpdate, Tick, unread, disk, Sequential
    <2>3. CASE UNCHANGED vars
      BY <2>3, NoneRevived DEF vars, disk, Sequential
    <2>4. ASSUME NEW m \in Meas, MeasStep(m) PROVE KilledInv' /\ OneProgram'
      <3>1. CASE Sequential
        BY <2>4, <3>1, AliveMeas
      <3>2. CASE ~Sequential
        <4>1. UNCHANGED env
          BY <2>4 DEF camera, MeasStep, Refuse, Begin, Loop, ReadSettings, SetUp, Kill,
       Fork, AwaitStart, Failed, Status, ReadOutput, Over, Wait, WaitStatus, WaitRead,
       writeConfigFile, abortMeasurement, End, Check, Copy, Finish
        <4>2. QED
          BY <3>2, <4>1 DEF Sequential, KilledInv, OneProgram
      <3>3. QED
        BY <3>1, <3>2
    <2>5. QED
      BY <2>1, <2>2, <2>3, <2>4, AliveProg DEF Next
  <1>3. QED
    BY <1>1, <1>2 DEF ProgInv

(* While measure() does not fail, two programs APDTest_10G are never alive *)
(* together: what a stop or a failure has left running is killed before    *)
(* the next measurement starts its own.                                    *)
THEOREM ProgramExclusion == Spec => []OneProgram
  <1>1. Init => ProgInv
    <2>1. Init => KilledInv /\ OneProgram
      BY DEF Init, KilledInv, OneProgram, Live
    <2>2. QED
      BY <2>1, ExclInit DEF ProgInv
  <1>2. Spec => []ProgInv
    BY <1>1, ProgInvStep, PTL DEF Spec
  <1>3. ProgInv => OneProgram
    BY DEF ProgInv
  <1>4. QED
    BY <1>2, <1>3, PTL

-----------------------------------------------------------------------------
(* The updates of the display.                                             *)

(* A thread that has switched the updates off and not yet on again.        *)
Owes(m) ==
  /\ local[m].settings
  /\ pc[m] \in {"settings", "measure", "kill", "fork", "await", "failed", "loop", "status",
                "read", "over", "wait", "wstatus", "wread", "config", "abort", "end"}

(* As long as nothing disconnects the camera the connection lasts, so that *)
(* no thread ends with an exception before it has come to its end.         *)
ConnectionInv ==
  "disconnect" \notin env =>
    /\ main \in {"idle", "connecting", "blocked"}
    /\ main = "connecting" \/ APDCAM_connected => sock
    /\ \A m \in Meas : pc[m] \notin {"none", "begin", "done"} => APDCAM_connected

OwedInv == "disconnect" \notin env => Update_APDCAM \/ \E m \in Meas : Owes(m)

UpdateInv == TypeOK /\ ConnectionInv /\ OwedInv

LEMMA UpdateMain == UpdateInv /\ MainStep => ConnectionInv' /\ OwedInv'
  <1> SUFFICES ASSUME UpdateInv, MainStep PROVE ConnectionInv' /\ OwedInv'
    OBVIOUS
  <1> USE DEF UpdateInv, ConnectionInv, OwedInv, TypeOK
  <1>1. ASSUME NEW m \in Meas, startExp(m) PROVE ConnectionInv' /\ OwedInv'
    <2>1. pc' = [pc EXCEPT ![m] = "begin"] /\ pc[m] = "none" /\ local' = local
          /\ UNCHANGED <<env, sock, APDCAM_connected, Update_APDCAM, main>>
      BY <1>1 DEF startExp, Goto, At
    <2>2. \A n \in Meas : Owes(n) => Owes(n)'
      BY <2>1 DEF Owes
    <2>3. QED
      BY <2>1, <2>2
  <1>2. CASE stopExp
    BY <1>2 DEF stopExp, Owes
  <1>3. CASE \/ APDCAM_on \/ Connected \/ ConnectFails \/ APDCAM_off \/ Close
             \/ commErrorResponse \/ Blocked
    <2>1. UNCHANGED <<env, pc, local>>
      BY <1>3 DEF APDCAM_on, Connected, ConnectFails, APDCAM_off, Close, commErrorResponse,
         Blocked, others
    <2>2. "disconnect" \notin env => APDCAM_on \/ Connected \/ Blocked
      BY <1>3 DEF ConnectFails, APDCAM_off, Close, commErrorResponse
    <2>3. QED
      BY <2>1, <2>2 DEF APDCAM_on, Connected, Blocked, others, Owes
  <1>4. QED
    BY <1>1, <1>2, <1>3 DEF MainStep

LEMMA UpdateMeas ==
  ASSUME UpdateInv, NEW m \in Meas, MeasStep(m)
  PROVE  ConnectionInv' /\ OwedInv'
  <1> USE DEF UpdateInv, ConnectionInv, OwedInv, TypeOK
  <1>1. UNCHANGED <<env, sock, APDCAM_connected, main>>
    BY DEF camera, MeasStep, Refuse, Begin, Loop, ReadSettings, SetUp, Kill,
       Fork, AwaitStart, Failed, Status, ReadOutput, Over, Wait, WaitStatus, WaitRead,
       writeConfigFile, abortMeasurement, End, Check, Copy, Finish
  <1>2. \A n \in Meas \ {m} : pc'[n] = pc[n] /\ local'[n] = local[n]
    BY DEF Goto, Ends, Set, MeasStep, Refuse, Begin, Loop, ReadSettings, SetUp, Kill,
       Fork, AwaitStart, Failed, Status, ReadOutput, Over, Wait, WaitStatus, WaitRead,
       writeConfigFile, abortMeasurement, End, Check, Copy, Finish
  <1>3. CASE "disconnect" \in env
    BY <1>1, <1>3
  <1>4. ASSUME "disconnect" \notin env, pc'[m] \notin {"none", "begin", "done"}
        PROVE  APDCAM_connected
    BY <1>4 DEF At, Goto, Ends, MeasStep, Refuse, Begin, Loop, ReadSettings, SetUp, Kill,
       Fork, AwaitStart, Failed, Status, ReadOutput, Over, Wait, WaitStatus, WaitRead,
       writeConfigFile, abortMeasurement, End, Check, Copy, Finish
  <1>5. ASSUME "disconnect" \notin env, Owes(m) PROVE Owes(m)' \/ Update_APDCAM' = TRUE
    <2>1. APDCAM_connected /\ sock
      BY <1>5 DEF Owes
    <2>2. local'[m].settings \/ Ends(m)
      BY <1>5 DEF Owes, Set, Local, MeasStep, Refuse, Begin, Loop, ReadSettings, SetUp, Kill,
       Fork, AwaitStart, Failed, Status, ReadOutput, Over, Wait, WaitStatus, WaitRead,
       writeConfigFile, abortMeasurement, End, Check, Copy, Finish
    <2>3. ~Ends(m)
      BY <1>5 DEF Owes, At, Goto, Ends, MeasStep, Refuse, Begin, Loop, ReadSettings, SetUp, Kill,
       Fork, AwaitStart, Failed, Status, ReadOutput, Over, Wait, WaitStatus, WaitRead,
       writeConfigFile, abortMeasurement, End, Check, Copy, Finish
    <2>4. \/ Update_APDCAM' = TRUE
          \/ pc'[m] \in {"settings", "measure", "kill", "fork", "await", "failed", "loop", "status",
                "read", "over", "wait", "wstatus", "wread", "config", "abort", "end"}
      BY <1>5, <2>1 DEF Owes, At, Goto, MeasStep, Refuse, Begin, Loop, ReadSettings, SetUp, Kill,
       Fork, AwaitStart, Failed, Status, ReadOutput, Over, Wait, WaitStatus, WaitRead,
       writeConfigFile, abortMeasurement, End, Check, Copy, Finish
    <2>5. QED
      BY <2>2, <2>3, <2>4 DEF Owes
  <1>6. Update_APDCAM' = Update_APDCAM \/ Update_APDCAM' = TRUE \/ Owes(m)'
    BY DEF Owes, At, Goto, Set, Local, quiet, MeasStep, Refuse, Begin, Loop, ReadSettings, SetUp, Kill,
       Fork, AwaitStart, Failed, Status, ReadOutput, Over, Wait, WaitStatus, WaitRead,
       writeConfigFile, abortMeasurement, End, Check, Copy, Finish
  <1>7. \A n \in Meas \ {m} : Owes(n) => Owes(n)'
    BY <1>2 DEF Owes
  <1>8. QED
    BY <1>1, <1>2, <1>3, <1>4, <1>5, <1>6, <1>7

LEMMA UpdateStep == UpdateInv /\ [Next]_vars => UpdateInv'
  <1> SUFFICES ASSUME UpdateInv, [Next]_vars PROVE UpdateInv'
    OBVIOUS
  <1>1. TypeOK'
    BY TypeStep DEF UpdateInv
  <1>2. ASSUME UNCHANGED <<env, sock, flags, main, pc>>, \A m \in Meas : local'[m].settings = local[m].settings
        PROVE  ConnectionInv' /\ OwedInv'
    BY <1>2 DEF UpdateInv, ConnectionInv, OwedInv, Owes, flags
  <1>3. ASSUME BeginUpdate \/ EndUpdate \/ UNCHANGED vars \/ \E m \in Meas : ProgStep(m)
        PROVE  ConnectionInv' /\ OwedInv'
    <2>1. UNCHANGED <<env, sock, flags, main, pc, local>>
      BY <1>3 DEF BeginUpdate, EndUpdate, unread, vars, ProgStep
    <2>2. \A m \in Meas : local'[m].settings = local[m].settings
      BY <2>1
    <2>3. QED
      BY <1>2, <2>1, <2>2
  <1>4. ASSUME NEW m \in Meas, Tick(m) PROVE ConnectionInv' /\ OwedInv'
    BY <1>2, <1>4 DEF Tick, Set, UpdateInv, TypeOK, Local
  <1>5. ConnectionInv' /\ OwedInv'
    <2>1. ASSUME NEW m \in Meas, MeasStep(m) PROVE ConnectionInv' /\ OwedInv'
      BY <2>1, UpdateMeas
    <2>2. CASE MainStep
      BY <2>2, UpdateMain
    <2>3. QED
      BY <1>3, <1>4, <2>1, <2>2 DEF Next
  <1>6. QED
    BY <1>1, <1>5 DEF UpdateInv

(* A measurement switches the updates of the display off, and whatever     *)
(* becomes of it, they are on again when no thread is at work: unless the  *)
(* camera is disconnected, also after an error of measure() and beside     *)
(* other measurements.                                                     *)
THEOREM UpdatesResume == Spec => []UpdatesWhenIdle
  <1>1. Init => UpdateInv
    <2>1. Init => ConnectionInv /\ OwedInv
      BY DEF Init, ConnectionInv, OwedInv
    <2>2. QED
      BY <2>1, TypeInit DEF UpdateInv
  <1>2. UpdateInv => UpdatesWhenIdle
    BY DEF UpdateInv, OwedInv, UpdatesWhenIdle, Owes, Active, Outside
  <1>3. QED
    BY <1>1, <1>2, UpdateStep, PTL DEF Spec

-----------------------------------------------------------------------------
(* The files of a shot.                                                    *)

(* What CopiedIsOwn assumes of the environment.                            *)
Clean == Sequential /\ env \cap {"hang", "progCrashes"} = {}

(* The thread's program has been started, and the thread is still at work. *)
Forked(m) == pc[m] = "await" \/ (Active(m) /\ local[m].started)

Saved(m) == local[m].started /\ prog[m] = "done"

(* The thread itself: nobody comes past the loop without having started    *)
(* the program, unless there was an error or a stop, which stays.          *)
ThreadInv(m) ==
  /\ pc[m] # "abort" /\ local[m].clock < 2
  /\ pc[m] \in {"none", "begin", "settings", "measure", "kill", "fork", "await"} => ~local[m].started
  /\ pc[m] \in {"status", "read", "wstatus", "wread", "config"} => local[m].started
  /\ pc[m] \in {"kill", "fork"} \/ Forked(m) => measurePara = m
  /\ pc[m] \in {"over", "wait"} => local[m].started \/ local[m].err \/ stopMeasurement

(* Its program alone writes the files; an error line stays there.          *)
ProgramInv(m) ==
  Forked(m) =>
    /\ \A p \in Meas \ {m} : prog[p] \notin Live
    /\ prog[m] \in Live \cup {"done", "failed"}
    /\ prog[m] # "forked" => out.of = m
    /\ prog[m] \in {"erring", "failed"} => "error" \in out.lines
    /\ prog[m] \in {"saving", "done"} => dat = m

(* Who waits for the end of the program, without an error or a stop, finds *)
(* its data in place, then its configuration, and nobody changes them.     *)
ResultInv(m) ==
  /\ pc[m] = "wread" /\ local[m].seen = "Finished" => prog[m] \notin Live
  /\ pc[m] = "config" => Saved(m)
  /\ pc[m] \in {"end", "check"} => local[m].err \/ stopMeasurement \/ (Saved(m) /\ xml = m)
  /\ pc[m] = "copy" => Saved(m) /\ xml = m
  /\ copied[m].made =>
       /\ pc[m] \in {"finish", "done"} /\ prog[m] = "done"
       /\ copied[m].dat = m /\ copied[m].xml = m

ShotInv(m) == ThreadInv(m) /\ ProgramInv(m) /\ ResultInv(m)

CopyInv == Clean => \A m \in Meas : ShotInv(m)

(* A step of the main thread: a stop stays as long as a thread is at work. *)
LEMMA ShotMain ==
  ASSUME ProgInv, Clean, NEW m \in Meas, ShotInv(m), MainStep
  PROVE  ShotInv(m)'
  <1>1. UNCHANGED <<local, disk>>
    BY DEF MainStep, startExp, stopExp, APDCAM_on, Connected, ConnectFails, APDCAM_off, Close,
       commErrorResponse, Blocked, others, disk
  <1>2. CASE UNCHANGED pc /\ stopMeasurement' \in {stopMeasurement, TRUE}
    BY <1>1, <1>2 DEF ShotInv, ThreadInv, ProgramInv, ResultInv, Forked, Saved, Active, disk, files
  <1>3. ASSUME NEW n \in Meas, startExp(n) PROVE ShotInv(m)'
    <2>1. pc[n] = "none" /\ pc' = [pc EXCEPT ![n] = "begin"] /\ ~measurementRunning
      BY <1>3 DEF startExp, At, Goto
    <2>2. ~Active(m)
      BY <2>1 DEF ProgInv, ExclInv, FlagInv, Clean
    <2>3. CASE m = n
      <3>1. pc[m] = "none" /\ pc'[m] = "begin" /\ ~local[m].started /\ ~copied[m].made
        BY <2>1, <2>3 DEF ProgInv, ExclInv, TypeOK, ShotInv, ThreadInv, ResultInv
      <3>2. QED
        BY <1>1, <3>1 DEF ShotInv, ThreadInv, ProgramInv, ResultInv, Forked, disk, files
    <2>4. CASE m # n
      <3>1. pc'[m] = pc[m] /\ pc[m] \in Outside
        BY <2>1, <2>2, <2>4 DEF ProgInv, ExclInv, TypeOK, Active
      <3>2. QED
        BY <1>1, <3>1 DEF ShotInv, ThreadInv, ProgramInv, ResultInv, Forked, Active, Outside, disk, files
    <2>5. QED
      BY <2>3, <2>4
  <1>4. QED
    BY <1>2, <1>3 DEF MainStep, stopExp, APDCAM_on, Connected, ConnectFails, APDCAM_off, Close,
       commErrorResponse, Blocked, others

LEMMA ShotTick ==
  ASSUME TypeOK, Clean, NEW m \in Meas, NEW n \in Meas, ShotInv(m), Tick(n)
  PROVE  ShotInv(m)'
  <1>1. UNCHANGED <<flags, pc, disk>>
    BY DEF Tick
  <1>2. /\ local'[m].started = local[m].started /\ local'[m].err = local[m].err
        /\ local'[m].seen = local[m].seen
    BY DEF Tick, Set, TypeOK, Local
  <1>3. local'[m].clock < 2
    <2>1. local[n].clock = 0 \/ local[m].clock < 2
      BY DEF Tick, Clean, ShotInv, ThreadInv
    <2>2. local[m].clock < 2 /\ (n = m => local[m].clock = 0)
      BY DEF Tick, Clean, ShotInv, ThreadInv
    <2>3. QED
      BY <2>2 DEF Tick, Set, TypeOK, Local
  <1>4. QED
    BY <1>1, <1>2, <1>3 DEF ShotInv, ThreadInv, ProgramInv, ResultInv, Forked, Saved, Active,
       flags, disk, files

(* Programs: after the fork that of the thread is the only one.            *)
LEMMA ShotProg ==
  ASSUME TypeOK, Clean, NEW m \in Meas, NEW p \in Meas, ShotInv(m), ProgStep(p)
  PROVE  ShotInv(m)'
  <1>1. UNCHANGED <<env, flags, pc, local, measurePara, xml, copied>>
    BY DEF ProgStep, Exec, StartCommand, WaitError, SaveCommand, Exit, Crash, files
  <1>2. prog[p] \in Live /\ prog' = [prog EXCEPT ![p] = prog'[p]]
    BY DEF ProgStep, Exec, StartCommand, WaitError, SaveCommand, Exit, Crash, Become, TypeOK, Live
  <1>3. ThreadInv(m)'
    BY <1>1 DEF ShotInv, ThreadInv, Forked, Active, flags
  <1>4. CASE ~Forked(m)
    <2>1. copied[m].made => prog'[m] = "done"
      BY <1>2 DEF ShotInv, ResultInv, TypeOK, Live
    <2>2. ~Forked(m)'
      BY <1>1, <1>4 DEF Forked, Active
    <2>3. pc[m] \notin {"wread", "config", "copy"} /\ (Active(m) => ~Saved(m))
      BY <1>4 DEF ShotInv, ThreadInv, ResultInv, Forked, Active, Outside, Saved
    <2>4. QED
      BY <1>1, <1>3, <2>1, <2>2, <2>3 DEF ShotInv, ProgramInv, ResultInv, Active, Outside, flags
  <1>5. CASE Forked(m)
    <2>1. p = m
      BY <1>2, <1>5 DEF ShotInv, ProgramInv
    <2>2. ProgramInv(m)'
      <3>1. \A q \in Meas \ {m} : prog'[q] \notin Live
        BY <1>2, <1>5, <2>1 DEF ShotInv, ProgramInv, TypeOK
      <3>2. /\ prog'[m] \in Live \cup {"done", "failed"}
            /\ prog'[m] # "forked" => out'.of = m
            /\ prog'[m] \in {"erring", "failed"} => "error" \in out'.lines
            /\ prog'[m] \in {"saving", "done"} => dat' = m
        <4> USE <1>5, <2>1 DEF ShotInv, ProgramInv, TypeOK, Live, Become, Writes
        <4>1. CASE Exec(p)
          BY <4>1 DEF Exec
        <4>2. CASE StartCommand(p)
          BY <4>2 DEF StartCommand, Clean, Sequential
        <4>3. CASE WaitError(p)
          BY <4>3 DEF WaitError
        <4>4. CASE SaveCommand(p)
          BY <4>4 DEF SaveCommand
        <4>5. CASE Exit(p) \/ Crash(p)
          BY <4>5 DEF Exit, Crash, files, Clean
        <4>6. QED
          BY <4>1, <4>2, <4>3, <4>4, <4>5 DEF ProgStep
      <3>3. QED
        BY <3>1, <3>2 DEF ProgramInv
    <2>3. ResultInv(m)'
      BY <1>1, <1>2, <2>1 DEF ShotInv, ResultInv, Saved, Live, flags
    <2>4. QED
      BY <1>3, <2>2, <2>3 DEF ShotInv
  <1>6. QED
    BY <1>4, <1>5

(* Another thread at work: this one is not, and what it has copied stays.  *)
LEMMA ShotOther ==
  ASSUME ProgInv, Clean, NEW m \in Meas, NEW n \in Meas, n # m, ShotInv(m), MeasStep(n)
  PROVE  ShotInv(m)'
  <1>1. Active(n) /\ pc'[m] = pc[m]
    BY MeasEffect DEF ProgInv, ExclInv, Clean
  <1>2. pc[m] \in Outside
    BY <1>1 DEF ProgInv, ExclInv, OneMeasurement, Active, Clean
  <1>3. local'[m] = local[m] /\ copied'[m] = copied[m]
    BY DEF ProgInv, ExclInv, TypeOK, Ends, Set, disk, files, MeasStep, Refuse, Begin, Loop, ReadSettings, SetUp, Kill,
       Fork, AwaitStart, Failed, Status, ReadOutput, Over, Wait, WaitStatus, WaitRead,
       writeConfigFile, abortMeasurement, End, Check, Copy, Finish
  <1>4. prog[m] = "done" => prog'[m] = "done"
    BY DEF ProgInv, ExclInv, TypeOK, KillAll, Become, disk, Live, MeasStep, Refuse, Begin, Loop, ReadSettings, SetUp, Kill,
       Fork, AwaitStart, Failed, Status, ReadOutput, Over, Wait, WaitStatus, WaitRead,
       writeConfigFile, abortMeasurement, End, Check, Copy, Finish
  <1>5. QED
    BY <1>1, <1>2, <1>3, <1>4
       DEF ShotInv, ThreadInv, ProgramInv, ResultInv, Forked, Active, Outside

(* The thread's own steps.                                                 *)
LEMMA ShotThread ==
  ASSUME ProgInv, Clean, NEW m \in Meas, ShotInv(m), MeasStep(m)
  PROVE  ThreadInv(m)'
  <1> USE DEF ProgInv, ExclInv, TypeOK, ShotInv, ThreadInv, Forked, Active, Outside, At, Goto, quiet
  <1>1. pc[m] # "failed"
    BY DEF OutputInv, Clean
  <1>2. CASE Refuse(m) \/ Check(m) \/ Finish(m)
    BY <1>2 DEF Refuse, Check, Finish, Ends, Fresh, disk
  <1>3. CASE Begin(m) \/ Loop(m) \/ Over(m) \/ Wait(m) \/ End(m) \/ Copy(m)
    BY <1>3 DEF Begin, Loop, Over, Wait, End, Copy, disk
  <1>4. CASE ReadSettings(m) \/ AwaitStart(m) \/ Status(m) \/ ReadOutput(m) \/ WaitStatus(m)
    <2>1. UNCHANGED <<measurePara, stopMeasurement>> /\ local'[m].clock = local[m].clock
      BY <1>4 DEF ReadSettings, AwaitStart, Status, ReadOutput, WaitStatus, Set, Local, disk
    <2>2. CASE ReadSettings(m)
      BY <2>1, <2>2 DEF ReadSettings, Set, Local
    <2>3. CASE AwaitStart(m)
      BY <2>1, <2>3 DEF AwaitStart, Set, Local, OutputInv, Clean, Sequential
    <2>4. CASE Status(m) \/ ReadOutput(m) \/ WaitStatus(m)
      <3>1. /\ local'[m].started = local[m].started /\ local[m].started /\ pc[m] \in {"status", "read", "wstatus"}
            /\ pc'[m] \in {"over", "read", "loop", "wread"}
        BY <2>4 DEF Status, ReadOutput, WaitStatus, Set, Local
      <3>2. QED
        BY <2>1, <3>1
    <2>5. QED
      BY <1>4, <2>2, <2>3, <2>4
  <1>5. CASE SetUp(m) \/ Kill(m) \/ Fork(m)
    BY <1>5 DEF SetUp, Kill, Fork
  <1>6. CASE WaitRead(m) \/ writeConfigFile(m)
    BY <1>6 DEF WaitRead, writeConfigFile, SavingTimeOver, Set, Local, disk
  <1>7. QED
    BY <1>1, <1>2, <1>3, <1>4, <1>5, <1>6 DEF MeasStep, Failed, abortMeasurement

LEMMA ShotProgram ==
  ASSUME ProgInv, Clean, NEW m \in Meas, ShotInv(m), MeasStep(m)
  PROVE  ProgramInv(m)'
  <1> USE DEF ProgInv, ExclInv, TypeOK, ShotInv
  <1>1. CASE Fork(m)
    <2>1. \A p \in Meas \ {m} : prog'[p] \notin Live
      BY <1>1 DEF Fork, Become, KilledInv, Clean, At
    <2>2. prog'[m] = "forked"
      BY <1>1 DEF Fork, Become
    <2>3. QED
      BY <2>1, <2>2 DEF ProgramInv, Live
  <1>2. CASE Kill(m) \/ SetUp(m)
    BY <1>2 DEF Kill, SetUp, Goto, At, ProgramInv, ThreadInv, Forked, Active, Outside
  <1>3. CASE ~(Fork(m) \/ Kill(m) \/ SetUp(m) \/ abortMeasurement(m))
    <2>1. UNCHANGED <<prog, out, dat>>
      BY <1>3 DEF disk, files, MeasStep, Refuse, Begin, Loop, ReadSettings, AwaitStart, Failed,
         Status, ReadOutput, Over, Wait, WaitStatus, WaitRead, writeConfigFile, End, Check, Copy, Finish
    <2>2. Forked(m)' => Forked(m)
      <3>1. AwaitStart(m) => Forked(m)
        BY DEF AwaitStart, Forked, At
      <3>2. ~AwaitStart(m) => (local'[m].started => local[m].started) /\ pc'[m] # "await"
        BY <1>3 DEF Set, Ends, Fresh, Local, Goto, MeasStep, Refuse, Begin, Loop, ReadSettings, Failed,
           Status, ReadOutput, Over, Wait, WaitStatus, WaitRead, writeConfigFile, End, Check, Copy, Finish
      <3>3. Active(m)
        BY MeasEffect DEF Clean
      <3>4. QED
        BY <3>1, <3>2, <3>3 DEF Forked
    <2>3. QED
      BY <2>1, <2>2 DEF ProgramInv
  <1>4. QED
    BY <1>1, <1>2, <1>3 DEF abortMeasurement, At, ThreadInv

LEMMA ShotResult ==
  ASSUME ProgInv, Clean, NEW m \in Meas, ShotInv(m), MeasStep(m)
  PROVE  ResultInv(m)'
  <1> USE DEF ProgInv, ExclInv, TypeOK, ShotInv, ResultInv, At, Goto
  <1>1. pc[m] \notin {"failed", "abort"} /\ (copied[m].made => pc[m] = "finish" \/ pc[m] = "done")
    BY DEF OutputInv, Clean, ThreadInv
  <1>2. CASE Refuse(m) \/ Finish(m)
    BY <1>1, <1>2 DEF Refuse, Finish, Ends, disk, files
  <1>3. CASE \/ Begin(m) \/ Loop(m) \/ ReadSettings(m) \/ SetUp(m) \/ Kill(m) \/ Fork(m) \/ AwaitStart(m)
             \/ Status(m) \/ ReadOutput(m) \/ Over(m)
    <2> DEFINE Goal == /\ pc'[m] \notin {"wread", "config", "end", "check", "copy"} /\ copied' = copied
                       /\ pc[m] \notin {"finish", "done"}
    <2>10. ASSUME Begin(m) PROVE Goal
      BY <2>10, <1>1 DEF Begin, disk, files
    <2>11. ASSUME Loop(m) PROVE Goal
      BY <2>11, <1>1 DEF Loop, disk, files
    <2>12. ASSUME ReadSettings(m) PROVE Goal
      BY <2>12, <1>1 DEF ReadSettings, disk, files
    <2>13. ASSUME SetUp(m) PROVE Goal
      BY <2>13, <1>1 DEF SetUp, disk, files
    <2>14. ASSUME Kill(m) PROVE Goal
      BY <2>14, <1>1 DEF Kill, disk, files
    <2>15. ASSUME Fork(m) PROVE Goal
      BY <2>15, <1>1 DEF Fork, disk, files
    <2>16. ASSUME AwaitStart(m) PROVE Goal
      BY <2>16, <1>1 DEF AwaitStart, disk, files
    <2>17. ASSUME Status(m) PROVE Goal
      BY <2>17, <1>1 DEF Status, disk, files
    <2>18. ASSUME ReadOutput(m) PROVE Goal
      BY <2>18, <1>1 DEF ReadOutput, disk, files
    <2>19. ASSUME Over(m) PROVE Goal
      BY <2>19, <1>1 DEF Over, disk, files
    <2>1. Goal
      BY <1>3, <2>10, <2>11, <2>12, <2>13, <2>14, <2>15, <2>16, <2>17, <2>18, <2>19
    <2>2. QED
      BY <1>1, <2>1
  <1>4. CASE Wait(m)
    BY <1>1, <1>4 DEF Wait, ThreadInv, disk, files, quiet
  <1>5. CASE WaitStatus(m)
    <2>1. local'[m].seen = Processes /\ prog' = prog /\ copied' = copied
          /\ pc[m] = "wstatus" /\ pc'[m] = "wread"
      BY <1>5 DEF WaitStatus, Set, Local, disk, files
    <2>2. Processes = "Finished" => prog[m] \notin Live
      BY DEF Processes
    <2>3. QED
      BY <1>1, <2>1, <2>2
  <1>6. CASE WaitRead(m)
    <2>1. /\ UNCHANGED <<disk, stopMeasurement>> /\ pc[m] = "wread" /\ pc'[m] \in {"end", "config", "wait", "abort"}
          /\ local'[m].err = ("error" \in out.lines) /\ local'[m].started = local[m].started
      BY <1>6 DEF WaitRead, Set, Local, quiet
    <2>2. ASSUME pc'[m] = "end" PROVE local'[m].err
      BY <1>6, <2>1, <2>2 DEF WaitRead
    <2>3. ASSUME pc'[m] = "config" PROVE local'[m].started /\ prog[m] = "done"
      <3>1. local[m].started /\ Forked(m)
        BY <2>1 DEF ThreadInv, Forked, Active, Outside
      <3>2. "error" \notin out.lines /\ prog[m] \notin Live
        BY <1>6, <2>1, <2>3 DEF WaitRead
      <3>3. QED
        BY <2>1, <3>1, <3>2 DEF ProgramInv
    <2>4. QED
      BY <1>1, <2>1, <2>2, <2>3 DEF Saved, disk, files
  <1>7. CASE writeConfigFile(m)
    <2>1. /\ pc[m] = "config" /\ UNCHANGED <<prog, copied, stopMeasurement>> /\ pc'[m] \in {"end", "dead"}
          /\ local'[m].started = local[m].started
      BY <1>7 DEF writeConfigFile, Set, Local, quiet
    <2>2. measurePara = m /\ Saved(m)
      BY <2>1 DEF ThreadInv, Forked, Saved, Active, Outside
    <2>3. pc'[m] = "end" => local'[m].err \/ xml' = m
      BY <1>7, <2>2 DEF writeConfigFile, Set, Local
    <2>4. QED
      BY <1>1, <2>1, <2>2, <2>3 DEF Saved
  <1>8. CASE End(m)
    BY <1>1, <1>8 DEF End, Saved, disk, files
  <1>9. CASE Check(m)
    BY <1>1, <1>9 DEF Check, Ends, Saved, disk, files
  <1>10. CASE Copy(m)
    <2>1. Saved(m) /\ xml = m /\ dat = m
      BY <1>10 DEF Copy, Saved, ProgramInv, Forked, Active, Outside
    <2>2. QED
      BY <1>10, <2>1 DEF Copy, Saved
  <1>11. QED
    BY <1>1, <1>2, <1>3, <1>4, <1>5, <1>6, <1>7, <1>8, <1>9, <1>10
       DEF MeasStep, Failed, abortMeasurement

LEMMA CopyInvStep == ProgInv /\ CopyInv /\ [Next]_vars => CopyInv'
  <1> SUFFICES ASSUME ProgInv, CopyInv, [Next]_vars, Clean', NEW m \in Meas PROVE ShotInv(m)'
    BY DEF CopyInv
  <1>1. env' = env
    BY DEF Next, MainStep, startExp, stopExp, APDCAM_on, Connected, ConnectFails, APDCAM_off, Close,
       commErrorResponse, Blocked, others, BeginUpdate, EndUpdate, unread, ProgStep, Tick, vars, camera, MeasStep, Refuse, Begin, Loop, ReadSettings, SetUp, Kill,
       Fork, AwaitStart, Failed, Status, ReadOutput, Over, Wait, WaitStatus, WaitRead,
       writeConfigFile, abortMeasurement, End, Check, Copy, Finish
  <1>2. TypeOK /\ Clean /\ ShotInv(m)
    BY <1>1 DEF CopyInv, ProgInv, ExclInv, Clean, Sequential
  <1>3. ASSUME NEW n \in Meas, MeasStep(n) PROVE ShotInv(m)'
    BY <1>2, <1>3, ShotOther, ShotThread, ShotProgram, ShotResult DEF ShotInv
  <1>4. CASE BeginUpdate \/ EndUpdate \/ UNCHANGED vars
    BY <1>2, <1>4 DEF BeginUpdate, EndUpdate, unread, vars, flags, disk, files,
       ShotInv, ThreadInv, ProgramInv, ResultInv, Forked, Saved, Active
  <1>5. ASSUME NEW n \in Meas, ProgStep(n) \/ Tick(n) PROVE ShotInv(m)'
    BY <1>2, <1>5, ShotProg, ShotTick
  <1>6. CASE MainStep
    BY <1>2, <1>6, ShotMain
  <1>7. QED
    BY <1>3, <1>4, <1>5, <1>6 DEF Next

(* What is copied into the directory of a shot are the data and the        *)
(* configuration of that shot, whatever earlier measurements have left in  *)
(* data/ and whatever the user does meanwhile, as long as measure() does   *)
(* not fail, and programs neither crash nor hang.                          *)
THEOREM CopiesAreOwn == Spec => []CopiedIsOwn
  <1>1. Init => ProgInv /\ CopyInv
    <2>1. Init => CopyInv
      BY DEF Init, CopyInv, ShotInv, ThreadInv, ProgramInv, ResultInv, Forked, Active, Outside, Fresh
    <2>2. Init => KilledInv /\ OneProgram
      BY DEF Init, KilledInv, OneProgram, Live
    <2>3. QED
      BY <2>1, <2>2, ExclInit DEF ProgInv
  <1>2. CopyInv => CopiedIsOwn
    BY DEF CopyInv, Clean, ShotInv, ResultInv, CopiedIsOwn
  <1>3. QED
    BY <1>1, <1>2, ProgInvStep, CopyInvStep, PTL DEF Spec
=============================================================================
