--------------------------- MODULE MhiPowerProofs ---------------------------
(***************************************************************************)
(* The power state of the modem driver, for any number of sleeps, errors   *)
(* and late answers: a removal that met nobody leaves nothing behind, a    *)
(* link that was declared dead stays dead, and a wait for dev_state that   *)
(* ends means that pm_state has arrived there too.                         *)
(***************************************************************************)
EXTENDS MhiPower, TLAPS

\* Where the removal is once it has declared the link dead, and the states of
\* pm_state it goes through; all others are the driver's life.
Dead == {"shutdown", "killing", "destroying", "flushing", "again", "freeing", "done"}
Stopped == Ending \cup {"DISABLE"}
Running == (L0 \cup Failing) \ {"DISABLE"}

\* Before the probe has powered the modem up nothing is scheduled; from then on
\* to the removal the driver is alive, and its context there until it is freed.
UnusedInv ==
    down = "no" /\ ~powered =>
        /\ pm = "DISABLE" /\ ~ctxt /\ ~task /\ ~children /\ ~poll /\ ~errwork
        /\ list = <<>> /\ st = "idle" /\ err = "idle"
AliveInv == powered \/ down = "fatal" => pm \in Running
ContextInv == powered \/ down \notin {"no", "done"} => ctxt

\* What a removal that met nobody has reached, and what stays so.
RemovedInv ==
    clean /\ down \in Dead =>
        /\ pm = IF down = "shutdown" THEN "LD_ERR_FATAL_DETECT"
                ELSE IF down \in {"freeing", "done"} THEN "DISABLE" ELSE "SHUTDOWN_PROCESS"
        /\ ~poll /\ err \notin Middle /\ st \notin {"create", "adding"}
        /\ down \notin {"shutdown", "killing"} => ~task
        /\ down \notin {"shutdown", "killing", "destroying"} => ~children
        /\ down \in {"again", "freeing", "done"} => st = "idle" /\ list = <<>>

RemovalInv ==
    /\ pm \in Running \cup Stopped /\ down \in {"no", "fatal"} \cup Dead
    /\ powered => down = "no"
    /\ UnusedInv /\ AliveInv /\ ContextInv /\ RemovedInv
    /\ oops => ~clean /\ down = "done"

\* The rows of the transition table that matter to the removal.
LEMMA TableRows ==
    /\ Allowed("DISABLE") = {"POR"}
    /\ Allowed("SHUTDOWN_PROCESS") = {"DISABLE", "LD_ERR_FATAL_DETECT"}
    /\ Allowed("LD_ERR_FATAL_DETECT") = Ending
  BY Zenon DEF Allowed

\* From a state of the driver's life the link can always be declared dead.
LEMMA TableEnds == ASSUME NEW s \in Running PROVE Ending \subseteq Allowed(s)
  BY Zenon DEF Running, L0, Failing, Allowed

\* A step that tries for a state of the driver's life does not get there from
\* a state it was stopped in.
PmMoves == pm' = pm \/ (pm \in Running /\ pm' \in Running)
LEMMA TryMoves ==
    ASSUME NEW s \in Running, pm \in Running \cup Stopped, pm' = Try(s),
           s = "POR" => pm # "DISABLE"
    PROVE  PmMoves
  <1>1. CASE pm \in Running BY <1>1, Zenon DEF PmMoves, Try
  <1>2. CASE pm \in Stopped
    <2>1. s \notin Stopped BY Zenon DEF Running, Stopped, L0, Failing, Ending
    <2>2. s \notin Allowed(pm) BY <1>2, <2>1, TableRows, Zenon DEF Stopped, Ending
    <2> QED BY <2>2, Zenon DEF PmMoves, Try
  <1> QED BY <1>1, <1>2, Zenon

\* What the threads other than the removal may do: they follow from one
\* another, and start anew only while the driver is alive.
WorkStep ==
    /\ UNCHANGED <<powered, down, ctxt, clean>>
    /\ pm' \in Running \cup Stopped /\ (clean \/ down \notin Dead => PmMoves)
    /\ task' => task \/ pm \in Running
    /\ children' => children \/ st = "adding"
    /\ poll' => poll
    /\ errwork' => errwork \/ pm \in Running
    /\ err' # "idle" => err # "idle" \/ errwork
    /\ err' \in Middle => err \in Middle \/ (err # "idle" /\ pm \in Running)
    /\ list' # <<>> => list # <<>> \/ task \/ poll
    /\ st' # "idle" => st # "idle" \/ list # <<>>
    /\ st' \in {"create", "adding"} =>
          st \in {"create", "adding"} \/ (st # "idle" /\ pm \notin Ending)
    /\ oops' => oops \/ (~clean /\ down = "done")

\* They keep the invariant.
LEMMA WorkKept == ASSUME RemovalInv, WorkStep PROVE RemovalInv'
  <1>1. Running \cap Stopped = {} /\ Ending \subseteq Stopped /\ "DISABLE" \in Stopped
       BY Zenon DEF Running, Stopped, L0, Failing, Ending
  <1>2. pm' \in Running \cup Stopped /\ down' \in {"no", "fatal"} \cup Dead /\ (powered' => down' = "no")
       BY Zenon DEF RemovalInv, WorkStep
  <1>3. UnusedInv'
    <2> SUFFICES ASSUME down = "no", ~powered
                 PROVE  /\ pm' = "DISABLE" /\ ~ctxt' /\ ~task' /\ ~children' /\ ~poll' /\ ~errwork'
                        /\ list' = <<>> /\ st' = "idle" /\ err' = "idle"
      BY Zenon DEF WorkStep, UnusedInv
    <2>1. /\ pm = "DISABLE" /\ ~ctxt /\ ~task /\ ~children /\ ~poll /\ ~errwork
          /\ list = <<>> /\ st = "idle" /\ err = "idle" /\ pm \notin Running
         BY <1>1, Zenon DEF RemovalInv, UnusedInv
    <2>2. down \notin Dead BY Zenon DEF Dead
    <2> QED BY <2>1, <2>2, Zenon DEF WorkStep, PmMoves
  <1>4. AliveInv'
    <2>1. powered \/ down = "fatal" => down \notin Dead BY Zenon DEF RemovalInv, Dead
    <2> QED BY <2>1, Zenon DEF RemovalInv, AliveInv, WorkStep, PmMoves
  <1>5. ContextInv' BY Zenon DEF RemovalInv, ContextInv, WorkStep
  <1>6. RemovedInv'
    <2> SUFFICES ASSUME clean, down \in Dead PROVE RemovedInv' BY Zenon DEF WorkStep, RemovedInv
    <2>1. pm \in Stopped /\ RemovedInv BY Zenon DEF RemovalInv, RemovedInv, Stopped, Ending
    <2>2. pm' = pm BY <1>1, <2>1, Zenon DEF WorkStep, PmMoves
    <2>3. ~poll' /\ err' \notin Middle BY <1>1, <2>1, Zenon DEF WorkStep, RemovedInv
    <2>4. down \notin {"shutdown", "killing"} => ~task' BY <1>1, <2>1, Zenon DEF WorkStep,
                                                           RemovedInv
    <2>5. down \notin {"shutdown", "killing", "destroying"} => ~children'
         BY <2>1, Zenon DEF WorkStep, RemovedInv
    <2>6. down \in {"again", "freeing", "done"} => st' = "idle" /\ list' = <<>>
         BY <2>1, Zenon DEF WorkStep, RemovedInv
    <2>7. st' \notin {"create", "adding"}
      <3>1. CASE down \in {"again", "freeing", "done"} BY <2>6, <3>1, Zenon
      <3>2. CASE down \notin {"again", "freeing", "done"}
        <4>1. pm \in Ending BY <2>1, <3>2, Zenon DEF RemovedInv, Ending
        <4> QED BY <2>1, <4>1, Zenon DEF WorkStep, RemovedInv
      <3> QED BY <3>1, <3>2, Zenon
    <2> QED BY <2>1, <2>2, <2>3, <2>4, <2>5, <2>6, <2>7, Zenon DEF WorkStep, RemovedInv
  <1>7. oops' => ~clean' /\ down' = "done" BY Zenon DEF RemovalInv, WorkStep
  <1> QED BY <1>2, <1>3, <1>4, <1>5, <1>6, <1>7, Zenon DEF RemovalInv

\* Steps of the modem, and those of the callbacks that leave pm_state alone.
LEMMA FrameWorks ==
    ASSUME RemovalInv,
           UNCHANGED <<pm, task, list, st, poll, errwork, err>>,
           UNCHANGED <<powered, down, children, ctxt, oops, clean>>
    PROVE  WorkStep
  BY Zenon DEF RemovalInv, WorkStep, PmMoves

\* The modem and the waits of suspend and resume schedule nothing.
LEMMA ModemWorks ==
    ASSUME RemovalInv,
           \/ Modem \/ DeviceIdles \/ \E written \in BOOLEAN : DeviceFails(written)
           \/ SuspendBegins \/ SuspendEnds \/ SuspendFails \/ ResumeEnds
    PROVE  WorkStep
  <1>1. UNCHANGED <<pm, task, list, st, poll, errwork, err>>
       BY Zenon DEF Modem, DeviceBoots, DeviceObeys, DeviceWakes, DeviceIdles,
          DeviceFails, SuspendBegins, SuspendEnds, SuspendFails, ResumeEnds,
          machine, workers
  <1>2. UNCHANGED <<powered, down, children, ctxt, oops, clean>>
       BY Zenon DEF Modem, DeviceBoots, DeviceObeys, DeviceWakes, DeviceIdles,
          DeviceFails, SuspendBegins, SuspendEnds, SuspendFails, ResumeEnds,
          removal
  <1> QED BY <1>1, <1>2, FrameWorks, Zenon

\* The forced or interrupted look at MHISTATUS finds a fault of a driver that lives.
LEMMA ChecksStateMoves ==
    ASSUME RemovalInv, ChecksState
    PROVE  PmMoves /\ (errwork' => errwork \/ pm \in Running)
  <1>1. pm \in Running \cup Stopped /\ "SYS_ERR_DETECT" \in Running
       BY Zenon DEF RemovalInv, Running, L0, Failing
  <1>2. CASE UNCHANGED <<pm, errwork>> BY <1>2, Zenon DEF PmMoves
  <1>3. CASE pm # "SYS_ERR_DETECT" /\ pm' = "SYS_ERR_DETECT" /\ pm' = Try("SYS_ERR_DETECT")
    <2>1. PmMoves BY <1>1, <1>3, TryMoves, Zenon
    <2> QED BY <1>3, <2>1, Zenon DEF PmMoves
  <1> QED BY <1>2, <1>3, Zenon DEF ChecksState

\* The interrupt handler, the callbacks that move pm_state, and the tasklet.
LEMMA CallbacksWork ==
    ASSUME RemovalInv,
           Interrupt \/ SuspendRequests \/ ResumeBegins \/ ResumeFails
    PROVE  WorkStep
  <1>0. pm \in Running \cup Stopped /\ {"M3_ENTER", "M3_EXIT"} \subseteq Running
       BY Zenon DEF RemovalInv, Running, L0, Failing
  <1>1. PmMoves /\ (errwork' => errwork \/ pm \in Running)
    <2>1. CASE Interrupt \/ ResumeFails
         BY <2>1, ChecksStateMoves, Zenon DEF Interrupt, ResumeFails
    <2>2. CASE SuspendRequests
         BY <1>0, <2>2, TryMoves, Zenon DEF SuspendRequests, workers
    <2>3. CASE ResumeBegins
      <3>1. UNCHANGED errwork /\ (pm' = pm \/ pm' = Try("M3_EXIT"))
           BY <2>3, Zenon DEF ResumeBegins, workers
      <3> QED BY <1>0, <3>1, TryMoves, Zenon DEF PmMoves
    <2> QED BY <2>1, <2>2, <2>3, Zenon
  <1>2. UNCHANGED <<task, list, st, poll, err>>
       BY Zenon DEF Interrupt, SuspendRequests, ResumeBegins, ResumeFails, workers
  <1>3. UNCHANGED <<powered, down, children, ctxt, oops, clean>>
       BY Zenon DEF Interrupt, SuspendRequests, ResumeBegins, ResumeFails, removal
  <1>4. pm' \in Running \cup Stopped BY <1>0, <1>1, Zenon DEF PmMoves
  <1> QED BY <1>1, <1>2, <1>3, <1>4, Zenon DEF WorkStep

\* mhi_ctrl_ev_task schedules only while pm_state lets it.
LEMMA TaskletWorks == ASSUME RemovalInv, Tasklet PROVE WorkStep
  <1>0. /\ pm \in Running \cup Stopped /\ {"M0", "M2", "M3", "SYS_ERR_DETECT"} \subseteq Running
        /\ \A s \in Stopped : EventAccessInvalid(s)
       BY Zenon DEF RemovalInv, Running, Stopped, L0, Failing, EventAccessInvalid,
          InError
  <1>1. CASE TaskStarts
    <2>1. UNCHANGED <<pm, list, st, poll, errwork, err>> /\ pm \in Running
         BY <1>0, <1>1, Zenon DEF TaskStarts, machine
    <2>2. UNCHANGED <<powered, down, children, ctxt, oops, clean>>
         BY <1>1, Zenon DEF TaskStarts, removal
    <2> QED BY <2>1, <2>2, Zenon DEF WorkStep, PmMoves
  <1>2. CASE TaskHandles
    <2>1. UNCHANGED <<task, st, poll, err, powered, down, children, ctxt, oops, clean>> /\ task
         BY <1>2, Zenon DEF TaskHandles, removal
    <2>2. \/ pm' = pm \/ pm' = Try("M0") \/ pm' = Try("M2") \/ pm' = Try("M3")
          \/ pm' = Try("SYS_ERR_DETECT")
         BY <1>2, Zenon DEF TaskHandles, mhi_pm_m0_transition, mhi_pm_m1_transition,
            mhi_pm_m3_transition
    <2>3. errwork' = errwork \/ errwork' = (errwork \/ pm' = "SYS_ERR_DETECT")
         BY <1>2, Zenon DEF TaskHandles
    <2>4. PmMoves BY <1>0, <2>2, TryMoves, Zenon DEF PmMoves
    <2>5. errwork' => errwork \/ pm \in Running
         BY <1>0, <2>4, <2>3, Zenon DEF PmMoves
    <2> QED BY <1>0, <2>1, <2>4, <2>5, Zenon DEF WorkStep, PmMoves
  <1>3. CASE TaskEnds
    <2>1. UNCHANGED <<pm, list, st, poll, errwork, err>> /\ ~task'
         BY <1>3, Zenon DEF TaskEnds, machine
    <2>2. UNCHANGED <<powered, down, children, ctxt, oops, clean>>
         BY <1>3, Zenon DEF TaskEnds, removal
    <2> QED BY <1>0, <2>1, <2>2, Zenon DEF WorkStep, PmMoves
  <1> QED BY <1>1, <1>2, <1>3, Zenon DEF Tasklet

\* mhi_ready_state_transition: it reaches POR from the end of a removal, or uses
\* a freed context, only when the removal was not clean.
LEMMA ReadyMoves ==
    ASSUME RemovalInv, BecomesReady, st = "ready" \/ err = "ready"
    PROVE  /\ pm' \in Running \cup Stopped /\ (clean \/ down \notin Dead => PmMoves)
           /\ oops' => oops \/ (~clean /\ down = "done")
  <1>0. pm \in Running \cup Stopped /\ "POR" \in Running
       BY Zenon DEF RemovalInv, Running, L0, Failing
  <1>1. pm' = Try("POR") BY Zenon DEF BecomesReady
  <1>2. ~clean \/ (pm # "DISABLE" /\ ctxt) \/ down \notin Dead
    <2> SUFFICES ASSUME clean, down \in Dead PROVE pm # "DISABLE" /\ ctxt BY Zenon
    <2>1. err # "ready" BY Zenon DEF RemovalInv, RemovedInv, Middle
    <2>2. down \notin {"again", "freeing", "done"} BY <2>1, Zenon DEF RemovalInv, RemovedInv
    <2>3. ctxt BY <2>2, Zenon DEF RemovalInv, ContextInv, Dead
    <2> QED BY <2>2, <2>3, Zenon DEF RemovalInv, RemovedInv
  <1>3. down \notin Dead => pm # "DISABLE" /\ ctxt
    <2> SUFFICES ASSUME down \notin Dead PROVE pm # "DISABLE" /\ ctxt BY Zenon
    <2>1. powered \/ down = "fatal" BY Zenon DEF RemovalInv, UnusedInv
    <2>2. ctxt BY <2>1, Zenon DEF RemovalInv, ContextInv
    <2> QED BY <2>1, <2>2, Zenon DEF RemovalInv, AliveInv, Running
  <1>4. pm # "DISABLE" => PmMoves BY <1>0, <1>1, TryMoves, Zenon
  <1>5. pm' \in Running \cup Stopped BY <1>0, <1>1, Zenon DEF Try
  <1>6. oops' => oops \/ ~ctxt BY Zenon DEF BecomesReady
  <1>7. ~ctxt /\ down \in Dead => down = "done" BY Zenon DEF RemovalInv, ContextInv, Dead
  <1> QED BY <1>2, <1>3, <1>4, <1>5, <1>6, <1>7, Zenon

\* The poller and the state worker.
LEMMA StWorks == ASSUME RemovalInv, PollRuns \/ StWorker PROVE WorkStep
  <1>0. pm \in Running \cup Stopped BY Zenon DEF RemovalInv
  <1>1. CASE PollRuns
    <2>1. UNCHANGED <<pm, task, st, errwork, err>> /\ poll /\ ~poll'
         BY <1>1, Zenon DEF PollRuns, machine
    <2>2. UNCHANGED <<powered, down, children, ctxt, oops, clean>>
         BY <1>1, Zenon DEF PollRuns, removal
    <2> QED BY <1>0, <2>1, <2>2, Zenon DEF WorkStep, PmMoves
  <1>2. CASE StTakes
    <2>1. /\ UNCHANGED <<pm, task, poll, errwork, err>> /\ list # <<>>
          /\ st' \in {"ready", "mission"}
         BY <1>2, Zenon DEF StTakes, machine
    <2>2. UNCHANGED <<powered, down, children, ctxt, oops, clean>>
         BY <1>2, Zenon DEF StTakes, removal
    <2>3. st' \notin {"create", "adding"} BY <2>1, Zenon
    <2> QED BY <1>0, <2>1, <2>2, <2>3, Zenon DEF WorkStep, PmMoves
  <1>3. CASE StReady
    <2>1. UNCHANGED <<task, list, poll, errwork, err, powered, down, children, ctxt, clean>> /\ st' = "idle"
         BY <1>3, Zenon DEF StReady
    <2>2. BecomesReady /\ st = "ready" BY <1>3, Zenon DEF StReady
    <2>3. st' \notin {"create", "adding"} BY <2>1, Zenon
    <2> QED BY <2>1, <2>2, <2>3, ReadyMoves, Zenon DEF WorkStep
  <1>4. CASE StNotReady \/ StSyncs
    <2>1. /\ UNCHANGED <<pm, task, list, poll, errwork, err>>
          /\ st # "idle" /\ st' \in {"idle", "synced"}
         BY <1>4, Zenon DEF StNotReady, StSyncs, machine
    <2>2. UNCHANGED <<powered, down, children, ctxt, oops, clean>>
         BY <1>4, Zenon DEF StNotReady, StSyncs, removal
    <2>3. st' \notin {"create", "adding"} BY <2>1, Zenon
    <2> QED BY <1>0, <2>1, <2>2, <2>3, Zenon DEF WorkStep, PmMoves
  <1>5. CASE StMission
    <2>1. /\ UNCHANGED <<pm, task, list, poll, errwork, err>>
          /\ st # "idle" /\ st' \in {"idle", "create"} /\ (st' = "create" => ~InError(pm))
         BY <1>5, Zenon DEF StMission
    <2>2. UNCHANGED <<powered, down, children, ctxt, oops, clean>>
         BY <1>5, Zenon DEF StMission, removal
    <2>3. st' \in {"create", "adding"} => pm \notin Ending BY <2>1, Zenon DEF InError
    <2> QED BY <1>0, <2>1, <2>2, <2>3, Zenon DEF WorkStep, PmMoves
  <1>6. CASE StChecks
    <2>1. UNCHANGED <<pm, task, list, poll, errwork, err>> /\ st = "create"
         BY <1>6, Zenon DEF StChecks, machine
    <2>2. UNCHANGED <<powered, down, children, ctxt, oops, clean>>
         BY <1>6, Zenon DEF StChecks, removal
    <2>3. st # "idle" /\ st \in {"create", "adding"} BY <2>1, Zenon
    <2> QED BY <1>0, <2>1, <2>2, <2>3, Zenon DEF WorkStep, PmMoves
  <1>7. CASE StAdds
    <2>1. UNCHANGED <<pm, task, list, poll, errwork, err>> /\ st = "adding" /\ st' = "idle"
         BY <1>7, Zenon DEF StAdds, machine
    <2>2. UNCHANGED <<powered, down, ctxt, oops, clean>> BY <1>7, Zenon DEF StAdds
    <2>3. st' \notin {"create", "adding"} BY <2>1, Zenon
    <2> QED BY <1>0, <2>1, <2>2, <2>3, Zenon DEF WorkStep, PmMoves
  <1> QED BY <1>1, <1>2, <1>3, <1>4, <1>5, <1>6, <1>7, Zenon DEF StWorker

\* The recovery worker.
LEMMA ErrWorks == ASSUME RemovalInv, ErrWorker PROVE WorkStep
  <1>0. pm \in Running \cup Stopped /\ "SYS_ERR_PROCESS" \in Running
       BY Zenon DEF RemovalInv, Running, L0, Failing
  <1>1. CASE ErrStarts
    <2>1. UNCHANGED <<pm, task, list, st, poll>> /\ errwork /\ ~errwork' /\ err' = "entered"
         BY <1>1, Zenon DEF ErrStarts, machine
    <2>2. UNCHANGED <<powered, down, children, ctxt, oops, clean>>
         BY <1>1, Zenon DEF ErrStarts, removal
    <2>3. err' \notin Middle BY <2>1, Zenon DEF Middle
    <2> QED BY <1>0, <2>1, <2>2, <2>3, Zenon DEF WorkStep, PmMoves
  <1>2. CASE ErrEnters
    <2>1. /\ UNCHANGED <<task, list, st, poll, errwork>> /\ err = "entered"
          /\ pm' = Try("SYS_ERR_PROCESS") /\ (pm' # "SYS_ERR_PROCESS" => err' = "idle")
         BY <1>2, Zenon DEF ErrEnters
    <2>2. UNCHANGED <<powered, down, children, ctxt, oops, clean>>
         BY <1>2, Zenon DEF ErrEnters, removal
    <2>3. PmMoves BY <1>0, <2>1, TryMoves, Zenon
    <2>4. err' \in Middle => pm \in Running
      <3>1. "idle" \notin Middle BY Zenon DEF Middle
      <3> QED BY <1>0, <2>1, <2>3, <3>1, Zenon DEF PmMoves
    <2>5. err # "idle" BY <2>1, Zenon
    <2> QED BY <1>0, <2>1, <2>2, <2>3, <2>4, <2>5, Zenon DEF WorkStep, PmMoves
  <1>3. CASE \/ ErrReset \/ ErrKills \/ ErrDestroys \/ ErrFlushes \/ ErrNotReady
    <2>1. UNCHANGED <<pm, task, list, st, poll, errwork>>
         BY <1>3, Zenon DEF ErrReset, ErrKills, ErrDestroys, ErrFlushes,
            ErrNotReady, machine
    <2>2. UNCHANGED <<powered, down, ctxt, oops, clean>>
         BY <1>3, Zenon DEF ErrReset, ErrKills, ErrDestroys, ErrFlushes,
            ErrNotReady, removal
    <2>3. children' => children
         BY <1>3, Zenon DEF ErrReset, ErrKills, ErrDestroys, ErrFlushes,
            ErrNotReady, removal
    <2>4. err \in Middle /\ err # "idle"
         BY <1>3, Zenon DEF ErrReset, ErrKills, ErrDestroys, ErrFlushes,
            ErrNotReady, Middle
    <2> QED BY <1>0, <2>1, <2>2, <2>3, <2>4, Zenon DEF WorkStep, PmMoves
  <1>4. CASE ErrResets
    <2>1. UNCHANGED <<pm, task, list, st, poll, errwork, powered, down, children, ctxt, clean>>
         BY <1>4, Zenon DEF ErrResets, machine
    <2>2. err = "again" /\ (oops' => oops \/ ~ctxt) BY <1>4, Zenon DEF ErrResets
    <2>3. err \in Middle /\ err # "idle" BY <2>2, Zenon DEF Middle
    <2>4. ~ctxt => ~clean /\ down = "done"
         BY <2>3, Zenon DEF RemovalInv, UnusedInv, ContextInv, RemovedInv, Dead
    <2> QED BY <1>0, <2>1, <2>2, <2>3, <2>4, Zenon DEF WorkStep, PmMoves
  <1>5. CASE ErrReady
    <2>1. UNCHANGED <<task, list, st, poll, errwork, powered, down, children, ctxt, clean>> /\ err' = "idle"
         BY <1>5, Zenon DEF ErrReady
    <2>2. BecomesReady /\ err = "ready" BY <1>5, Zenon DEF ErrReady
    <2>3. err' \notin Middle BY <2>1, Zenon DEF Middle
    <2> QED BY <2>1, <2>2, <2>3, ReadyMoves, Zenon DEF WorkStep
  <1> QED BY <1>1, <1>2, <1>3, <1>4, <1>5, Zenon DEF ErrWorker

\* The probe: it powers the modem up, or fails and has nothing to free.
LEMMA ProbeKeeps == ASSUME RemovalInv, NEW fails, PowerUp(fails) PROVE RemovalInv'
  <1>1. /\ pm = "DISABLE" /\ ~powered /\ down = "no"
        /\ UNCHANGED <<task, st, errwork, err, children, oops, clean>>
       BY Zenon DEF PowerUp
  <1>2. /\ ~ctxt /\ ~task /\ ~children /\ ~poll /\ ~errwork /\ ~oops
        /\ list = <<>> /\ st = "idle" /\ err = "idle"
       BY <1>1, Zenon DEF RemovalInv, UnusedInv
  <1>3. CASE fails
    <2>1. down' = "done" /\ UNCHANGED <<pm, powered, ctxt, list, poll>>
         BY <1>3, Zenon DEF PowerUp
    <2>2. RemovedInv' BY <1>1, <1>2, <2>1, Zenon DEF RemovedInv, Middle
    <2>3. UnusedInv' /\ AliveInv' /\ ContextInv'
         BY <1>1, <2>1, Zenon DEF UnusedInv, AliveInv, ContextInv
    <2> QED BY <1>1, <1>2, <2>1, <2>2, <2>3, Zenon DEF RemovalInv, Dead, Stopped
  <1>4. CASE ~fails
    <2>1. pm' = "POR" /\ powered' /\ ctxt' /\ down' = "no"
         BY <1>1, <1>4, Zenon DEF PowerUp
    <2>2. "POR" \in Running BY Zenon DEF Running, L0
    <2>3. RemovedInv' BY <2>1, Zenon DEF RemovedInv, Dead
    <2>4. UnusedInv' /\ AliveInv' /\ ContextInv'
         BY <2>1, <2>2, Zenon DEF UnusedInv, AliveInv, ContextInv
    <2> QED BY <1>1, <1>2, <2>1, <2>2, <2>3, <2>4, Zenon DEF RemovalInv
  <1> QED BY <1>3, <1>4, Zenon

\* The removal begins and declares the link dead.
LEMMA RemovalBegins == ASSUME RemovalInv, RemoveBegins \/ DownFatal PROVE RemovalInv'
  <1>1. CASE RemoveBegins
    <2>1. /\ powered /\ ~powered' /\ down' = "fatal" /\ UNCHANGED <<pm, ctxt, oops, clean>>
         BY <1>1, Zenon DEF RemoveBegins, machine
    <2>2. pm \in Running /\ ctxt /\ down = "no" BY <2>1, Zenon DEF RemovalInv, AliveInv,
                                                   ContextInv
    <2>3. UnusedInv' /\ AliveInv' /\ ContextInv' /\ RemovedInv'
         BY <2>1, <2>2, Zenon DEF UnusedInv, AliveInv, ContextInv, RemovedInv, Dead
    <2>4. ~oops BY <2>2, Zenon DEF RemovalInv
    <2> QED BY <2>1, <2>2, <2>3, <2>4, Zenon DEF RemovalInv
  <1>2. CASE DownFatal
    <2>1. /\ down = "fatal" /\ down' = "shutdown" /\ pm' = Try("LD_ERR_FATAL_DETECT")
          /\ UNCHANGED <<powered, ctxt, oops, poll, err, st>>
         BY <1>2, Zenon DEF DownFatal, workers
    <2>2. clean' => err \notin Middle /\ st \notin {"create", "adding"} /\ ~poll
         BY <1>2, Zenon DEF DownFatal
    <2>3. pm \in Running /\ ctxt /\ ~powered /\ ~oops
         BY <2>1, Zenon DEF RemovalInv, AliveInv, ContextInv
    <2>4. pm' = "LD_ERR_FATAL_DETECT" BY <2>1, <2>3, TableEnds, Zenon DEF Try, Ending
    <2>5. RemovedInv' BY <2>1, <2>2, <2>4, Zenon DEF RemovedInv
    <2>6. UnusedInv' /\ AliveInv' /\ ContextInv'
         BY <2>1, <2>3, Zenon DEF UnusedInv, AliveInv, ContextInv
    <2> QED BY <2>1, <2>3, <2>4, <2>5, <2>6, Zenon DEF RemovalInv, Stopped, Ending, Dead
  <1> QED BY <1>1, <1>2, Zenon

\* The rest of the removal: each wait adds what it waited for.
LEMMA RemovalGoesOn ==
    ASSUME RemovalInv,
           \/ DownShuts \/ DownKills \/ DownDestroys
           \/ DownFlushes \/ DownDisables \/ DownFrees
    PROVE  RemovalInv'
  <1>0. UNCHANGED <<powered, oops, clean, task, list, st, poll, err>>
       BY Zenon DEF DownShuts, DownKills, DownDestroys, DownFlushes,
          DownDisables, DownFrees, workers
  <1>1. down \in Dead \ {"done"} /\ down' \in Dead
       BY Zenon DEF DownShuts, DownKills, DownDestroys, DownFlushes,
          DownDisables, DownFrees, Dead
  <1>2. ~powered /\ ~oops /\ ctxt
       BY <1>1, Zenon DEF RemovalInv, ContextInv, Dead
  <1>3. down' # "done" => ctxt'
       BY <1>2, Zenon DEF DownShuts, DownKills, DownDestroys, DownFlushes,
          DownDisables, DownFrees
  <1>4. UnusedInv' /\ AliveInv' /\ ContextInv'
       BY <1>0, <1>1, <1>2, <1>3, Zenon DEF UnusedInv, AliveInv, ContextInv, Dead
  <1>5. pm' \in Running \cup Stopped
    <2>1. \/ pm' = pm \/ pm' = Try("SHUTDOWN_PROCESS") \/ pm' = Try("DISABLE")
         BY Zenon DEF DownShuts, DownKills, DownDestroys, DownFlushes,
            DownDisables, DownFrees, machine
    <2> QED BY <2>1, Zenon DEF RemovalInv, Try, Stopped, Ending
  <1>6. ASSUME clean PROVE RemovedInv'
    <2>0. RemovedInv BY Zenon DEF RemovalInv
    <2>1. CASE DownShuts
      <3>1. down = "shutdown" /\ pm' = Try("SHUTDOWN_PROCESS")
           BY <2>1, Zenon DEF DownShuts
      <3>2. pm = "LD_ERR_FATAL_DETECT" BY <1>1, <1>6, <2>0, <3>1, Zenon DEF RemovedInv
      <3>3. pm' = "SHUTDOWN_PROCESS" BY <3>1, <3>2, TableRows, Zenon DEF Try, Ending
      <3>4. down' = "killing" BY <2>1, <3>3, Zenon DEF DownShuts
      <3> QED BY <1>0, <1>1, <1>6, <2>0, <3>3, <3>4, Zenon DEF RemovedInv
    <2>2. CASE DownKills
      <3>1. down = "killing" /\ ~task /\ down' = "destroying" /\ pm' = pm
           BY <2>2, Zenon DEF DownKills, machine
      <3> QED BY <1>0, <1>1, <1>6, <2>0, <3>1, Zenon DEF RemovedInv
    <2>3. CASE DownDestroys
      <3>1. down = "destroying" /\ ~children' /\ down' = "flushing" /\ pm' = pm
           BY <2>3, Zenon DEF DownDestroys, machine
      <3> QED BY <1>0, <1>1, <1>6, <2>0, <3>1, Zenon DEF RemovedInv
    <2>4. CASE DownFlushes
      <3>1. down = "flushing" /\ down' = "again" /\ pm' = pm /\ children' = children
           BY <2>4, Zenon DEF DownFlushes, machine
      <3>2. st = "idle" /\ list = <<>> BY <2>4, Zenon DEF DownFlushes, Flushed
      <3> QED BY <1>0, <1>1, <1>6, <2>0, <3>1, <3>2, Zenon DEF RemovedInv
    <2>5. CASE DownDisables
      <3>1. down = "again" /\ down' = "freeing" /\ pm' = Try("DISABLE") /\ children' = children
           BY <2>5, Zenon DEF DownDisables
      <3>2. pm = "SHUTDOWN_PROCESS" BY <1>1, <1>6, <2>0, <3>1, Zenon DEF RemovedInv
      <3>3. pm' = "DISABLE" BY <3>1, <3>2, TableRows, Zenon DEF Try
      <3> QED BY <1>0, <1>1, <1>6, <2>0, <3>1, <3>3, Zenon DEF RemovedInv
    <2>6. CASE DownFrees
      <3>1. down = "freeing" /\ down' = "done" /\ pm' = pm /\ children' = children
           BY <2>6, Zenon DEF DownFrees, machine
      <3> QED BY <1>0, <1>1, <1>6, <2>0, <3>1, Zenon DEF RemovedInv
    <2> QED BY <2>1, <2>2, <2>3, <2>4, <2>5, <2>6, Zenon
  <1>7. RemovedInv' BY <1>0, <1>6, Zenon DEF RemovedInv
  <1> QED BY <1>0, <1>1, <1>2, <1>4, <1>5, <1>7, Zenon DEF RemovalInv

\* Every step is one of the threads', of the probe or of the removal.
Probe == \E fails \in BOOLEAN : PowerUp(fails)
LEMMA StepsSorted ==
    ASSUME RemovalInv, [Next]_vars
    PROVE  WorkStep \/ Probe \/ RemoveBegins \/ Removal
  <1>1. CASE UNCHANGED vars
    <2>1. UNCHANGED <<pm, task, list, st, poll, errwork, err>>
         BY <1>1, Zenon DEF vars, machine, workers
    <2>2. UNCHANGED <<powered, down, children, ctxt, oops, clean>>
         BY <1>1, Zenon DEF vars, removal
    <2>3. pm \in Running \cup Stopped BY Zenon DEF RemovalInv
    <2> QED BY <2>1, <2>2, <2>3, FrameWorks, Zenon DEF WorkStep, PmMoves
  <1>2. CASE \/ Modem \/ DeviceIdles \/ \E written \in BOOLEAN : DeviceFails(written)
             \/ SuspendBegins
    BY <1>2, ModemWorks, Zenon
  <1>3. CASE Tasklet BY <1>3, TaskletWorks, Zenon
  <1>4. CASE PollRuns \/ StWorker BY <1>4, StWorks, Zenon
  <1>5. CASE Interrupt \/ ResumeBegins \/ Callback
    BY <1>5, ModemWorks, CallbacksWork, Zenon DEF Callback
  <1>6. CASE ErrWorker BY <1>6, ErrWorks, Zenon
  <1> QED BY <1>1, <1>2, <1>3, <1>4, <1>5, <1>6, Zenon DEF Next, Probe

\* Every step keeps the invariant.
LEMMA RemovalStep == ASSUME RemovalInv, [Next]_vars PROVE RemovalInv'
  <1>1. CASE RemoveBegins \/ Removal
    BY <1>1, RemovalBegins, RemovalGoesOn, Zenon DEF Removal
  <1> QED BY <1>1, StepsSorted, WorkKept, ProbeKeeps, Zenon DEF Probe

\* RemovalInv in every reachable state.
LEMMA RemovalAlways == Spec => []RemovalInv
  <1>1. Init => RemovalInv
    BY Zenon DEF Init, RemovalInv, UnusedInv, AliveInv, ContextInv, RemovedInv, Dead,
       Stopped
  <1>2. RemovalInv /\ [Next]_vars => RemovalInv' BY RemovalStep, Zenon
  <1> QED BY <1>1, <1>2, PTL DEF Spec

\* mhi_pci_device_removed, mhi_power_down: a removal that no recovery, boot or
\* client registration was under way to meet leaves nothing behind, and the
\* freed context is not used by work queued before.
THEOREM CleanRemovalEndsHolds == Spec => []CleanRemovalEnds
  <1>1. RemovalInv => CleanRemovalEnds
    BY Zenon DEF RemovalInv, RemovedInv, CleanRemovalEnds, Dead
  <1> QED BY <1>1, RemovalAlways, PTL

\* mhi_tryset_pm_state: once such a removal has declared the link dead, no late
\* event, worker or callback brings the modem back to life.
THEOREM DeadStaysDeadHolds == Spec => DeadStaysDead
  <1>1. ASSUME RemovalInv, RemovalInv', [Next]_vars, down \notin {"no", "fatal"}, clean
        PROVE  pm' \in Ending \cup {"DISABLE"}
    <2>1. down \in Dead BY <1>1, Zenon DEF RemovalInv
    <2>2. clean' /\ down' \in Dead
      <3>1. CASE WorkStep BY <1>1, <2>1, <3>1, Zenon DEF WorkStep
      <3>2. CASE Probe \/ RemoveBegins BY <1>1, <3>2, Zenon DEF Probe, PowerUp, RemoveBegins
      <3>3. CASE Removal
        <4>1. clean' = clean
          BY <1>1, <3>3, Zenon DEF Removal, DownFatal, DownShuts, DownKills,
             DownDestroys, DownFlushes, DownDisables, DownFrees
        <4>2. down' \in Dead
          BY <3>3, Zenon DEF Removal, DownFatal, DownShuts, DownKills,
             DownDestroys, DownFlushes, DownDisables, DownFrees, Dead
        <4> QED BY <1>1, <4>1, <4>2, Zenon
      <3> QED BY <1>1, <3>1, <3>2, <3>3, StepsSorted, Zenon
    <2>3. pm' \in {"LD_ERR_FATAL_DETECT", "SHUTDOWN_PROCESS", "DISABLE"}
      BY <1>1, <2>2, Zenon DEF RemovalInv, RemovedInv
    <2> QED BY <2>3, Zenon DEF Ending
  <1>2. RemovalInv /\ RemovalInv' /\ [Next]_vars
          => [down \notin {"no", "fatal"} /\ clean => pm' \in Ending \cup {"DISABLE"}]_vars
    BY <1>1, Zenon
  <1> QED BY <1>2, RemovalAlways, PTL DEF Spec, DeadStaysDead

\* The states of pm_state in which events are taken, those of a modem that has
\* not been told to go to M0, and what the ring holds.
Awake == {"POR"} \cup Up
Raw == {"RESET", "READY"}
Without(e) == \A k \in DOMAIN ring : ring[k] # e
Faults == \A k \in DOMAIN ring : ring[k] = "SYS_ERR"
NoneAfter(e, f) == \A j, k \in DOMAIN ring : j < k /\ ring[j] = e => ring[k] # f

\* Before the power up, and until st_worker has made its only ready transition,
\* the modem was given no command but a reset: no event of a sleep is under way.
Unused == ~powered /\ down = "no"
Starting == poll \/ list = <<"READY">> \/ st = "ready"
BootInv ==
    Starting \/ Unused =>
        /\ pm \notin Up /\ Faults /\ want \in {"none", "RESET"} /\ mhi \in Raw \cup {"SYS_ERR"}
        /\ st \in {"idle", "ready"} /\ list \in {<<>>, <<"READY">>} /\ err \notin {"again", "ready"}
        /\ poll => list = <<>> /\ st = "idle"
        /\ list = <<"READY">> => st = "idle"
        /\ Unused => want = "none"
ListInv ==
    /\ list \in Seq({"READY", "MISSION"})
    /\ list = <<"READY">> \/ \A i \in DOMAIN list : list[i] # "READY"
BootedInv == ~booted => mhi = "RESET" /\ want = "none" /\ ring = <<>> /\ err = "idle" /\ ~errwork

\* A reset is ordered only by a recovery, and never again once it has gone on.
ResetInv ==
    /\ want = "RESET" => pm \notin Awake /\ err \in {"idle", "entered", "resetting"}
    /\ down = "shutdown" => pm = "LD_ERR_FATAL_DETECT"

\* A modem that has just left its reset has none of the events of its past in
\* the ring when the host goes on to POR.
RawInv ==
    /\ mhi \in Raw => want \in {"none", "M0", "RESET"}
    /\ mhi \in Raw /\ pm \in Awake => pm = "POR" /\ Without("M0") /\ Without("M1")
    /\ mhi = "READY" /\ err = "ready" => Faults

\* Which events are still to come, in each state: an M3 only while the host
\* enters or leaves M3, no M0 behind it on the way in, none after it on the way out.
RingInv ==
    /\ ring \in Seq({"M0", "M1", "M3", "SYS_ERR", "AMSS"})
    /\ want \in {"none", "M0", "M2", "M3", "RESET"}
    /\ pm \in {"POR", "M0", "M2"} => want # "M3" /\ Without("M3")
    /\ pm = "M3_ENTER" =>
        /\ want \in {"M3", "none"} /\ NoneAfter("M3", "M0")
        /\ want = "none" \/ ~Without("M3") => mhi \in {"M3", "SYS_ERR"}
    /\ pm = "M3" => want \in {"M3", "none"} /\ mhi \in {"M3", "SYS_ERR"} /\ Without("M0")
    /\ pm = "M3_EXIT" => want # "M3" /\ NoneAfter("M0", "M3")

PowerInv ==
    /\ pm \in Running \cup Stopped
    /\ BootInv /\ ListInv /\ BootedInv /\ ResetInv /\ RawInv /\ RingInv /\ WaitsMeanArrival

\* What taking the first event of the ring leaves of it.
LEMMA RingTail ==
    ASSUME NEW S, ring \in Seq(S), ring # <<>>, ring' = Tail(ring)
    PROVE  /\ ring' \in Seq(S) /\ (Faults => Faults' /\ Head(ring) = "SYS_ERR")
           /\ \A e : Without(e) => Without(e)' /\ Head(ring) # e
           /\ \A e, f : NoneAfter(e, f) => NoneAfter(e, f)' /\ (Head(ring) = e => Without(f)')
  <1>1. /\ Len(ring) \in Nat /\ Len(ring) > 0 /\ DOMAIN ring = 1..Len(ring) /\ Head(ring) = ring[1]
        /\ ring' \in Seq(S) /\ DOMAIN ring' = 1..(Len(ring) - 1)
        /\ \A k \in 1..(Len(ring) - 1) : ring'[k] = ring[k + 1]
    OBVIOUS
  <1>2. \A k \in DOMAIN ring' : k \in DOMAIN ring /\ k + 1 \in DOMAIN ring /\ ring'[k] = ring[k + 1] /\ 1 < k + 1
    BY <1>1
  <1>3. Faults => Faults' /\ Head(ring) = "SYS_ERR" BY <1>1, <1>2 DEF Faults
  <1>4. ASSUME NEW e, Without(e) PROVE Without(e)' /\ Head(ring) # e
    BY <1>1, <1>2, <1>4 DEF Without
  <1>5. ASSUME NEW e, NEW f, NoneAfter(e, f) PROVE NoneAfter(e, f)' /\ (Head(ring) = e => Without(f)')
    <2>1. ASSUME NEW j \in DOMAIN ring', NEW k \in DOMAIN ring', j < k, ring'[j] = e PROVE ring'[k] # f
      <3>1. j + 1 < k + 1 BY <1>1, <2>1
      <3> QED BY <1>2, <1>5, <2>1, <3>1, Zenon DEF NoneAfter
    <2>2. ASSUME Head(ring) = e, NEW k \in DOMAIN ring' PROVE ring'[k] # f
      BY <1>1, <1>2, <1>5, <2>2 DEF NoneAfter
    <2> QED BY <2>1, <2>2, Zenon DEF NoneAfter, Without
  <1> QED BY <1>1, <1>3, <1>4, <1>5, Zenon

\* What one more event adds.
LEMMA RingAppend ==
    ASSUME NEW S, ring \in Seq(S), NEW x \in S, ring' = Append(ring, x)
    PROVE  /\ ring' \in Seq(S) /\ (Faults /\ x = "SYS_ERR" => Faults')
           /\ \A e : Without(e) /\ x # e => Without(e)'
           /\ \A e, f : NoneAfter(e, f) /\ (x # f \/ Without(e)) => NoneAfter(e, f)'
           /\ \A e : ~Without(e)' => x = e \/ ~Without(e)
  <1>1. /\ Len(ring) \in Nat /\ DOMAIN ring = 1..Len(ring) /\ ring' \in Seq(S)
        /\ DOMAIN ring' = 1..(Len(ring) + 1) /\ ring'[Len(ring) + 1] = x
        /\ \A k \in 1..Len(ring) : ring'[k] = ring[k]
    OBVIOUS
  <1>2. \A k \in DOMAIN ring' : (k \in DOMAIN ring /\ ring'[k] = ring[k]) \/ (k = Len(ring) + 1 /\ ring'[k] = x)
    BY <1>1
  <1>3. Faults /\ x = "SYS_ERR" => Faults' BY <1>2, Zenon DEF Faults
  <1>4. ASSUME NEW e, Without(e), x # e PROVE Without(e)' BY <1>2, <1>4, Zenon DEF Without
  <1>5. ASSUME NEW e, NEW f, NoneAfter(e, f), x # f \/ Without(e) PROVE NoneAfter(e, f)'
    <2>1. ASSUME NEW j \in DOMAIN ring', NEW k \in DOMAIN ring', j < k, ring'[j] = e PROVE ring'[k] # f
      <3>1. j \in DOMAIN ring /\ ring[j] = e BY <1>1, <1>2, <2>1
      <3> QED BY <1>2, <1>5, <2>1, <3>1, Zenon DEF NoneAfter, Without
    <2> QED BY <2>1, Zenon DEF NoneAfter
  <1> QED BY <1>1, <1>3, <1>4, <1>5, Zenon

\* What a boot adds to the ring.
LEMMA RingBoots ==
    ASSUME NEW S, ring \in Seq(S), {"M0", "AMSS"} \subseteq S, ring' = ring \o <<"M0", "AMSS">>
    PROVE  ring' \in Seq(S) /\ (Without("M3") => Without("M3")')
  <1>1. /\ Len(ring) \in Nat /\ DOMAIN ring = 1..Len(ring) /\ ring' \in Seq(S)
        /\ DOMAIN ring' = 1..(Len(ring) + 2) /\ ring'[Len(ring) + 1] = "M0" /\ ring'[Len(ring) + 2] = "AMSS"
        /\ \A k \in 1..Len(ring) : ring'[k] = ring[k]
    OBVIOUS
  <1> QED BY <1>1 DEF Without

\* Steps that leave the link alone: what they may do to the workers' queue, to
\* the recovery and to the removal.
QueueStep ==
    \/ UNCHANGED <<poll, list, st>>
    \/ poll /\ ~poll' /\ (list' = list \/ list' = Append(list, "READY")) /\ st' = st
    \/ /\ st = "idle" /\ list # <<>> /\ list' = Tail(list) /\ poll' = poll
       /\ st' = IF Head(list) = "READY" THEN "ready" ELSE "mission"
    \/ /\ st # "idle" /\ st' # "ready" /\ UNCHANGED <<poll, list>>
       /\ st = "ready" => st' = "idle"
ErrStep ==
    \/ UNCHANGED <<err, errwork>>
    \/ errwork /\ ~errwork' /\ err = "idle" /\ err' = "entered"
    \/ UNCHANGED errwork /\ err' = "idle"
    \/ UNCHANGED errwork /\ err = "resetting" /\ want # "RESET" /\ err' = "killing"
    \/ UNCHANGED errwork /\ err = "killing" /\ err' = "destroying"
    \/ UNCHANGED errwork /\ err = "destroying" /\ err' = "flushing"
    \/ UNCHANGED <<errwork, poll, list, st>> /\ err = "flushing" /\ Flushed /\ err' = "again"
QuietStep ==
    /\ UNCHANGED <<pm, dev, mhi, want, ring, booted>>
    /\ QueueStep /\ ErrStep
    /\ (Unused' => Unused) /\ (down' = "shutdown" => down = "shutdown")

\* The list of transitions holds READY alone, and only once.
LEMMA QueueKept ==
    ASSUME ListInv, poll => list = <<>> /\ st = "idle", list = <<"READY">> => st = "idle",
           Starting => st \in {"idle", "ready"} /\ list \in {<<>>, <<"READY">>}, QueueStep
    PROVE  /\ ListInv' /\ (Starting' => Starting)
           /\ (Starting => st' \in {"idle", "ready"} /\ list' \in {<<>>, <<"READY">>}) \/ ~Starting'
           /\ (poll' => list' = <<>> /\ st' = "idle") /\ (list' = <<"READY">> => st' = "idle")
  <1>1. CASE UNCHANGED <<poll, list, st>> BY <1>1, Zenon DEF ListInv, Starting
  <1>2. CASE poll /\ ~poll' /\ (list' = list \/ list' = Append(list, "READY")) /\ st' = st
    <2>1. list = <<>> /\ st = "idle" BY <1>2, Zenon
    <2>2. list' = <<>> \/ list' = <<"READY">> BY <1>2, <2>1
    <2>3. ListInv'
      <3>1. CASE list' = <<>> BY <3>1 DEF ListInv
      <3>2. CASE list' = <<"READY">> BY <3>2 DEF ListInv
      <3> QED BY <2>2, <3>1, <3>2, Zenon
    <2> QED BY <1>2, <2>1, <2>2, <2>3, Zenon DEF Starting
  <1>3. CASE /\ st = "idle" /\ list # <<>> /\ list' = Tail(list) /\ poll' = poll
             /\ st' = IF Head(list) = "READY" THEN "ready" ELSE "mission"
    <2>1. ~poll BY <1>3, Zenon
    <2>2. CASE list = <<"READY">>
      <3>1. list' = <<>> /\ st' = "ready" BY <1>3, <2>2
      <3>2. ListInv' BY <3>1 DEF ListInv
      <3> QED BY <1>3, <2>1, <2>2, <3>1, <3>2, Zenon DEF Starting
    <2>3. CASE list # <<"READY">>
      <3>1. /\ \A i \in DOMAIN list : list[i] # "READY"
            /\ list \in Seq({"READY", "MISSION"}) BY <2>3, Zenon DEF ListInv
      <3>2. Head(list) # "READY" BY <1>3, <3>1
      <3>3. list' \in Seq({"READY", "MISSION"}) /\ \A i \in DOMAIN list' : list'[i] # "READY"
        BY <1>3, <3>1
      <3>4. list' # <<"READY">> BY <3>3
      <3> QED BY <1>3, <2>1, <3>2, <3>3, <3>4, Zenon DEF Starting, ListInv
    <2> QED BY <2>2, <2>3, Zenon
  <1>4. CASE /\ st # "idle" /\ st' # "ready" /\ UNCHANGED <<poll, list>>
             /\ st = "ready" => st' = "idle"
    BY <1>4, Zenon DEF ListInv, Starting
  <1> QED BY <1>1, <1>2, <1>3, <1>4, Zenon DEF QueueStep

\* A step that moves neither the state nor the ring keeps PowerInv.
LEMMA QuietKeeps == ASSUME RemovalInv, PowerInv, QuietStep PROVE PowerInv'
  <1>0. UNCHANGED <<pm, dev, mhi, want, ring, booted>> BY Zenon DEF QuietStep
  <1>1. pm' \in Running \cup Stopped /\ RingInv' /\ WaitsMeanArrival'
    BY <1>0 DEF PowerInv, RingInv, Without, NoneAfter, WaitsMeanArrival, EventAccessInvalid, InError
  <1>2. ResetInv'
    BY <1>0, Zenon DEF PowerInv, ResetInv, QuietStep, ErrStep
  <1>3. RawInv' BY <1>0, Zenon DEF PowerInv, RawInv, Without, Faults, QuietStep, ErrStep
  <1>4. BootedInv' BY <1>0 DEF PowerInv, BootedInv, QuietStep, ErrStep
  <1>5. /\ ListInv' /\ (Starting' => Starting)
        /\ (Starting => st' \in {"idle", "ready"} /\ list' \in {<<>>, <<"READY">>}) \/ ~Starting'
        /\ (poll' => list' = <<>> /\ st' = "idle") /\ (list' = <<"READY">> => st' = "idle")
    BY QueueKept, Zenon DEF PowerInv, BootInv, Starting, QuietStep
  <1>6. BootInv'
    <2> SUFFICES ASSUME Starting' \/ Unused' PROVE BootInv' BY Zenon DEF BootInv
    <2>1. Starting \/ Unused BY <1>5, Zenon DEF QuietStep
    <2>2. Faults' BY <1>0, <2>1, Zenon DEF PowerInv, BootInv, Faults
    <2>3. err' \notin {"again", "ready"}
      <3>1. ASSUME err' = "again" PROVE FALSE
        <4>1. Flushed /\ err = "flushing"
          BY <2>1, <3>1, Zenon DEF PowerInv, BootInv, QuietStep, ErrStep
        <4>2. booted BY <4>1, Zenon DEF PowerInv, BootedInv
        <4>3. ~Starting BY <4>1, <4>2, Zenon DEF Flushed, Starting
        <4> QED BY <2>1, <4>1, <4>3, Zenon DEF RemovalInv, UnusedInv, Unused
      <3> QED BY <2>1, <3>1, Zenon DEF PowerInv, BootInv, QuietStep, ErrStep
    <2>4. st' \in {"idle", "ready"} /\ list' \in {<<>>, <<"READY">>}
      <3>1. CASE Starting' BY <1>5, <3>1, Zenon
      <3>2. CASE ~Starting'
        <4>1. Unused BY <3>2, Zenon DEF QuietStep
        <4>2. st = "idle" /\ list = <<>> /\ ~poll BY <4>1, Zenon DEF RemovalInv, UnusedInv,
                                                     Unused
        <4> QED BY <4>2, Zenon DEF QuietStep, QueueStep
      <3> QED BY <3>1, <3>2, Zenon
    <2> QED BY <1>0, <1>5, <2>1, <2>2, <2>3, <2>4, Zenon DEF PowerInv, BootInv, QuietStep
  <1> QED BY <1>1, <1>2, <1>3, <1>4, <1>5, <1>6, Zenon DEF PowerInv

\* The steps of which that is true: the waits, the workers between their moves
\* of pm_state, and most of the removal.
LEMMA WaitsAreQuiet ==
    ASSUME \/ SuspendBegins \/ SuspendEnds \/ SuspendFails \/ ResumeEnds
           \/ TaskStarts \/ TaskEnds \/ StAdds \/ StNotReady \/ StSyncs
           \/ StChecks \/ StMission \/ StTakes \/ PollRuns \/ UNCHANGED vars
    PROVE  QuietStep
  <1>1. UNCHANGED <<pm, dev, mhi, want, ring, booted, err, errwork, powered, down>>
    BY Zenon DEF SuspendBegins, SuspendEnds, SuspendFails, ResumeEnds, TaskStarts,
       TaskEnds, StAdds, StNotReady, StSyncs, StChecks, StMission, StTakes,
       PollRuns, vars, machine, modem, workers, removal
  <1>2. CASE \/ SuspendBegins \/ SuspendEnds \/ SuspendFails \/ ResumeEnds
             \/ TaskStarts \/ TaskEnds \/ UNCHANGED vars
    <2>1. UNCHANGED <<poll, list, st>>
      BY <1>2, Zenon DEF SuspendBegins, SuspendEnds, SuspendFails, ResumeEnds,
         TaskStarts, TaskEnds, vars, workers
    <2> QED BY <1>1, <2>1, Zenon DEF QuietStep, QueueStep, ErrStep, Unused
  <1>3. CASE StAdds \/ StNotReady \/ StSyncs \/ StChecks \/ StMission
    <2>1. UNCHANGED <<poll, list>>
      BY <1>3, Zenon DEF StAdds, StNotReady, StSyncs, StChecks, StMission
    <2>2. st # "idle" /\ st' # "ready" /\ (st = "ready" => st' = "idle")
      BY <1>3, Zenon DEF StAdds, StNotReady, StSyncs, StChecks, StMission
    <2> QED BY <1>1, <2>1, <2>2, Zenon DEF QuietStep, QueueStep, ErrStep, Unused
  <1>4. CASE StTakes
    <2>1. /\ st = "idle" /\ list # <<>> /\ list' = Tail(list) /\ poll' = poll
          /\ st' = IF Head(list) = "READY" THEN "ready" ELSE "mission"
      BY <1>4, Zenon DEF StTakes
    <2> QED BY <1>1, <2>1, Zenon DEF QuietStep, QueueStep, ErrStep, Unused
  <1>5. CASE PollRuns
    <2>1. poll /\ ~poll' /\ (list' = list \/ list' = Append(list, "READY")) /\ st' = st
      BY <1>5, Zenon DEF PollRuns
    <2> QED BY <1>1, <2>1, Zenon DEF QuietStep, QueueStep, ErrStep, Unused
  <1> QED BY <1>2, <1>3, <1>4, <1>5, Zenon

\* The steps of recovery and removal that wait are of this kind.
LEMMA WorkersAreQuiet ==
    ASSUME \/ ErrStarts \/ ErrReset \/ ErrKills \/ ErrDestroys \/ ErrFlushes
           \/ ErrNotReady
           \/ RemoveBegins \/ DownKills \/ DownDestroys \/ DownFlushes \/ DownFrees
    PROVE  QuietStep
  <1>1. UNCHANGED <<pm, dev, mhi, want, ring, booted, poll, list, st>>
    BY Zenon DEF ErrStarts, ErrReset, ErrKills, ErrDestroys, ErrFlushes,
       ErrNotReady, RemoveBegins, DownKills, DownDestroys, DownFlushes, DownFrees,
       machine, modem, workers
  <1>2. ErrStep
    BY <1>1, Zenon DEF ErrStarts, ErrReset, ErrKills, ErrDestroys, ErrFlushes,
       ErrNotReady, RemoveBegins, DownKills, DownDestroys, DownFlushes, DownFrees,
       workers, ErrStep
  <1>3. (Unused' => Unused) /\ (down' = "shutdown" => down = "shutdown")
    BY DEF ErrStarts, ErrReset, ErrKills, ErrDestroys, ErrFlushes,
       ErrNotReady, RemoveBegins, DownKills, DownDestroys, DownFlushes, DownFrees,
       removal, Unused
  <1> QED BY <1>1, <1>2, <1>3, Zenon DEF QuietStep, QueueStep

\* Steps of the modem: they change MHISTATUS, the command and the ring only.
LinkStep == UNCHANGED <<pm, dev, poll, list, st, err, errwork, powered, down>>
LEMMA LinkFrame ==
    ASSUME PowerInv, LinkStep, RingInv', RawInv', BootedInv',
           want' = "RESET" => want = "RESET",
           Starting \/ Unused =>
              /\ Faults' /\ want' \in {"none", "RESET"} /\ mhi' \in Raw \cup {"SYS_ERR"}
              /\ Unused => want' = "none"
    PROVE  PowerInv'
  <1>1. pm' \in Running \cup Stopped /\ ListInv' /\ WaitsMeanArrival' /\ ResetInv'
    BY Zenon DEF LinkStep, PowerInv, ListInv, WaitsMeanArrival, EventAccessInvalid,
       InError, ResetInv
  <1>2. (Starting' = Starting) /\ (Unused' = Unused) BY Zenon DEF LinkStep, Starting, Unused
  <1>3. BootInv' BY <1>2, Zenon DEF LinkStep, PowerInv, BootInv
  <1> QED BY <1>1, <1>3, Zenon DEF PowerInv

\* What the modem puts into the ring fits its state and the host's.
LEMMA ModemKeeps ==
    ASSUME PowerInv,
           Modem \/ DeviceIdles \/ \E written \in BOOLEAN : DeviceFails(written)
    PROVE  PowerInv'
  <1> DEFINE S == {"M0", "M1", "M3", "SYS_ERR", "AMSS"}
  <1>0. LinkStep /\ ring \in Seq(S)
    <2>1. LinkStep
      BY Zenon DEF Modem, DeviceBoots, DeviceObeys, DeviceWakes, DeviceIdles,
         DeviceFails, machine, workers, removal, LinkStep
    <2> QED BY <2>1, Zenon DEF PowerInv, RingInv
  <1>1. /\ BootInv /\ BootedInv /\ ResetInv /\ RawInv /\ RingInv
        /\ UNCHANGED <<pm, poll, list, st, err, errwork, powered, down>>
    BY <1>0, Zenon DEF PowerInv, LinkStep
  <1>2. \A e : ring' = ring => Without(e)' = Without(e) BY Zenon DEF Without
  <1>3. \A e, f : ring' = ring => NoneAfter(e, f)' = NoneAfter(e, f) BY Zenon DEF NoneAfter
  <1>4. ring' = ring => Faults' = Faults BY Zenon DEF Faults
  <1> HIDE DEF S
  <1>5. CASE DeviceBoots
    <2>1. ~booted /\ booted' /\ mhi' = "READY" /\ UNCHANGED <<want, ring>>
      BY <1>5, Zenon DEF DeviceBoots
    <2>2. mhi = "RESET" /\ want = "none" /\ ring = <<>> /\ err = "idle" BY <1>1, <2>1, Zenon
                                                                           DEF BootedInv
    <2>3. RawInv' /\ BootedInv' BY <1>1, <1>2, <1>4, <2>1, <2>2, Zenon DEF RawInv, BootedInv,
                                   Raw
    <2>4. pm \notin {"M3_ENTER", "M3"} BY <1>1, <2>2, Zenon DEF RawInv, Raw, Awake, Up
    <2>5. RingInv' BY <1>1, <1>2, <1>3, <2>1, <2>4, Zenon DEF RingInv
    <2> QED BY <1>0, <1>1, <1>4, <2>1, <2>3, <2>5, LinkFrame, Zenon DEF BootInv, Raw
  <1>6. CASE DeviceObeys
    <2>0. /\ booted /\ want # "none" /\ want' = "none" /\ UNCHANGED booted
          /\ mhi' = IF want = "RESET" THEN "READY" ELSE want
          /\ ring' = CASE want = "M0" /\ mhi = "READY" -> ring \o <<"M0", "AMSS">>
                 [] want \in {"M0", "M3"} /\ mhi # "READY" -> Append(ring, want)
                 [] OTHER -> ring
      BY <1>6, Zenon DEF DeviceObeys
    <2>1. CASE want = "RESET"
      <3>1. mhi' = "READY" /\ ring' = ring BY <2>0, <2>1, Zenon
      <3>2. pm \notin Awake /\ err # "ready" BY <1>1, <2>1, Zenon DEF ResetInv
      <3>3. RawInv' /\ BootedInv' BY <1>1, <2>0, <3>1, <3>2, Zenon DEF RawInv, BootedInv
      <3>4. RingInv' BY <1>1, <2>0, <3>1, <3>2, Zenon DEF RingInv, Awake, Up
      <3> QED BY <1>0, <1>1, <1>4, <2>0, <3>1, <3>3, <3>4, LinkFrame, Zenon DEF BootInv, Raw
    <2>2. CASE want # "RESET"
      <3>1. ~Starting /\ ~Unused /\ mhi' = want BY <1>1, <2>0, <2>2, Zenon DEF BootInv
      <3>2. mhi' \notin Raw BY <1>1, <2>2, <3>1, Zenon DEF RingInv, Raw
      <3>3. RawInv' /\ BootedInv' BY <2>0, <3>2, Zenon DEF RawInv, BootedInv, Raw
      <3>4. RingInv'
        <4>1. CASE want = "M0" /\ mhi = "READY"
          <5>1. ring' = ring \o <<"M0", "AMSS">> BY <2>0, <4>1, Zenon
          <5>2. ring' \in Seq(S) /\ (Without("M3") => Without("M3")') BY <1>0, <5>1, RingBoots,
                                                                         Zenon
                                                                         DEF S
          <5>3. pm \in Awake => pm = "POR" BY <1>1, <4>1, Zenon DEF RawInv, Raw
          <5> QED BY <1>1, <2>0, <5>2, <5>3, Zenon DEF RingInv, Awake, Up, S
        <4>2. CASE want = "M0" /\ mhi # "READY"
          <5>1. ring' = Append(ring, "M0") BY <2>0, <4>2, Zenon
          <5>2. /\ ring' \in Seq(S) /\ (Without("M3") => Without("M3")')
                /\ NoneAfter("M0", "M3") => NoneAfter("M0", "M3")'
            BY <1>0, <5>1, RingAppend DEF S
          <5> QED BY <1>1, <2>0, <4>2, <5>2, Zenon DEF RingInv, S
        <4>3. CASE want = "M3"
          <5>0. mhi # "READY" BY <1>1, <4>3, Zenon DEF RawInv, Raw
          <5>1. ring' = Append(ring, "M3") BY <2>0, <4>3, <5>0, Zenon
          <5>2. /\ ring' \in Seq(S) /\ (Without("M0") => Without("M0")')
                /\ NoneAfter("M3", "M0") => NoneAfter("M3", "M0")'
            BY <1>0, <5>1, RingAppend DEF S
          <5> QED BY <1>1, <2>0, <3>1, <4>3, <5>2, Zenon DEF RingInv, S
        <4>4. CASE want = "M2"
          <5>1. ring' = ring BY <2>0, <4>4, Zenon
          <5> QED BY <1>1, <1>2, <1>3, <2>0, <4>4, <5>1, Zenon DEF RingInv
        <4> QED BY <1>1, <2>0, <2>2, <4>1, <4>2, <4>3, <4>4, Zenon DEF RingInv
      <3> QED BY <1>0, <2>0, <3>1, <3>3, <3>4, LinkFrame, Zenon
    <2> QED BY <2>1, <2>2, Zenon
  <1>7. CASE DeviceIdles
    <2>1. /\ mhi = "M0" /\ want = "none" /\ ring = <<>> /\ mhi' = "M1" /\ ring' = <<"M1">>
          /\ UNCHANGED <<want, booted>>
      BY <1>7, Zenon DEF DeviceIdles
    <2>2. ring' = Append(ring, "M1") BY <2>1
    <2>3. /\ ring' \in Seq(S) /\ (Without("M3") => Without("M3")')
          /\ NoneAfter("M0", "M3") => NoneAfter("M0", "M3")'
      BY <1>0, <2>2, RingAppend DEF S
    <2>4. ~Starting /\ ~Unused BY <1>1, <2>1, Zenon DEF BootInv, Raw
    <2>5. RawInv' /\ BootedInv' BY <1>1, <2>1, Zenon DEF RawInv, BootedInv, Raw
    <2>6. RingInv' BY <1>1, <2>1, <2>3, Zenon DEF RingInv, S
    <2> QED BY <1>0, <2>1, <2>4, <2>5, <2>6, LinkFrame, Zenon
  <1>8. CASE DeviceWakes
    <2>1. /\ want = "none" /\ UNCHANGED <<want, booted>>
          /\ IF mhi = "M2" THEN mhi' = "M0" /\ ring' = Append(ring, "M0") ELSE UNCHANGED <<mhi, ring>>
      BY <1>8, Zenon DEF DeviceWakes
    <2>2. CASE mhi = "M2"
      <3>1. /\ ring' \in Seq(S) /\ (Without("M3") => Without("M3")')
            /\ NoneAfter("M0", "M3") => NoneAfter("M0", "M3")'
        BY <1>0, <2>1, <2>2, RingAppend DEF S
      <3>2. ~Starting /\ ~Unused BY <1>1, <2>2, Zenon DEF BootInv, Raw
      <3>3. RawInv' /\ BootedInv' BY <1>1, <2>1, <2>2, Zenon DEF RawInv, BootedInv, Raw
      <3>4. RingInv' BY <1>1, <2>1, <2>2, <3>1, Zenon DEF RingInv, S
      <3> QED BY <1>0, <2>1, <3>2, <3>3, <3>4, LinkFrame, Zenon
    <2>3. CASE mhi # "M2"
      <3>1. UNCHANGED <<mhi, want, ring, booted>> BY <2>1, <2>3, Zenon
      <3>2. RawInv' /\ BootedInv' BY <1>1, <1>2, <1>4, <3>1, Zenon DEF RawInv, BootedInv
      <3>3. RingInv' BY <1>1, <1>2, <1>3, <3>1, Zenon DEF RingInv
      <3> QED BY <1>0, <1>1, <1>4, <3>1, <3>2, <3>3, LinkFrame, Zenon DEF BootInv
    <2> QED BY <2>2, <2>3, Zenon
  <1>9. ASSUME NEW written \in BOOLEAN, DeviceFails(written) PROVE PowerInv'
    <2>1. /\ booted /\ booted' /\ mhi' = "SYS_ERR" /\ want' = "none"
          /\ ring' = IF written THEN Append(ring, "SYS_ERR") ELSE ring
      BY <1>9, Zenon DEF DeviceFails
    <2>2. /\ ring' \in Seq(S) /\ (Faults => Faults')
          /\ (Without("M3") => Without("M3")') /\ (Without("M0") => Without("M0")')
          /\ NoneAfter("M0", "M3") => NoneAfter("M0", "M3")'
          /\ NoneAfter("M3", "M0") => NoneAfter("M3", "M0")'
      <3>1. CASE written
        <4>1. ring' = Append(ring, "SYS_ERR") /\ "SYS_ERR" \in S BY <2>1, <3>1, Zenon DEF S
        <4> QED BY <1>0, <4>1, RingAppend, Zenon
      <3>2. CASE ~written BY <1>0, <1>2, <1>3, <1>4, <2>1, <3>2
      <3> QED BY <3>1, <3>2, Zenon
    <2>3. RawInv' /\ BootedInv' BY <2>1, Zenon DEF RawInv, BootedInv, Raw
    <2>4. RingInv' BY <1>1, <2>1, <2>2, Zenon DEF RingInv, S
    <2> QED BY <1>0, <1>1, <2>1, <2>2, <2>3, <2>4, LinkFrame, Zenon DEF BootInv
  <1> QED BY <1>5, <1>6, <1>7, <1>8, <1>9, Zenon DEF Modem

\* Into, or inside, the states in which no event is taken.
LEMMA FailedKeeps ==
    ASSUME PowerInv, pm' \in Running \cup Stopped, pm' \notin Awake,
           UNCHANGED <<mhi, want, booted, poll, list, st, err>>,
           Unused' => Unused, down' = "shutdown" => pm' = "LD_ERR_FATAL_DETECT",
           ring' \in Seq({"M0", "M1", "M3", "SYS_ERR", "AMSS"}), Faults => Faults',
           ~booted => ring' = <<>> /\ ~errwork'
    PROVE  PowerInv'
  <1>0. BootInv /\ ListInv /\ BootedInv /\ ResetInv /\ RawInv /\ RingInv BY Zenon DEF PowerInv
  <1>1. ListInv' /\ BootedInv' BY <1>0, Zenon DEF ListInv, BootedInv
  <1>2. ResetInv' BY <1>0, Zenon DEF ResetInv
  <1>3. RawInv' BY <1>0, Zenon DEF RawInv
  <1>4. RingInv' BY <1>0, Zenon DEF RingInv, Awake, Up
  <1>5. BootInv' BY <1>0, Zenon DEF BootInv, Starting, Awake
  <1>6. WaitsMeanArrival'
    <2>1. EventAccessInvalid(pm')
      BY Zenon DEF Running, Stopped, Awake, Up, L0, Failing, Ending,
         EventAccessInvalid, InError
    <2> QED BY <2>1, Zenon DEF WaitsMeanArrival, EventAccessInvalid, InError
  <1> QED BY <1>1, <1>2, <1>3, <1>4, <1>5, <1>6, Zenon DEF PowerInv

\* Between the states in which events are taken.
LEMMA MoveKeeps ==
    ASSUME PowerInv, pm \in Awake, pm' \in Awake, ~Starting, ~Unused,
           UNCHANGED <<mhi, booted, poll, list, st, err, errwork, powered, down>>,
           booted, want' # "RESET", RawInv', RingInv', WaitsMeanArrival'
    PROVE  PowerInv'
  <1>1. ListInv' /\ BootedInv' BY Zenon DEF PowerInv, ListInv, BootedInv
  <1>2. pm # "LD_ERR_FATAL_DETECT" /\ pm' \in Running \cup Stopped
    BY Zenon DEF Awake, Up, Running, L0
  <1>3. ResetInv' BY <1>2, Zenon DEF PowerInv, ResetInv
  <1>4. BootInv' BY Zenon DEF BootInv, Starting, Unused
  <1> QED BY <1>1, <1>2, <1>3, <1>4, Zenon DEF PowerInv

\* The rows of the table for the events and the orders of a sleep.
LEMMA SleepRows ==
    /\ pm \in Awake => Try("SYS_ERR_DETECT") = "SYS_ERR_DETECT"
    /\ pm \in {"POR", "M0", "M2", "M3_EXIT"} => Try("M0") = "M0"
    /\ pm \in {"M3_ENTER", "M3"} => Try("M0") = pm
    /\ pm \in {"M0", "M2"} => Try("M2") = "M2"
    /\ pm \in {"POR", "M3_ENTER", "M3", "M3_EXIT"} => Try("M2") = pm
    /\ pm \in {"M3_ENTER", "M3"} => Try("M3") = "M3"
    /\ pm = "M3_EXIT" => Try("M3") = pm
    /\ pm \in Awake /\ pm \notin {"M0", "M3_ENTER"} => Try("M3_ENTER") # "M3_ENTER"
    /\ pm \in Awake /\ pm \notin {"M3", "M3_EXIT"} => Try("M3_EXIT") # "M3_EXIT"
  BY Zenon DEF Awake, Up, Try, Allowed, Ending

\* A host that does not take events moves only on to its end.
LEMMA FailedRows ==
    ASSUME pm \in Running \cup Stopped, pm \notin Awake
    PROVE  /\ \A s \in Up : Try(s) = pm
           /\ Try("SYS_ERR_DETECT") = pm
  <1>1. pm \in {"DISABLE", "SYS_ERR_DETECT", "SYS_ERR_PROCESS", "SHUTDOWN_PROCESS", "LD_ERR_FATAL_DETECT"}
    BY Zenon DEF Running, Stopped, Awake, Up, L0, Failing, Ending
  <1>2. Allowed(pm) \cap (Up \cup {"SYS_ERR_DETECT"}) = {}
    BY <1>1, Zenon DEF Allowed, Ending, Up
  <1> QED BY <1>2, Zenon DEF Try

\* A modem that the host has seen in M0 has been given its command.
LEMMA UpIsBooted ==
    ASSUME PowerInv, pm \in Up
    PROVE  booted /\ mhi \notin Raw /\ ~Starting /\ ~Unused /\ pm \in Awake /\ want # "RESET"
  <1>1. pm \in Awake /\ pm # "POR" BY Zenon DEF Awake, Up
  <1>2. mhi \notin Raw BY <1>1, Zenon DEF PowerInv, RawInv
  <1>3. booted BY <1>2, Zenon DEF PowerInv, BootedInv, Raw
  <1> QED BY <1>1, <1>2, <1>3, Zenon DEF PowerInv, BootInv, ResetInv

\* The fault is found.
LEMMA FaultKeeps == ASSUME RemovalInv, PowerInv, Interrupt \/ ResumeFails PROVE PowerInv'
  <1>1. /\ ChecksState
        /\ UNCHANGED <<dev, mhi, want, ring, booted, poll, list, st, err, powered, down>>
    BY Zenon DEF Interrupt, ResumeFails, modem, removal
  <1>2. CASE UNCHANGED <<pm, errwork>>
    <2>1. QuietStep BY <1>1, <1>2, Zenon DEF QuietStep, QueueStep, ErrStep, Unused
    <2> QED BY <2>1, QuietKeeps, Zenon
  <1>3. CASE pm' = "SYS_ERR_DETECT" /\ mhi = "SYS_ERR" /\ Try("SYS_ERR_DETECT") = "SYS_ERR_DETECT" /\ pm # "SYS_ERR_DETECT"
    <2>1. pm' \in Running /\ pm' \notin Awake BY <1>3, Zenon DEF Running, Awake, Up,
                                                 Failing
    <2>2. booted /\ ring \in Seq({"M0", "M1", "M3", "SYS_ERR", "AMSS"})
      BY <1>3, Zenon DEF PowerInv, BootedInv, RingInv
    <2>3. down # "shutdown"
      <3>1. Try("SYS_ERR_DETECT") # "LD_ERR_FATAL_DETECT" BY <1>3, Zenon
      <3> QED BY <1>3, <3>1, TableRows, Zenon DEF PowerInv, ResetInv, Try, Ending
    <2>4. Faults => Faults' BY <1>1, Zenon DEF Faults
    <2> QED BY <1>1, <2>1, <2>2, <2>3, <2>4, FailedKeeps, Zenon DEF Unused
  <1> QED BY <1>1, <1>2, <1>3, Zenon DEF ChecksState

\* The tasklet takes one event.
LEMMA TaskHandleKeeps == ASSUME PowerInv, TaskHandles PROVE PowerInv'
  <1> DEFINE S == {"M0", "M1", "M3", "SYS_ERR", "AMSS"}
  <1>0. /\ ring # <<>> /\ ring' = Tail(ring)
        /\ UNCHANGED <<mhi, booted, poll, st, err, powered, down>>
    BY Zenon DEF TaskHandles, removal
  <1>1. /\ BootInv /\ ListInv /\ BootedInv /\ ResetInv /\ RawInv /\ RingInv /\ WaitsMeanArrival
        /\ pm \in Running \cup Stopped /\ ring \in Seq(S)
    BY Zenon DEF PowerInv, RingInv
  <1>2. booted BY <1>0, <1>1, Zenon DEF BootedInv
  <1>3. /\ ring' \in Seq(S) /\ (Faults => Faults' /\ Head(ring) = "SYS_ERR")
        /\ \A e : Without(e) => Without(e)' /\ Head(ring) # e
        /\ \A e, f : NoneAfter(e, f) => NoneAfter(e, f)' /\ (Head(ring) = e => Without(f)')
    BY <1>0, <1>1, RingTail, Zenon
  <1>4. Head(ring) # "SYS_ERR" => ~Starting /\ ~Unused BY <1>1, <1>3, Zenon DEF BootInv
  <1>5. pm' = pm => RingInv' \/ want' # want
    <2> SUFFICES ASSUME pm' = pm, want' = want PROVE RingInv' BY Zenon
    <2> QED BY <1>0, <1>1, <1>3, Zenon DEF RingInv
  <1>6. pm' = pm /\ want' = want => RawInv' BY <1>0, <1>1, <1>3, Zenon DEF RawInv
  <1> HIDE DEF S
  <1>7. CASE Head(ring) = "AMSS" /\ list' = Append(list, "MISSION") /\ UNCHANGED <<pm, dev, want, errwork>>
    <2>1. ~Starting /\ ~Unused BY <1>4, <1>7, Zenon
    <2>2. RingInv' /\ RawInv' BY <1>5, <1>6, <1>7, Zenon
    <2>3. list \in Seq({"READY", "MISSION"}) /\ \A i \in DOMAIN list : list[i] # "READY"
      BY <1>1, <2>1, Zenon DEF ListInv, Starting
    <2>4. list' \in Seq({"READY", "MISSION"}) /\ \A i \in DOMAIN list' : list'[i] # "READY"
      BY <1>7, <2>3
    <2>5. list' # <<"READY">> BY <2>4
    <2>6. ListInv' /\ ~Starting' /\ ~Unused' BY <1>0, <2>1, <2>4, <2>5, Zenon DEF ListInv,
                                                Starting,
                                                Unused
    <2>7. BootInv' /\ BootedInv' /\ ResetInv'
      BY <1>0, <1>1, <1>2, <1>7, <2>6, Zenon DEF BootInv, BootedInv, ResetInv
    <2>8. WaitsMeanArrival'
      BY <1>1, <1>7, Zenon DEF WaitsMeanArrival, EventAccessInvalid, InError
    <2> QED BY <1>1, <1>7, <2>2, <2>6, <2>7, <2>8, Zenon DEF PowerInv
  <1>8. CASE Head(ring) = "SYS_ERR" /\ pm' = Try("SYS_ERR_DETECT") /\ UNCHANGED <<dev, want, list>>
    <2>1. pm' \in Running \cup Stopped /\ pm' \notin Awake
      <3>1. CASE pm \in Awake
        BY <1>8, <3>1, SleepRows, Zenon DEF Awake, Up, Running, Failing
      <3>2. CASE pm \notin Awake BY <1>1, <1>8, <3>2, FailedRows, Zenon
      <3> QED BY <3>1, <3>2, Zenon
    <2>2. down' = "shutdown" => pm' = "LD_ERR_FATAL_DETECT"
      <3>1. down = "shutdown" => pm = "LD_ERR_FATAL_DETECT" BY <1>1, Zenon DEF ResetInv
      <3>2. "LD_ERR_FATAL_DETECT" \notin Awake BY Zenon DEF Awake, Up
      <3> QED BY <1>0, <1>1, <1>8, <3>1, <3>2, FailedRows, Zenon
    <2> QED BY <1>0, <1>1, <1>2, <1>3, <1>8, <2>1, <2>2, FailedKeeps, Zenon DEF Unused, S
  <1>9. ASSUME pm \notin Awake, NEW s \in {"M0", "M2", "M3"}, pm' = Try(s),
               UNCHANGED <<errwork, list>>, pm' # "M2" => want' = want
        PROVE  PowerInv'
    <2>1. pm' = pm BY <1>1, <1>9, FailedRows, Zenon DEF Up
    <2>2. want' = want BY <1>9, <2>1, Zenon DEF Awake, Up
    <2>3. down' = "shutdown" => pm' = "LD_ERR_FATAL_DETECT" BY <1>0, <1>1, <2>1, Zenon
                                                               DEF ResetInv
    <2> QED BY <1>0, <1>1, <1>2, <1>3, <1>9, <2>1, <2>2, <2>3, FailedKeeps, Zenon DEF Unused, S
  <1>10. CASE Head(ring) = "M0" /\ mhi_pm_m0_transition /\ UNCHANGED <<errwork, list>>
    <2>0. dev' = "M0" /\ pm' = Try("M0") /\ want' = want
      BY <1>10, Zenon DEF mhi_pm_m0_transition
    <2>1. CASE pm \notin Awake BY <1>9, <1>10, <2>0, <2>1, Zenon
    <2>2. CASE pm \in Awake
      <3>1. ~Starting /\ ~Unused BY <1>4, <1>10, Zenon
      <3>2. pm # "M3" BY <1>1, <1>3, <1>10, Zenon DEF RingInv
      <3>3. pm' = IF pm = "M3_ENTER" THEN pm ELSE "M0"
        BY <2>0, <2>2, <3>2, SleepRows, Zenon DEF Awake, Up
      <3>4. mhi \notin Raw BY <1>1, <1>3, <1>10, <2>2, Zenon DEF RawInv
      <3>5. RawInv' BY <1>0, <3>4, Zenon DEF RawInv, Raw
      <3>6. RingInv'
        <4>1. CASE pm = "M3_ENTER" BY <1>5, <2>0, <3>3, <4>1, Zenon
        <4>2. CASE pm = "M3_EXIT" BY <1>0, <1>1, <1>3, <1>10, <2>0, <3>3, <4>2, Zenon
                                     DEF RingInv, S
        <4>3. CASE pm \in {"POR", "M0", "M2"} BY <1>0, <1>1, <1>3, <2>0, <3>3, <4>3, Zenon
                                                 DEF RingInv,
                                                 S
        <4> QED BY <2>2, <3>2, <4>1, <4>2, <4>3, Zenon DEF Awake, Up
      <3>7. WaitsMeanArrival' BY <2>0, <3>3, Zenon DEF WaitsMeanArrival
      <3>8. pm' \in Awake /\ want' # "RESET" BY <1>1, <2>0, <2>2, <3>3, Zenon DEF ResetInv,
                                                Awake,
                                                Up
      <3> QED BY <1>0, <1>2, <1>10, <2>2, <3>1, <3>5, <3>6, <3>7, <3>8, MoveKeeps, Zenon
    <2> QED BY <2>1, <2>2, Zenon
  <1>11. CASE Head(ring) = "M1" /\ mhi_pm_m1_transition /\ UNCHANGED <<errwork, list>>
    <2>0. /\ pm' = Try("M2")
          /\ IF pm' = "M2" THEN dev' = "M2" /\ want' = "M2" ELSE UNCHANGED <<dev, want>>
      BY <1>11, Zenon DEF mhi_pm_m1_transition
    <2>1. CASE pm \notin Awake BY <1>9, <1>11, <2>0, <2>1, Zenon
    <2>2. CASE pm \in Awake
      <3>1. ~Starting /\ ~Unused BY <1>4, <1>11, Zenon
      <3>2. mhi \notin Raw BY <1>1, <1>3, <1>11, <2>2, Zenon DEF RawInv
      <3>3. RawInv' BY <1>0, <3>2, Zenon DEF RawInv, Raw
      <3>4. pm' = IF pm \in {"M0", "M2"} THEN "M2" ELSE pm
        BY <2>0, <2>2, SleepRows, Zenon DEF Awake, Up
      <3>5. pm' \in Awake /\ want' # "RESET"
        BY <1>1, <2>0, <2>2, <3>4, Zenon DEF ResetInv, Awake, Up
      <3>6. CASE pm \in {"M0", "M2"}
        <4>1. pm' = "M2" /\ dev' = "M2" /\ want' = "M2" BY <2>0, <3>4, <3>6, Zenon
        <4>2. RingInv' BY <1>1, <1>3, <3>6, <4>1, Zenon DEF RingInv, S
        <4>3. WaitsMeanArrival' BY <4>1, Zenon DEF WaitsMeanArrival
        <4> QED BY <1>0, <1>2, <1>11, <2>2, <3>1, <3>3, <3>5, <4>2, <4>3, MoveKeeps, Zenon
      <3>7. CASE pm \notin {"M0", "M2"}
        <4>1. pm' = pm /\ UNCHANGED <<dev, want>> BY <2>0, <3>4, <3>7, Zenon
        <4>2. RingInv' BY <1>5, <4>1, Zenon
        <4>3. WaitsMeanArrival'
          BY <1>1, <4>1, Zenon DEF WaitsMeanArrival, EventAccessInvalid, InError
        <4> QED BY <1>0, <1>2, <1>11, <2>2, <3>1, <3>3, <3>5, <4>2, <4>3, MoveKeeps, Zenon
      <3> QED BY <3>6, <3>7, Zenon
    <2> QED BY <2>1, <2>2, Zenon
  <1>12. CASE Head(ring) = "M3" /\ mhi_pm_m3_transition /\ UNCHANGED <<errwork, list>>
    <2>0. dev' = "M3" /\ pm' = Try("M3") /\ want' = want
      BY <1>12, Zenon DEF mhi_pm_m3_transition
    <2>1. CASE pm \notin Awake BY <1>9, <1>12, <2>0, <2>1, Zenon
    <2>2. CASE pm \in Awake
      <3>1. ~Starting /\ ~Unused BY <1>4, <1>12, Zenon
      <3>2. pm \in {"M3_ENTER", "M3", "M3_EXIT"}
        BY <1>1, <1>3, <1>12, <2>2, Zenon DEF RingInv, Awake, Up
      <3>3. pm' = IF pm = "M3_EXIT" THEN pm ELSE "M3" BY <2>0, <3>2, SleepRows, Zenon
      <3>4. mhi \notin Raw BY <1>1, <2>2, <3>2, Zenon DEF RawInv
      <3>5. RawInv' BY <1>0, <3>4, Zenon DEF RawInv, Raw
      <3>6. RingInv'
        <4>1. CASE pm = "M3_ENTER"
          BY <1>0, <1>1, <1>3, <1>12, <2>0, <3>3, <4>1, Zenon DEF RingInv, S
        <4>2. CASE pm # "M3_ENTER" BY <1>5, <2>0, <3>2, <3>3, <4>2, Zenon
        <4> QED BY <4>1, <4>2, Zenon
      <3>7. WaitsMeanArrival' BY <2>0, <3>2, <3>3, Zenon DEF WaitsMeanArrival
      <3>8. pm' \in Awake /\ want' # "RESET" BY <1>1, <2>0, <2>2, <3>2, <3>3, Zenon
                                                DEF ResetInv,
                                                Awake,
                                                Up
      <3> QED BY <1>0, <1>2, <1>12, <2>2, <3>1, <3>5, <3>6, <3>7, <3>8, MoveKeeps, Zenon
    <2> QED BY <2>1, <2>2, Zenon
  <1> QED BY <1>7, <1>8, <1>10, <1>11, <1>12, Zenon DEF TaskHandles

\* The orders of the PM core's callbacks.
LEMMA OrdersKeep ==
    ASSUME RemovalInv, PowerInv, SuspendRequests \/ ResumeBegins PROVE PowerInv'
  <1>0. UNCHANGED <<dev, mhi, ring, booted, poll, list, st, err, errwork, powered, down>>
    BY Zenon DEF SuspendRequests, ResumeBegins, workers, removal
  <1>1. UNCHANGED <<pm, want>> => PowerInv'
    <2>1. UNCHANGED <<pm, want>> => QuietStep
      BY <1>0, Zenon DEF QuietStep, QueueStep, ErrStep, Unused
    <2> QED BY <2>1, QuietKeeps, Zenon
  <1>2. /\ RawInv /\ RingInv /\ WaitsMeanArrival /\ pm \in Running \cup Stopped
        /\ \A e : Without(e)' = Without(e)
        /\ \A e, f : NoneAfter(e, f)' = NoneAfter(e, f)
        /\ \A e, f : Without(e) => NoneAfter(e, f)
    BY <1>0, Zenon DEF PowerInv, Without, NoneAfter
  <1>3. CASE SuspendRequests
    <2>1. /\ dev = "M0" /\ pm' = Try("M3_ENTER")
          /\ IF pm' = "M3_ENTER" THEN want' = "M3" ELSE want' = want
      BY <1>3, Zenon DEF SuspendRequests
    <2>2. CASE pm' # "M3_ENTER"
      <3>1. pm' = pm BY <2>1, <2>2, Zenon DEF Try
      <3> QED BY <1>1, <2>1, <2>2, <3>1, Zenon
    <2>3. CASE pm' = "M3_ENTER"
      <3>1. pm \in {"M0", "M3_ENTER"}
        <4>1. pm \in Awake BY <1>2, <2>1, <2>3, FailedRows, Zenon DEF Up, Awake
        <4> QED BY <2>1, <2>3, <4>1, SleepRows, Zenon
      <3>2. pm \in Up /\ pm' \in Awake BY <2>3, <3>1, Zenon DEF Up, Awake
      <3>3. booted /\ mhi \notin Raw /\ ~Starting /\ ~Unused /\ pm \in Awake BY <3>2,
                                                                                UpIsBooted,
                                                                                Zenon
      <3>4. RawInv' BY <1>0, <3>3, Zenon DEF RawInv, Raw
      <3>5. RingInv' BY <1>0, <1>2, <2>1, <2>3, <3>1, Zenon DEF RingInv
      <3>6. WaitsMeanArrival' BY <1>0, <2>1, <2>3, Zenon DEF WaitsMeanArrival
      <3> QED BY <1>0, <2>1, <2>3, <3>2, <3>3, <3>4, <3>5, <3>6, MoveKeeps, Zenon
    <2> QED BY <2>2, <2>3, Zenon
  <1>4. CASE ResumeBegins
    <2>1. \/ UNCHANGED <<pm, want>>
          \/ Try("M3_EXIT") = "M3_EXIT" /\ pm' = "M3_EXIT" /\ want' = "M0"
      BY <1>4, Zenon DEF ResumeBegins
    <2>2. CASE Try("M3_EXIT") = "M3_EXIT" /\ pm' = "M3_EXIT" /\ want' = "M0"
      <3>1. pm \in {"M3", "M3_EXIT"}
        <4>1. pm \in Awake BY <1>2, <2>2, FailedRows, Zenon DEF Up, Awake
        <4> QED BY <2>2, <4>1, SleepRows, Zenon
      <3>2. pm \in Up /\ pm' \in Awake BY <2>2, <3>1, Zenon DEF Up, Awake
      <3>3. booted /\ mhi \notin Raw /\ ~Starting /\ ~Unused /\ pm \in Awake BY <3>2,
                                                                                UpIsBooted,
                                                                                Zenon
      <3>4. RawInv' BY <1>0, <3>3, Zenon DEF RawInv, Raw
      <3>5. RingInv' BY <1>0, <1>2, <2>2, <3>1, Zenon DEF RingInv
      <3>6. WaitsMeanArrival'
        <4>1. dev # "M0"
          BY <1>2, <3>1, Zenon DEF WaitsMeanArrival, EventAccessInvalid, InError,
             Failing, Ending
        <4> QED BY <1>0, <2>2, <4>1, Zenon DEF WaitsMeanArrival
      <3> QED BY <1>0, <2>2, <3>2, <3>3, <3>4, <3>5, <3>6, MoveKeeps, Zenon
    <2> QED BY <1>1, <2>1, <2>2, Zenon
  <1> QED BY <1>3, <1>4, Zenon

\* The ready transition, of st_worker at the boot and of the recovery.
LEMMA ReadyKeeps == ASSUME RemovalInv, PowerInv, StReady \/ ErrReady PROVE PowerInv'
  <1>0. /\ mhi = "READY" /\ want # "RESET" /\ pm # "LD_ERR_FATAL_DETECT"
        /\ pm' = Try("POR") /\ dev' = "READY"
        /\ want' = want \/ (pm' = "POR" /\ want' = "M0")
        /\ UNCHANGED <<mhi, ring, booted, poll, list, errwork, powered, down>>
    BY Zenon DEF StReady, ErrReady, BecomesReady
  <1>1. \/ st = "ready" /\ st' = "idle" /\ err' = err
        \/ err = "ready" /\ err' = "idle" /\ st' = st
    BY Zenon DEF StReady, ErrReady
  <1>2. /\ BootInv /\ ListInv /\ BootedInv /\ ResetInv /\ RawInv /\ RingInv
        /\ pm \in Running \cup Stopped
    BY Zenon DEF PowerInv
  <1>3. Faults /\ booted BY <1>0, <1>1, <1>2, Zenon DEF BootInv, Starting, RawInv, BootedInv
  <1>4. ~Starting' /\ ~Unused'
    <2>1. ~Unused BY <1>1, <1>2, Zenon DEF BootInv, RemovalInv, UnusedInv, Unused
    <2>2. CASE st = "ready" /\ st' = "idle" BY <1>0, <1>2, <2>1, <2>2, Zenon DEF BootInv,
                                               Starting,
                                               Unused
    <2>3. CASE err = "ready" /\ st' = st BY <1>0, <1>2, <2>1, <2>3, Zenon DEF BootInv, Starting,
                                            Unused
    <2> QED BY <1>1, <2>2, <2>3, Zenon
  <1>5. BootInv' /\ ListInv' /\ BootedInv' BY <1>0, <1>2, <1>3, <1>4, Zenon DEF BootInv,
                                              ListInv,
                                              BootedInv
  <1>6. down # "shutdown" /\ want' # "RESET" BY <1>0, <1>2, Zenon DEF ResetInv
  <1>7. ResetInv' BY <1>0, <1>6, Zenon DEF ResetInv
  <1>8. Faults' /\ \A e \in {"M0", "M1", "M3"} : Without(e) /\ Without(e)'
    BY <1>0, <1>3, Zenon DEF Faults, Without
  <1>9. pm' = "POR" \/ (pm' = pm /\ pm \notin Awake)
    <2>1. pm = "POR" \/ pm \notin Awake BY <1>0, <1>2, Zenon DEF RawInv, Raw
    <2> QED BY <1>0, <2>1, Zenon DEF Try
  <1>10. RawInv' BY <1>0, <1>2, <1>6, <1>8, <1>9, Zenon DEF RawInv, Raw
  <1>11. RingInv'
    <2>1. want' # "M3" /\ want' \in {"none", "M0", "M2", "M3", "RESET"} BY <1>0, <1>2, Zenon
                                                                           DEF RawInv,
                                                                           Raw,
                                                                           RingInv
    <2> QED BY <1>0, <1>2, <1>8, <1>9, <2>1, Zenon DEF RingInv, Awake, Up
  <1>12. WaitsMeanArrival' BY <1>0, Zenon DEF WaitsMeanArrival
  <1>13. pm' \in Running \cup Stopped BY <1>2, <1>9, Zenon DEF Running, L0
  <1> QED BY <1>5, <1>7, <1>10, <1>11, <1>12, <1>13, Zenon DEF PowerInv

\* The ring is emptied, by the recovery and by the removal.
LEMMA EmptyKeeps ==
    ASSUME RemovalInv, PowerInv, ring' = <<>>,
           UNCHANGED <<pm, dev, mhi, want, booted, poll, list, st, errwork>>,
           err' = err \/ (err = "again" /\ err' = "ready"),
           Unused' => Unused, down' = "shutdown" => down = "shutdown"
    PROVE  PowerInv'
  <1>0. /\ BootInv /\ ListInv /\ BootedInv /\ ResetInv /\ RawInv /\ RingInv /\ WaitsMeanArrival
        /\ pm' \in Running \cup Stopped
    BY Zenon DEF PowerInv
  <1>1. /\ Faults' /\ \A e : Without(e)' /\ \A f : NoneAfter(e, f)'
    <2>1. DOMAIN ring' = {} OBVIOUS
    <2> QED BY <2>1, Zenon DEF Faults, Without, NoneAfter
  <1>2. ListInv' /\ BootedInv' BY <1>0, Zenon DEF ListInv, BootedInv
  <1>3. ResetInv' BY <1>0, Zenon DEF ResetInv
  <1>4. RawInv' BY <1>0, <1>1, Zenon DEF RawInv
  <1>5. RingInv'
    <2>1. ring' \in Seq({"M0", "M1", "M3", "SYS_ERR", "AMSS"}) OBVIOUS
    <2>2. Without("M0")' /\ Without("M3")' /\ NoneAfter("M0", "M3")' /\ NoneAfter("M3", "M0")'
      BY <1>1, Zenon
    <2> QED BY <1>0, <2>1, <2>2, Zenon DEF RingInv
  <1>6. BootInv' BY <1>0, <1>1, Zenon DEF BootInv, Starting
  <1>7. WaitsMeanArrival'
    BY <1>0, Zenon DEF WaitsMeanArrival, EventAccessInvalid, InError
  <1> QED BY <1>0, <1>2, <1>3, <1>4, <1>5, <1>6, <1>7, Zenon DEF PowerInv

\* The recovery orders the reset, and resets the rings.
LEMMA RecoveryKeeps == ASSUME RemovalInv, PowerInv, ErrEnters \/ ErrResets PROVE PowerInv'
  <1>0. /\ BootInv /\ ListInv /\ BootedInv /\ ResetInv /\ RawInv /\ RingInv
        /\ pm \in Running \cup Stopped
    BY Zenon DEF PowerInv
  <1>1. CASE ErrResets
    <2>1. /\ err = "again" /\ UNCHANGED <<pm, dev, mhi, want, booted, poll, list, st, errwork, powered, down>>
          /\ (ring' = <<>> /\ err' = "ready") \/ UNCHANGED <<ring, err>>
      BY <1>1, Zenon DEF ErrResets, machine
    <2>2. CASE ring' = <<>> /\ err' = "ready" BY <2>1, <2>2, EmptyKeeps, Zenon DEF Unused
    <2>3. CASE UNCHANGED <<ring, err>>
      <3>1. QuietStep BY <2>1, <2>3, Zenon DEF QuietStep, QueueStep, ErrStep, Unused
      <3> QED BY <3>1, QuietKeeps, Zenon
    <2> QED BY <2>1, <2>2, <2>3, Zenon
  <1>2. CASE ErrEnters
    <2>1. /\ err = "entered" /\ pm' = Try("SYS_ERR_PROCESS")
          /\ UNCHANGED <<mhi, ring, booted, poll, list, st, errwork, powered, down>>
          /\ IF pm' = "SYS_ERR_PROCESS" THEN dev' = "RESET" /\ want' = "RESET" /\ err' = "resetting"
             ELSE err' = "idle" /\ UNCHANGED <<dev, want>>
      BY <1>2, Zenon DEF ErrEnters, removal
    <2>2. CASE pm' # "SYS_ERR_PROCESS"
      <3>1. pm' = pm BY <2>1, <2>2, Zenon DEF Try
      <3>2. err' = "idle" /\ UNCHANGED <<dev, want>> BY <2>1, <2>2, Zenon
      <3>3. QuietStep BY <2>1, <3>1, <3>2, Zenon DEF QuietStep, QueueStep, ErrStep, Unused
      <3> QED BY <3>3, QuietKeeps, Zenon
    <2>3. CASE pm' = "SYS_ERR_PROCESS"
      <3>1. dev' = "RESET" /\ want' = "RESET" /\ err' = "resetting" BY <2>1, <2>3, Zenon
      <3>2. booted /\ ~Unused BY <1>0, <2>1, Zenon DEF BootedInv, RemovalInv, UnusedInv, Unused
      <3>3. pm' \notin Awake /\ pm' \in Running BY <2>3, Zenon DEF Awake, Up, Running,
                                                   Failing
      <3>4. down # "shutdown"
        BY <1>0, <2>1, <2>3, TableRows, Zenon DEF ResetInv, Try, Ending
      <3>5. ListInv' /\ BootedInv' /\ ResetInv'
        BY <1>0, <2>1, <3>1, <3>2, <3>3, <3>4, Zenon DEF ListInv, BootedInv, ResetInv
      <3>6. RawInv' BY <1>0, <2>1, <3>1, <3>3, Zenon DEF RawInv
      <3>7. RingInv' BY <1>0, <2>1, <3>1, <3>3, Zenon DEF RingInv, Awake, Up
      <3>8. Faults' = Faults BY <2>1, Zenon DEF Faults
      <3>9. BootInv' BY <1>0, <2>1, <3>1, <3>2, <3>3, <3>8, Zenon DEF BootInv, Starting, Unused,
                        Awake
      <3>10. WaitsMeanArrival' BY <3>1, Zenon DEF WaitsMeanArrival
      <3> QED BY <3>3, <3>5, <3>6, <3>7, <3>9, <3>10, Zenon DEF PowerInv
    <2> QED BY <2>2, <2>3, Zenon
  <1> QED BY <1>1, <1>2, Zenon

\* The probe.
LEMMA ProbePowers == ASSUME RemovalInv, PowerInv, NEW fails, PowerUp(fails) PROVE PowerInv'
  <1>0. /\ pm = "DISABLE" /\ ~powered /\ down = "no" /\ dev' = "RESET"
        /\ mhi' = IF mhi = "SYS_ERR" THEN "READY" ELSE mhi
        /\ UNCHANGED <<st, errwork, err, want, booted, ring>>
    BY Zenon DEF PowerUp
  <1>1. /\ ~poll /\ ~errwork /\ list = <<>> /\ st = "idle" /\ err = "idle" /\ Unused
    BY <1>0, Zenon DEF RemovalInv, UnusedInv, Unused
  <1>2. /\ BootInv /\ BootedInv /\ RingInv BY Zenon DEF PowerInv
  <1>3. Faults /\ want = "none" /\ mhi \in Raw \cup {"SYS_ERR"} BY <1>1, <1>2, Zenon DEF BootInv
  <1>4. Faults' /\ mhi' \in Raw /\ \A e \in {"M0", "M1", "M3"} : Without(e)'
    BY <1>0, <1>3, Zenon DEF Faults, Without, Raw
  <1>5. BootedInv' BY <1>0, <1>2, Zenon DEF BootedInv
  <1>6. pm' \in {"DISABLE", "POR"} /\ down' # "shutdown"
    BY <1>0, Zenon DEF PowerUp
  <1>7. RawInv' /\ ResetInv' BY <1>0, <1>3, <1>4, <1>6, Zenon DEF RawInv, ResetInv, Awake,
                                Up
  <1>8. RingInv' BY <1>0, <1>2, <1>3, <1>4, <1>6, Zenon DEF RingInv
  <1>9. WaitsMeanArrival' BY <1>0, Zenon DEF WaitsMeanArrival
  <1>10. list' \in {<<>>, <<"READY">>} /\ (poll' => list' = <<>>)
    <2>1. (list' = list \/ list' = Append(list, "READY")) /\ (poll' = poll \/ list' = list)
      BY Zenon DEF PowerUp
    <2> QED BY <1>1, <2>1
  <1>11. ListInv'
    <2>1. CASE list' = <<>> BY <2>1 DEF ListInv
    <2>2. CASE list' = <<"READY">> BY <2>2 DEF ListInv
    <2> QED BY <1>10, <2>1, <2>2, Zenon
  <1>12. BootInv' BY <1>0, <1>1, <1>3, <1>4, <1>6, <1>10, Zenon DEF BootInv, Up
  <1>13. pm' \in Running \cup Stopped BY <1>6, Zenon DEF Running, Stopped, L0
  <1> QED BY <1>5, <1>7, <1>8, <1>9, <1>11, <1>12, <1>13, Zenon DEF PowerInv

\* The removal moves pm_state.
LEMMA DownKeeps ==
    ASSUME RemovalInv, PowerInv, DownFatal \/ DownShuts \/ DownDisables PROVE PowerInv'
  <1>0. UNCHANGED <<mhi, booted, poll, list, st, err, errwork, powered>>
    BY Zenon DEF DownFatal, DownShuts, DownDisables, workers, modem
  <1>1. /\ BootedInv /\ ResetInv /\ ring \in Seq({"M0", "M1", "M3", "SYS_ERR", "AMSS"})
        /\ pm \in Running \cup Stopped
    BY Zenon DEF PowerInv, RingInv
  <1>2. CASE DownFatal
    <2>1. /\ down = "fatal" /\ down' = "shutdown" /\ pm' = Try("LD_ERR_FATAL_DETECT")
          /\ UNCHANGED <<want, ring>>
      BY <1>2, Zenon DEF DownFatal, modem
    <2>2. pm' = "LD_ERR_FATAL_DETECT"
      BY <2>1, TableEnds, Zenon DEF RemovalInv, AliveInv, Try, Ending
    <2>3. pm' \in Stopped /\ pm' \notin Awake BY <2>2, Zenon DEF Stopped, Ending, Awake,
                                                 Up
    <2>4. (Faults => Faults') /\ ~Unused' BY <2>1, Zenon DEF Faults, Unused
    <2> QED BY <1>0, <1>1, <2>1, <2>2, <2>3, <2>4, FailedKeeps, Zenon DEF BootedInv
  <1>3. CASE DownShuts
    <2>1. /\ down = "shutdown" /\ pm' = Try("SHUTDOWN_PROCESS") /\ ring' = ring
          /\ want' = want \/ RegAccessValid(pm)
          /\ down' \in {"killing", "freeing"}
      BY <1>3, Zenon DEF DownShuts
    <2>2. pm = "LD_ERR_FATAL_DETECT" BY <1>1, <2>1, Zenon DEF ResetInv
    <2>3. pm' = "SHUTDOWN_PROCESS" /\ want' = want
      BY <2>1, <2>2, TableRows, Zenon DEF Try, Ending, RegAccessValid
    <2>4. pm' \in Stopped /\ pm' \notin Awake BY <2>3, Zenon DEF Stopped, Ending, Awake,
                                                 Up
    <2>5. (Faults => Faults') /\ ~Unused' /\ down' # "shutdown" BY <2>1, Zenon DEF Faults,
                                                                   Unused
    <2> QED BY <1>0, <1>1, <2>1, <2>3, <2>4, <2>5, FailedKeeps, Zenon DEF BootedInv
  <1>4. CASE DownDisables
    <2>1. /\ down' = "freeing" /\ ring' = <<>> /\ pm' = Try("DISABLE") /\ UNCHANGED <<dev, want>>
      BY <1>4, Zenon DEF DownDisables
    <2>2. ~Unused' /\ down' # "shutdown" BY <2>1, Zenon DEF Unused
    <2>3. CASE pm' = pm BY <1>0, <2>1, <2>2, <2>3, EmptyKeeps, Zenon
    <2>4. CASE pm' = "DISABLE"
      <3>1. pm' \in Stopped /\ pm' \notin Awake BY <2>4, Zenon DEF Stopped, Awake, Up
      <3>2. Faults' BY <2>1 DEF Faults
      <3>3. ring' \in Seq({"M0", "M1", "M3", "SYS_ERR", "AMSS"}) BY <2>1
      <3> QED BY <1>0, <1>1, <2>1, <2>2, <3>1, <3>2, <3>3, FailedKeeps, Zenon DEF BootedInv
    <2> QED BY <2>1, <2>3, <2>4, Zenon DEF Try
  <1> QED BY <1>2, <1>3, <1>4, Zenon

\* Every step keeps the invariant.
LEMMA PowerStep == ASSUME RemovalInv, PowerInv, [Next]_vars PROVE PowerInv'
  <1>1. CASE Modem \/ DeviceIdles \/ \E written \in BOOLEAN : DeviceFails(written)
    BY <1>1, ModemKeeps, Zenon
  <1>2. CASE Interrupt \/ ResumeFails BY <1>2, FaultKeeps, Zenon
  <1>3. CASE TaskHandles BY <1>3, TaskHandleKeeps, Zenon
  <1>4. CASE SuspendRequests \/ ResumeBegins BY <1>4, OrdersKeep, Zenon
  <1>5. CASE StReady \/ ErrReady BY <1>5, ReadyKeeps, Zenon
  <1>6. CASE ErrEnters \/ ErrResets BY <1>6, RecoveryKeeps, Zenon
  <1>7. CASE Probe BY <1>7, ProbePowers, Zenon DEF Probe
  <1>8. CASE DownFatal \/ DownShuts \/ DownDisables BY <1>8, DownKeeps, Zenon
  <1>9. CASE \/ SuspendBegins \/ SuspendEnds \/ SuspendFails \/ ResumeEnds
             \/ TaskStarts \/ TaskEnds \/ StAdds \/ StNotReady \/ StSyncs
             \/ StChecks \/ StMission \/ StTakes \/ PollRuns \/ UNCHANGED vars
    BY <1>9, WaitsAreQuiet, QuietKeeps, Zenon
  <1>10. CASE \/ ErrStarts \/ ErrReset \/ ErrKills \/ ErrDestroys \/ ErrFlushes
              \/ ErrNotReady
              \/ RemoveBegins \/ DownKills \/ DownDestroys \/ DownFlushes \/ DownFrees
    BY <1>10, WorkersAreQuiet, QuietKeeps, Zenon
  <1> QED BY <1>1, <1>2, <1>3, <1>4, <1>5, <1>6, <1>7, <1>8, <1>9, <1>10, Zenon
          DEF Next, Tasklet, StWorker, Callback, ErrWorker, Removal, Probe

\* mhi_pm_suspend, mhi_pm_resume: whatever event, fault or late answer comes in
\* between, a wait for dev_state that ends well means that pm_state has arrived.
THEOREM WaitsMeanArrivalHolds == Spec => []WaitsMeanArrival
  <1>1. Init => PowerInv
    <2> SUFFICES ASSUME Init PROVE PowerInv BY Zenon
    <2>0. /\ pm = "DISABLE" /\ dev = "RESET" /\ list = <<>> /\ st = "idle" /\ poll = FALSE
          /\ errwork = FALSE /\ err = "idle" /\ down = "no" /\ mhi = "RESET" /\ want = "none" /\ ring = <<>>
      BY Zenon DEF Init
    <2>1. Faults BY <2>0 DEF Faults
    <2>2. BootInv /\ ListInv /\ BootedInv /\ ResetInv
      BY <2>0, <2>1 DEF BootInv, ListInv, BootedInv, ResetInv, Up, Raw
    <2>3. RawInv /\ RingInv /\ WaitsMeanArrival
      BY <2>0, <2>1 DEF RawInv, RingInv, WaitsMeanArrival, Awake, Up
    <2> QED BY <2>0, <2>2, <2>3, Zenon DEF PowerInv, Stopped
  <1>2. RemovalInv /\ PowerInv /\ [Next]_vars => PowerInv' BY PowerStep, Zenon
  <1>3. PowerInv => WaitsMeanArrival BY Zenon DEF PowerInv
  <1> QED BY <1>1, <1>2, <1>3, RemovalAlways, PTL DEF Spec
=============================================================================
