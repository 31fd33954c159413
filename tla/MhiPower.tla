------------------------------ MODULE MhiPower ------------------------------
(***************************************************************************)
(* Power management of the PCIe modem driver (quectel_MHI, core/mhi_pm.c   *)
(* with the event handlers of core/mhi_main.c and the PCI callbacks of     *)
(* controllers/mhi_qti.c).                                                 *)
(*                                                                         *)
(* Six host threads move one power state, pm_state: the callbacks of the   *)
(* kernel's PM core (suspend, resume), the tasklet of the control event    *)
(* ring, the threaded interrupt handler, the state worker st_worker with   *)
(* its poller ready_worker, the recovery worker syserr_worker, and the     *)
(* removal of the PCI device.  Every move goes through                     *)
(* mhi_tryset_pm_state under pm_lock, so one move is one step; pm_mutex is *)
(* the variable mutex.  The modem answers on its own time (the Device      *)
(* actions, which are external) through the register MHISTATUS and the     *)
(* control event ring.                                                     *)
(***************************************************************************)
EXTENDS Naturals, Sequences

CONSTANTS
    MaxSleeps,  \* how often the PM core suspends the device
    MaxErrors,  \* how often the modem falls into SYS_ERR
    MaxLate,    \* how many waits run out although the answer is on its way
    MaxEvents   \* bound: how many of the three together

ASSUME MhiPowerAssumption == {MaxSleeps, MaxErrors, MaxLate, MaxEvents} \subseteq Nat

VARIABLES
    pm,        \* mhi_cntrl->pm_state
    dev,       \* mhi_cntrl->dev_state, what the host believes of the modem
    ee,        \* mhi_cntrl->ee is mission mode
    mutex,     \* the holder of pm_mutex
    core,      \* where the suspend or resume callback waits
    asleep,    \* the last suspend succeeded and no resume came back since
    task,      \* the control tasklet is inside its loop over the ring
    list,      \* transition_list
    st,        \* where st_worker is
    poll,      \* ready_worker is scheduled
    errwork,   \* syserr_worker is queued
    err,       \* where syserr_worker is
    powered,   \* mhi_dev->powered_on
    down,      \* where mhi_power_down is
    children,  \* client devices are registered
    ctxt,      \* mhi_ctxt is allocated and the interrupts are requested
    oops,      \* a thread has used mhi_ctxt after it was freed
    clean,     \* no recovery, boot or client registration met the removal
    mhi,       \* the modem: MHISTATUS
    want,      \* the modem: the MHICTRL command it has still to carry out
    wake,      \* the modem: its wake doorbell was rung
    booted,    \* the modem: it left its boot loader
    ring,      \* the events it wrote that the host has not consumed
    irq,       \* its state interrupt is pending
    sleeps, errors, late

machine == <<pm, dev, ee>>
workers == <<task, list, st, poll, errwork, err>>
removal == <<powered, down, children, ctxt, oops, clean>>
modem == <<mhi, want, wake, booted, ring, irq>>
sleep == <<core, asleep>>
counts == <<sleeps, errors, late>>
vars == <<machine, mutex, sleep, workers, removal, modem, counts>>

L0 == {"DISABLE", "POR", "M0", "M2", "M3_ENTER", "M3", "M3_EXIT"}
Failing == {"SYS_ERR_DETECT", "SYS_ERR_PROCESS"}
Ending == {"SHUTDOWN_PROCESS", "LD_ERR_FATAL_DETECT"}
Up == {"M0", "M2", "M3_ENTER", "M3", "M3_EXIT"}
Middle == {"resetting", "killing", "destroying", "flushing", "again", "ready"}

Init ==
    /\ pm = "DISABLE" /\ dev = "RESET" /\ ee = FALSE
    /\ mutex = "none" /\ core = "idle" /\ asleep = FALSE
    /\ task = FALSE /\ list = <<>> /\ st = "idle" /\ poll = FALSE
    /\ errwork = FALSE /\ err = "idle"
    /\ powered = FALSE /\ down = "no" /\ children = FALSE /\ ctxt = FALSE
    /\ oops = FALSE /\ clean = TRUE
    /\ mhi = "RESET" /\ want = "none" /\ wake = FALSE /\ booted = FALSE
    /\ ring = <<>> /\ irq = FALSE
    /\ sleeps = 0 /\ errors = 0 /\ late = 0

MoreEvents == sleeps + errors + late < MaxEvents

-----------------------------------------------------------------------------
(* The transition table and the predicates on pm_state.                    *)

\* mhi_state_transitions.  FW_DL_ERR is never requested: the firmware worker
\* is not scheduled by this driver.
Allowed(s) ==
    CASE s = "DISABLE" -> {"POR"}
      [] s = "POR" -> {"POR", "DISABLE", "M0", "SYS_ERR_DETECT"} \cup Ending
      [] s = "M0" -> {"M2", "M3_ENTER", "SYS_ERR_DETECT"} \cup Ending
      [] s = "M2" -> {"M0", "SYS_ERR_DETECT"} \cup Ending
      [] s = "M3_ENTER" -> {"M3", "SYS_ERR_DETECT"} \cup Ending
      [] s = "M3" -> {"M3_EXIT", "SYS_ERR_DETECT"} \cup Ending
      [] s = "M3_EXIT" -> {"M0", "SYS_ERR_DETECT"} \cup Ending
      [] s = "SYS_ERR_DETECT" -> {"SYS_ERR_PROCESS"} \cup Ending
      [] s = "SYS_ERR_PROCESS" -> {"POR"} \cup Ending
      [] s = "SHUTDOWN_PROCESS" -> {"DISABLE", "LD_ERR_FATAL_DETECT"}
      [] s = "LD_ERR_FATAL_DETECT" -> Ending

\* Mutant: the row of SHUTDOWN_PROCESS also names POR.
TryUpFromShutdown(s) ==
    IF s \in Allowed(pm) \/ (pm = "SHUTDOWN_PROCESS" /\ s = "POR") THEN s ELSE pm

\* Mutant: the row of M3_EXIT does not name M0.
TryWithoutExit(s) ==
    IF s \in Allowed(pm) /\ ~(pm = "M3_EXIT" /\ s = "M0") THEN s ELSE pm

\* The state mhi_tryset_pm_state leaves behind and returns.  A caller that
\* compares it with s also goes on when the state was s already.
Try(s) == IF s \in Allowed(pm) THEN s ELSE pm

RegAccessValid(s) == s \notin {"DISABLE", "M3", "LD_ERR_FATAL_DETECT"}
InError(s) == s \in Failing \cup Ending
EventAccessInvalid(s) == s = "DISABLE" \/ InError(s)

\* mhi_assert_dev_wake: only in M2 is the doorbell written.
Woken == wake \/ dev = "M2"

\* The modem, or an event it wrote, can still answer the host.
Answerable ==
    \/ want # "none" /\ (mhi # "SYS_ERR" \/ want = "RESET")
    \/ ~booted \/ task \/ (irq /\ ctxt) \/ (wake /\ mhi # "SYS_ERR")
    \/ ring # <<>> /\ ~EventAccessInvalid(pm) /\ RegAccessValid(pm)

\* A wait_event_timeout runs out: the answer is late, or there is none.
RunsOut ==
    \/ late < MaxLate /\ MoreEvents /\ late' = late + 1
    \/ ~Answerable /\ UNCHANGED late

-----------------------------------------------------------------------------
(* The modem (external).                                                   *)

DeviceBoots ==
    /\ ~booted /\ booted' = TRUE
    /\ mhi' = "READY"
    /\ UNCHANGED <<machine, mutex, sleep, workers, removal, counts>>
    /\ UNCHANGED <<want, wake, ring, irq>>

\* It carries out the last command of MHICTRL and writes a state event; after
\* a reset it also announces its execution environment.
DeviceObeys ==
    /\ booted /\ want # "none" /\ want' = "none"
    /\ mhi = "SYS_ERR" => want = "RESET"
    /\ mhi' = IF want = "RESET" THEN "READY" ELSE want
    /\ wake' = (wake /\ want # "RESET")
    /\ ring' = CASE want = "M0" /\ mhi = "READY" -> ring \o <<"M0", "AMSS">>
                 [] want \in {"M0", "M3"} /\ mhi # "READY" ->
                        Append(ring, want)
                 [] OTHER -> ring
    /\ UNCHANGED <<machine, mutex, sleep, workers, removal, counts>>
    /\ UNCHANGED <<booted, irq>>

\* With nothing to do it asks for the low power state.
DeviceIdles ==
    /\ mhi = "M0" /\ want = "none" /\ ~wake /\ ring = <<>>
    /\ mhi' = "M1" /\ ring' = <<"M1">>
    /\ UNCHANGED <<machine, mutex, sleep, workers, removal, counts>>
    /\ UNCHANGED <<want, wake, booted, irq>>

DeviceWakes ==
    /\ wake /\ want = "none" /\ mhi \notin {"M1", "SYS_ERR"}
    /\ wake' = FALSE
    /\ IF mhi = "M2"
       THEN mhi' = "M0" /\ ring' = Append(ring, "M0")
       ELSE UNCHANGED <<mhi, ring>>
    /\ UNCHANGED <<machine, mutex, sleep, workers, removal, counts>>
    /\ UNCHANGED <<want, booted, irq>>

\* A fault; it raises the state interrupt and may still write the event.
DeviceFails(written) ==
    /\ errors < MaxErrors /\ MoreEvents /\ errors' = errors + 1
    /\ booted /\ mhi # "SYS_ERR"
    /\ mhi' = "SYS_ERR" /\ want' = "none" /\ irq' = TRUE
    /\ ring' = IF written THEN Append(ring, "SYS_ERR") ELSE ring
    /\ UNCHANGED <<machine, mutex, sleep, workers, removal>>
    /\ UNCHANGED <<wake, booted, sleeps, late>>

-----------------------------------------------------------------------------
(* Interrupt handler and control event ring.                               *)

\* mhi_intvec_threaded_handlr, which a failed resume also calls.
ChecksState ==
    IF /\ RegAccessValid(pm) /\ mhi = "SYS_ERR" /\ pm # "SYS_ERR_DETECT"
       /\ Try("SYS_ERR_DETECT") = "SYS_ERR_DETECT"
    THEN pm' = "SYS_ERR_DETECT" /\ errwork' = TRUE
    ELSE UNCHANGED <<pm, errwork>>

Interrupt ==
    /\ irq /\ ctxt /\ irq' = FALSE
    /\ ChecksState
    /\ UNCHANGED <<dev, ee, mutex, sleep, task, list, st, poll, err, removal>>
    /\ UNCHANGED <<mhi, want, wake, booted, ring, counts>>

\* mhi_ctrl_ev_task with the first check of mhi_process_ctrl_ev_ring.
TaskStarts ==
    /\ ~task /\ ctxt /\ ring # <<>>
    /\ RegAccessValid(pm) /\ ~EventAccessInvalid(pm)
    /\ task' = TRUE
    /\ UNCHANGED <<machine, mutex, sleep, list, st, poll, errwork, err>>
    /\ UNCHANGED <<removal, modem, counts>>

mhi_pm_m0_transition == dev' = "M0" /\ pm' = Try("M0") /\ UNCHANGED want

\* The host answers the request for M1 with the order to enter M2.  It leaves
\* M2 at once for no one: mhi_assert_dev_wake returns before it counts dev_wake.
mhi_pm_m1_transition ==
    /\ pm' = Try("M2")
    /\ IF pm' = "M2" THEN dev' = "M2" /\ want' = "M2" ELSE UNCHANGED <<dev, want>>

mhi_pm_m3_transition == dev' = "M3" /\ pm' = Try("M3") /\ UNCHANGED want

\* One turn of the loop; pm_state is not checked again.
TaskHandles ==
    /\ task /\ ring # <<>> /\ ring' = Tail(ring)
    /\ \/ /\ \/ Head(ring) = "M0" /\ mhi_pm_m0_transition
             \/ Head(ring) = "M1" /\ mhi_pm_m1_transition
             \/ Head(ring) = "M3" /\ mhi_pm_m3_transition
          /\ UNCHANGED <<errwork, list>>
       \/ /\ Head(ring) = "SYS_ERR" /\ pm' = Try("SYS_ERR_DETECT")
          /\ errwork' = (errwork \/ pm' = "SYS_ERR_DETECT")
          /\ UNCHANGED <<dev, want, list>>
       \/ /\ Head(ring) = "AMSS" /\ list' = Append(list, "MISSION")
          /\ UNCHANGED <<pm, dev, want, errwork>>
    /\ UNCHANGED <<ee, mutex, sleep, task, st, poll, err, removal>>
    /\ UNCHANGED <<mhi, wake, booted, irq, counts>>

TaskEnds ==
    /\ task /\ ring = <<>> /\ task' = FALSE
    /\ UNCHANGED <<machine, mutex, sleep, list, st, poll, errwork, err>>
    /\ UNCHANGED <<removal, modem, counts>>

-----------------------------------------------------------------------------
(* mhi_async_power_up, ready_worker and st_worker.                         *)

\* Called once, by the probe: a modem that is still in SYS_ERR is reset first;
\* the error path frees what it allocated.
PowerUp(fails) ==
    /\ pm = "DISABLE" /\ ~powered /\ down = "no" /\ mutex = "none"
    /\ dev' = "RESET" /\ mhi' = IF mhi = "SYS_ERR" THEN "READY" ELSE mhi
    /\ IF fails
       THEN down' = "done" /\ UNCHANGED <<pm, ee, powered, ctxt, list, poll>>
       ELSE /\ pm' = "POR" /\ ee' = FALSE
            /\ powered' = TRUE /\ ctxt' = TRUE
            /\ IF booted THEN list' = Append(list, "READY") /\ UNCHANGED poll
                         ELSE poll' = TRUE /\ UNCHANGED list
            /\ UNCHANGED down
    /\ UNCHANGED <<mutex, sleep, task, st, errwork, err>>
    /\ UNCHANGED <<children, oops, clean, counts>>
    /\ UNCHANGED <<want, wake, booted, ring, irq>>

\* While the modem is in its boot loader the poller only reschedules itself.
PollRuns ==
    /\ poll /\ (dev = "RESET" /\ RegAccessValid(pm) => booted)
    /\ poll' = FALSE
    /\ list' = IF dev = "RESET" /\ RegAccessValid(pm)
               THEN Append(list, "READY") ELSE list
    /\ UNCHANGED <<machine, mutex, sleep, task, st, errwork, err>>
    /\ UNCHANGED <<removal, modem, counts>>

\* mhi_ready_state_transition once the wait is over: the registers and rings
\* are programmed through mhi_ctxt.
BecomesReady ==
    /\ mhi = "READY" /\ want # "RESET"
    /\ pm' = Try("POR") /\ dev' = "READY"
    /\ IF pm' # "POR" THEN UNCHANGED <<want, oops>>
       ELSE IF ctxt THEN want' = "M0" /\ UNCHANGED oops
       ELSE oops' = TRUE /\ UNCHANGED want

\* Its two failures: a fatal state, or the wait runs out.
StaysUnready ==
    \/ pm = "LD_ERR_FATAL_DETECT" /\ UNCHANGED late
    \/ ~(mhi = "READY" /\ want # "RESET") /\ RunsOut

StTakes ==
    /\ st = "idle" /\ list # <<>> /\ list' = Tail(list)
    /\ IF Head(list) = "READY"
       THEN st' = "ready" /\ UNCHANGED wake
       ELSE st' = "mission" /\ wake' = Woken
    /\ UNCHANGED <<machine, mutex, sleep, task, poll, errwork, err, removal>>
    /\ UNCHANGED <<mhi, want, booted, ring, irq, counts>>

StReady ==
    /\ st = "ready" /\ st' = "idle" /\ pm # "LD_ERR_FATAL_DETECT"
    /\ BecomesReady
    /\ UNCHANGED <<ee, mutex, sleep, task, list, poll, errwork, err>>
    /\ UNCHANGED <<powered, down, children, ctxt, clean>>
    /\ UNCHANGED <<mhi, wake, booted, ring, irq, counts>>

StNotReady ==
    /\ st = "ready" /\ st' = "idle"
    /\ StaysUnready
    /\ UNCHANGED <<machine, mutex, sleep, task, list, poll, errwork, err>>
    /\ UNCHANGED <<removal, modem, sleeps, errors>>

\* __mhi_device_get_sync waits for M0.
StSyncs ==
    /\ st = "mission"
    /\ \/ pm = "M0" /\ st' = "synced" /\ UNCHANGED late
       \/ InError(pm) /\ st' = "idle" /\ UNCHANGED late
       \/ pm # "M0" /\ ~InError(pm) /\ st' = "idle" /\ RunsOut
    /\ UNCHANGED <<machine, mutex, sleep, task, list, poll, errwork, err>>
    /\ UNCHANGED <<removal, modem, sleeps, errors>>

\* The rest of mhi_pm_mission_mode_transition, up to mhi_create_devices.
StMission ==
    /\ st = "synced"
    /\ ee' = IF RegAccessValid(pm) THEN mhi \notin {"RESET", "SYS_ERR"} ELSE ee
    /\ st' = IF ee' /\ ~InError(pm) THEN "create" ELSE "idle"
    /\ UNCHANGED <<pm, dev, mutex, sleep, task, list, poll, errwork, err>>
    /\ UNCHANGED <<removal, modem, counts>>

\* mhi_create_devices reads ee for the channel, then registers the client.
StChecks ==
    /\ st = "create"
    /\ st' = IF ee /\ ~children THEN "adding" ELSE "idle"
    /\ UNCHANGED <<machine, mutex, sleep, task, list, poll, errwork, err>>
    /\ UNCHANGED <<removal, modem, counts>>

StAdds ==
    /\ st = "adding" /\ st' = "idle" /\ children' = TRUE
    /\ UNCHANGED <<machine, mutex, sleep, task, list, poll, errwork, err>>
    /\ UNCHANGED <<powered, down, ctxt, oops, clean, modem, counts>>

-----------------------------------------------------------------------------
(* Suspend and resume: the callbacks of the PM core.                       *)

\* mhi_runtime_suspend up to the wait of mhi_pm_suspend for M0.  Its early
\* returns change nothing.
SuspendBegins ==
    /\ core = "idle" /\ ~asleep /\ powered /\ ee
    /\ mutex = "none" /\ mutex' = "core"
    /\ pm # "DISABLE" /\ ~InError(pm)
    /\ sleeps < MaxSleeps /\ MoreEvents /\ sleeps' = sleeps + 1
    /\ core' = "leaves M2" /\ wake' = Woken
    /\ UNCHANGED <<machine, asleep, workers, removal>>
    /\ UNCHANGED <<mhi, want, booted, ring, irq, errors, late>>

SuspendRequests ==
    /\ core = "leaves M2" /\ dev = "M0" /\ ~InError(pm)
    /\ pm' = Try("M3_ENTER")
    /\ IF pm' = "M3_ENTER"
       THEN core' = "enters M3" /\ want' = "M3" /\ UNCHANGED mutex
       ELSE core' = "idle" /\ mutex' = "none" /\ UNCHANGED want
    /\ UNCHANGED <<dev, ee, asleep, workers, removal>>
    /\ UNCHANGED <<mhi, wake, booted, ring, irq, counts>>

SuspendEnds ==
    /\ core = "enters M3" /\ dev = "M3" /\ ~InError(pm)
    /\ core' = "idle" /\ mutex' = "none" /\ asleep' = TRUE
    /\ UNCHANGED <<machine, workers, removal, modem, counts>>

\* -EIO: an error state, or the wait ran out.
SuspendFails ==
    /\ \/ core = "leaves M2" /\ (InError(pm) \/ dev # "M0")
       \/ core = "enters M3" /\ (InError(pm) \/ dev # "M3")
    /\ IF InError(pm) THEN UNCHANGED late ELSE RunsOut
    /\ core' = "idle" /\ mutex' = "none"
    /\ UNCHANGED <<machine, asleep, workers, removal, modem, sleeps, errors>>

\* mhi_runtime_resume up to the wait of mhi_pm_resume.
ResumeBegins ==
    /\ asleep /\ core = "idle" /\ mutex = "none"
    /\ IF ~InError(pm) /\ Try("M3_EXIT") = "M3_EXIT"
       THEN /\ pm' = "M3_EXIT" /\ want' = "M0" /\ wake' = Woken
            /\ core' = "enters M0" /\ mutex' = "core" /\ UNCHANGED asleep
       ELSE asleep' = FALSE /\ UNCHANGED <<pm, want, wake, core, mutex>>
    /\ UNCHANGED <<dev, ee, workers, removal>>
    /\ UNCHANGED <<mhi, booted, ring, irq, counts>>

ResumeEnds ==
    /\ core = "enters M0" /\ dev = "M0" /\ ~InError(pm)
    /\ core' = "idle" /\ mutex' = "none" /\ asleep' = FALSE
    /\ UNCHANGED <<machine, workers, removal, modem, counts>>

\* Mutant: the state is not checked.
ResumeFailsBlind ==
    /\ core = "enters M0" /\ (InError(pm) \/ dev # "M0")
    /\ IF InError(pm) THEN UNCHANGED late ELSE RunsOut
    /\ core' = "idle" /\ mutex' = "none" /\ asleep' = FALSE
    /\ UNCHANGED <<machine, workers, removal, modem, sleeps, errors>>

\* -EIO; a modem that failed while no one could read its registers is found
\* by the forced check.
ResumeFails ==
    /\ core = "enters M0" /\ (InError(pm) \/ dev # "M0")
    /\ IF InError(pm) THEN UNCHANGED late ELSE RunsOut
    /\ core' = "idle" /\ mutex' = "none" /\ asleep' = FALSE
    /\ ChecksState
    /\ UNCHANGED <<dev, ee, task, list, st, poll, err, removal, modem>>
    /\ UNCHANGED <<sleeps, errors>>

-----------------------------------------------------------------------------
(* mhi_pm_disable_transition, run by syserr_worker (SYS_ERR_PROCESS) and   *)
(* by mhi_power_down (SHUTDOWN_PROCESS).                                   *)

ErrStarts ==
    /\ errwork /\ err = "idle" /\ errwork' = FALSE /\ err' = "entered"
    /\ UNCHANGED <<machine, mutex, sleep, task, list, st, poll, removal>>
    /\ UNCHANGED <<modem, counts>>

ErrEnters ==
    /\ err = "entered" /\ mutex = "none"
    /\ pm' = Try("SYS_ERR_PROCESS")
    /\ IF pm' = "SYS_ERR_PROCESS"
       THEN /\ ee' = FALSE /\ dev' = "RESET" /\ want' = "RESET"
            /\ err' = "resetting" /\ mutex' = "err"
       ELSE err' = "idle" /\ UNCHANGED <<ee, dev, want, mutex>>
    /\ UNCHANGED <<sleep, task, list, st, poll, errwork, removal>>
    /\ UNCHANGED <<mhi, wake, booted, ring, irq, counts>>

\* Mutant: the early return keeps pm_mutex.
ErrResetLocked ==
    /\ err = "resetting"
    /\ \/ want # "RESET" /\ err' = "killing" /\ UNCHANGED late
       \/ want = "RESET" /\ RunsOut /\ err' = "idle"
    /\ UNCHANGED <<machine, mutex, sleep, task, list, st, poll, errwork, removal>>
    /\ UNCHANGED <<modem, sleeps, errors>>

\* The modem left reset; or it did not, and the worker gives up.
ErrReset ==
    /\ err = "resetting"
    /\ \/ want # "RESET" /\ err' = "killing" /\ UNCHANGED <<mutex, late>>
       \/ want = "RESET" /\ RunsOut /\ err' = "idle" /\ mutex' = "none"
    /\ UNCHANGED <<machine, sleep, task, list, st, poll, errwork, removal>>
    /\ UNCHANGED <<modem, sleeps, errors>>

\* tasklet_kill, then pm_mutex is released.
ErrKills ==
    /\ err = "killing" /\ ~task /\ err' = "destroying" /\ mutex' = "none"
    /\ UNCHANGED <<machine, sleep, task, list, st, poll, errwork, removal>>
    /\ UNCHANGED <<modem, counts>>

ErrDestroys ==
    /\ err = "destroying" /\ children' = FALSE /\ err' = "flushing"
    /\ UNCHANGED <<machine, mutex, sleep, task, list, st, poll, errwork>>
    /\ UNCHANGED <<powered, down, ctxt, oops, clean, modem, counts>>

\* flush_delayed_work(ready_worker), flush_work(st_worker).  A poller that
\* finds the boot loader has rescheduled itself when the flush returns.
Flushed ==
    /\ poll => dev = "RESET" /\ RegAccessValid(pm) /\ ~booted
    /\ st = "idle" /\ list = <<>>

ErrFlushes ==
    /\ err = "flushing" /\ Flushed /\ err' = "again"
    /\ UNCHANGED <<machine, mutex, sleep, task, list, st, poll, errwork>>
    /\ UNCHANGED <<removal, modem, counts>>

\* The rings are reset through mhi_ctxt, pm_mutex held to the end.
ErrResets ==
    /\ err = "again" /\ mutex = "none" /\ ~oops
    /\ IF ctxt
       THEN ring' = <<>> /\ err' = "ready" /\ mutex' = "err" /\ UNCHANGED oops
       ELSE oops' = TRUE /\ UNCHANGED <<ring, err, mutex>>
    /\ UNCHANGED <<machine, sleep, task, list, st, poll, errwork>>
    /\ UNCHANGED <<powered, down, children, ctxt, clean>>
    /\ UNCHANGED <<mhi, want, wake, booted, irq, counts>>

ErrReady ==
    /\ err = "ready" /\ err' = "idle" /\ mutex' = "none"
    /\ pm # "LD_ERR_FATAL_DETECT" /\ BecomesReady
    /\ UNCHANGED <<ee, sleep, task, list, st, poll, errwork>>
    /\ UNCHANGED <<powered, down, children, ctxt, clean>>
    /\ UNCHANGED <<mhi, wake, booted, ring, irq, counts>>

ErrNotReady ==
    /\ err = "ready" /\ err' = "idle" /\ mutex' = "none"
    /\ StaysUnready
    /\ UNCHANGED <<machine, sleep, task, list, st, poll, errwork, removal>>
    /\ UNCHANGED <<modem, sleeps, errors>>

-----------------------------------------------------------------------------
(* mhi_pci_device_removed and mhi_power_down(mhi_cntrl, false).            *)

\* pm_runtime_get_sync has resumed the device, so no callback is running.
RemoveBegins ==
    /\ powered /\ down = "no" /\ core = "idle" /\ ~asleep /\ mutex = "none"
    /\ powered' = FALSE /\ down' = "fatal"
    /\ UNCHANGED <<machine, mutex, sleep, workers, modem, counts>>
    /\ UNCHANGED <<children, ctxt, oops, clean>>

\* Not graceful: the link is declared dead first.
DownFatal ==
    /\ down = "fatal" /\ mutex = "none" /\ down' = "shutdown"
    /\ pm' = Try("LD_ERR_FATAL_DETECT")
    /\ clean' = (err \notin Middle /\ st \notin {"create", "adding"} /\ ~poll)
    /\ UNCHANGED <<dev, ee, mutex, sleep, workers, modem, counts>>
    /\ UNCHANGED <<powered, children, ctxt, oops>>

\* The state before was not one with register access: no reset is requested.
DownShuts ==
    /\ down = "shutdown" /\ mutex = "none"
    /\ pm' = Try("SHUTDOWN_PROCESS")
    /\ IF pm' = "SHUTDOWN_PROCESS"
       THEN /\ ee' = FALSE /\ dev' = "RESET"
            /\ down' = "killing" /\ mutex' = "down"
            /\ want' = IF RegAccessValid(pm) THEN "RESET" ELSE want
       ELSE down' = "freeing" /\ UNCHANGED <<ee, dev, mutex, want>>
    /\ UNCHANGED <<sleep, workers, powered, children, ctxt, oops, clean>>
    /\ UNCHANGED <<mhi, wake, booted, ring, irq, counts>>

DownKills ==
    /\ down = "killing" /\ ~task /\ down' = "destroying" /\ mutex' = "none"
    /\ UNCHANGED <<machine, sleep, workers, modem, counts>>
    /\ UNCHANGED <<powered, children, ctxt, oops, clean>>

DownDestroys ==
    /\ down = "destroying" /\ children' = FALSE /\ down' = "flushing"
    /\ UNCHANGED <<machine, mutex, sleep, workers, modem, counts>>
    /\ UNCHANGED <<powered, ctxt, oops, clean>>

\* Mutant: the workers are not flushed.
DownUnflushed ==
    /\ down = "flushing" /\ down' = "again"
    /\ UNCHANGED <<machine, mutex, sleep, workers, modem, counts>>
    /\ UNCHANGED <<powered, children, ctxt, oops, clean>>

DownFlushes ==
    /\ down = "flushing" /\ Flushed /\ down' = "again"
    /\ UNCHANGED <<machine, mutex, sleep, workers, modem, counts>>
    /\ UNCHANGED <<powered, children, ctxt, oops, clean>>

DownDisables ==
    /\ down = "again" /\ mutex = "none" /\ down' = "freeing"
    /\ ring' = <<>> /\ pm' = Try("DISABLE")
    /\ UNCHANGED <<dev, ee, mutex, sleep, workers, powered, children, ctxt>>
    /\ UNCHANGED <<oops, clean, mhi, want, wake, booted, irq, counts>>

\* mhi_deinit_free_irq and mhi_deinit_dev_ctxt; free_irq waits for handlers.
DownFrees ==
    /\ down = "freeing" /\ down' = "done" /\ ctxt' = FALSE /\ irq' = FALSE
    /\ UNCHANGED <<machine, mutex, sleep, workers, counts>>
    /\ UNCHANGED <<powered, children, oops, clean>>
    /\ UNCHANGED <<mhi, want, wake, booted, ring>>

-----------------------------------------------------------------------------
Modem == DeviceBoots \/ DeviceObeys \/ DeviceWakes
Tasklet == TaskStarts \/ TaskHandles \/ TaskEnds
StWorker == StTakes \/ StReady \/ StNotReady \/ StSyncs \/ StMission
            \/ StChecks \/ StAdds
Callback == SuspendRequests \/ SuspendEnds \/ SuspendFails
            \/ ResumeEnds \/ ResumeFails
ErrWorker == ErrStarts \/ ErrEnters \/ ErrReset \/ ErrKills \/ ErrDestroys
             \/ ErrFlushes \/ ErrResets \/ ErrReady \/ ErrNotReady
Removal == DownFatal \/ DownShuts \/ DownKills \/ DownDestroys
           \/ DownFlushes \/ DownDisables \/ DownFrees

Next ==
    \/ Modem \/ DeviceIdles \/ (\E written \in BOOLEAN : DeviceFails(written))
    \/ Interrupt \/ Tasklet
    \/ (\E fails \in BOOLEAN : PowerUp(fails)) \/ PollRuns \/ StWorker
    \/ SuspendBegins \/ ResumeBegins \/ Callback
    \/ ErrWorker
    \/ RemoveBegins \/ Removal

Spec == Init /\ [][Next]_vars

\* Interrupts, tasklets and work items are run by the kernel, waits end, and
\* a modem that was given a command carries it out.
Fairness ==
    /\ WF_vars(Modem) /\ WF_vars(Interrupt) /\ WF_vars(Tasklet)
    /\ WF_vars(PollRuns) /\ WF_vars(StWorker) /\ WF_vars(Callback)
    /\ WF_vars(ErrWorker) /\ WF_vars(Removal)

FairSpec == Spec /\ Fairness

-----------------------------------------------------------------------------
(* Properties.                                                             *)

\* Every variable keeps its type, and never more than two transitions wait for
\* st_worker.
TypeOK ==
    /\ pm \in L0 \cup Failing \cup Ending
    /\ dev \in {"RESET", "READY", "M0", "M2", "M3"}
    /\ mutex \in {"none", "core", "err", "down"}
    /\ core \in {"idle", "leaves M2", "enters M3", "enters M0"}
    /\ st \in {"idle", "ready", "mission", "synced", "create", "adding"}
    /\ err \in {"idle", "entered"} \cup Middle
    /\ down \in {"no", "fatal", "shutdown", "killing", "destroying",
                 "flushing", "again", "freeing", "done"}
    /\ mhi \in {"RESET", "READY", "M0", "M1", "M2", "M3", "SYS_ERR"}
    /\ want \in {"none", "M0", "M2", "M3", "RESET"}
    /\ list \in Seq({"READY", "MISSION"}) /\ Len(list) <= 2
    /\ ring \in Seq({"M0", "M1", "M3", "SYS_ERR", "AMSS"})
    /\ {ee, asleep, task, poll, errwork, powered, children, ctxt, oops,
        clean, wake, booted, irq} \subseteq BOOLEAN
    /\ sleeps \in 0..MaxSleeps /\ errors \in 0..MaxErrors /\ late \in 0..MaxLate

\* Suspend and resume wait for dev_state, not for pm_state: a wait that ends
\* well must still mean that pm_state has arrived there, whatever event,
\* fault or late answer came in between.
WaitsMeanArrival ==
    ~EventAccessInvalid(pm) =>
        /\ dev = "M0" => pm \in {"M0", "M3_ENTER"}
        /\ dev = "M3" => pm \in {"M3", "M3_EXIT"}

\* A removal that no recovery, boot or client registration was under way to
\* meet leaves nothing behind: at the end the state machine is disabled, the
\* clients are gone, no worker is inside a transition, and the freed context
\* is not used by work that was queued before and runs later.
CleanRemovalEnds ==
    /\ clean => ~oops
    /\ down = "done" /\ clean => /\ pm = "DISABLE" /\ ~children /\ ~task
                                 /\ st = "idle" /\ err \notin Middle

\* Once the removal has declared the link dead, no late event, worker or
\* callback brings the modem back to life (mhi_pm.c: "while in L2 state,
\* user cannot jump back to L1 or L0 states").
DeadStaysDead ==
    [][down \notin {"no", "fatal"} /\ clean => pm' \in Ending \cup {"DISABLE"}]_vars

\* The removal returns: the holders of pm_mutex, the tasklet and the workers
\* it flushes never wait for it or for one another.
RemovalReturns == down = "fatal" ~> down = "done"

\* One fault, answered in time, is recovered from wherever it struck a booted
\* modem: also in the middle of a suspend, or in M3, where the registers
\* cannot be read and only the resume finds it.  (A fault during the boot
\* meets the ready transition of st_worker, which may take SYS_ERR_PROCESS to
\* POR before syserr_worker has reset the rings.)
Booting == st = "ready" \/ poll \/ "READY" \in {list[i] : i \in DOMAIN list}
Orderly == late = 0 /\ errors <= 1 /\ (mhi = "SYS_ERR" => ~Booting)
Recovers ==
    []Orderly => (mhi = "SYS_ERR" /\ ~asleep /\ powered
                    ~> (~powered \/ asleep \/ (mhi # "SYS_ERR" /\ pm \in Up)))
=============================================================================
