---------------------------- MODULE FanOwnership ----------------------------
(***************************************************************************)
(* Who owns the board's fan.  A fancontrol process takes the instance      *)
(* lock, writes the pidfile, takes the thermal mode and the PWM enable     *)
(* from the kernel, runs its control loop (FanControl) and hands           *)
(* everything back in the order its guards are destroyed.  Several         *)
(* processes may be started, any of them may be killed at any step, and    *)
(* writes to the board may fail.                                           *)
(***************************************************************************)
EXTENDS Integers, FiniteSets

CONSTANTS
    Proc,           \* process ids
    None,           \* no process
    MaxKills,       \* bound: processes killed
    MaxFails,       \* bound: files that cannot be used and failing writes
    MaxTroubles     \* bound: kills and failures together

ASSUME OwnershipAssumption == None \notin Proc /\ {MaxKills, MaxFails, MaxTroubles} \subseteq Nat

VARIABLES
    lock,       \* the process that holds the flock of the pidfile's lock file
    pidfile,    \* the process the pidfile names
    board_mode, \* the board's control mode: "enabled" (kernel) or "disabled"
    enable,     \* pwmX_enable: 1 is manual, 0 and 2 are the kernel's
    speed,      \* the fan's speed: "min" or "max" cooling
    pc,         \* per process: where it is
    config,     \* control_mode in the configuration file
    cfg,        \* per process: the control_mode it loaded
    orig,       \* per process: the mode and enable its guard saved
    wanted,     \* does procd keep the service running?
    kills, fails,
    found,      \* history: what the board had when no fancontrol had changed it
    cause       \* history: why the board may not be as it was found

board == <<board_mode, enable, speed>>
counts == <<kills, fails>>
ownVars == <<lock, pidfile, board, pc, config, cfg, orig, wanted, counts, found, cause>>

Modes == {"enabled", "disabled"}
Enables == 0 .. 2
Steps == {"off", "lock", "pid", "mode", "enable", "startup", "run", "unenable", "unmode",
          "unpid", "unlock"}
Causes == {"killed", "setup", "restore"}
NoSnapshot == [mode |-> "enabled", enable |-> 0]

\* Every variable keeps its type.
OwnTypeOK ==
    /\ lock \in Proc \cup {None} /\ pidfile \in Proc \cup {None}
    /\ board_mode \in Modes /\ enable \in Enables /\ speed \in {"min", "max"}
    /\ pc \in [Proc -> Steps] /\ config \in {"user", "kernel"}
    /\ cfg \in [Proc -> {"user", "kernel"}]
    /\ orig \in [Proc -> [mode : Modes, enable : Enables]]
    /\ wanted \in BOOLEAN /\ kills \in 0 .. MaxKills /\ fails \in 0 .. MaxFails
    /\ found \in [mode : Modes, enable : Enables] /\ cause \subseteq Causes

OwnInit ==
    /\ lock = None /\ pidfile = None /\ wanted = FALSE /\ kills = 0 /\ fails = 0 /\ cause = {}
    /\ board_mode \in Modes /\ enable \in {0, 2} /\ speed \in {"min", "max"}
    /\ pc = [p \in Proc |-> "off"] /\ config \in {"user", "kernel"}
    /\ cfg = [p \in Proc |-> "user"] /\ orig = [p \in Proc |-> NoSnapshot]
    /\ found = [mode |-> board_mode, enable |-> enable]

-----------------------------------------------------------------------------
(* A process from its start to its control loop. *)

Go(p, s) == pc' = [pc EXCEPT ![p] = s]
At(p, s) == pc[p] = s

\* A process ends, and with it what it loaded and saved.
Ends(p) ==
    /\ Go(p, "off")
    /\ cfg' = [cfg EXCEPT ![p] = "user"] /\ orig' = [orig EXCEPT ![p] = NoSnapshot]

Fails == fails < MaxFails /\ kills + fails < MaxTroubles /\ fails' = fails + 1

\* The guard of p remembers what it will restore.
Saves(p, m, e) == orig' = [orig EXCEPT ![p] = [mode |-> m, enable |-> e]]

desired_control_mode_value(p) == IF cfg[p] = "user" THEN "disabled" ELSE "enabled"

\* procd starts the program while the service is wanted, also when an earlier
\* process is still on its way out; run_board_mode first asks whether the
\* board's files can be used.
Start(p) ==
    /\ At(p, "off") /\ wanted
    /\ \/ Go(p, "lock") /\ cfg' = [cfg EXCEPT ![p] = config] /\ UNCHANGED fails
       \/ Fails /\ UNCHANGED <<pc, cfg>>
    /\ UNCHANGED <<lock, pidfile, board, config, orig, wanted, kills, found, cause>>

\* Mutant: the result of flock is not looked at.
TakeLockAnyway(p) ==
    /\ At(p, "lock") /\ lock' = p /\ Go(p, "pid")
    /\ UNCHANGED <<pidfile, board, config, cfg, orig, wanted, counts, found, cause>>

\* InstanceLock: flock with LOCK_NB, or the lock file cannot be opened.
TakeLock(p) ==
    /\ At(p, "lock")
    /\ \/ lock = None /\ lock' = p /\ Go(p, "pid") /\ UNCHANGED <<cfg, orig, fails>>
       \/ lock # None /\ Ends(p) /\ UNCHANGED <<lock, fails>>
       \/ Fails /\ Ends(p) /\ UNCHANGED lock
    /\ UNCHANGED <<pidfile, board, config, wanted, kills, found, cause>>

\* Mutant: a process that cannot write its pidfile leaves the lock behind.
WritePidLeaks(p) ==
    /\ At(p, "pid")
    /\ \/ pidfile' = p /\ Go(p, "mode") /\ UNCHANGED fails
       \/ Fails /\ Go(p, "off") /\ UNCHANGED pidfile
    /\ UNCHANGED <<lock, board, config, cfg, orig, wanted, kills, found, cause>>

\* PidfileGuard; when it throws only the lock was taken, and the pidfile of a
\* dead process may have been emptied.
WritePid(p) ==
    /\ At(p, "pid")
    /\ \/ pidfile' = p /\ Go(p, "mode") /\ UNCHANGED fails
       \/ Fails /\ Go(p, "unlock") /\ pidfile' \in {pidfile, None}
    /\ UNCHANGED <<lock, board, config, cfg, orig, wanted, kills, found, cause>>

\* BoardPwmGuard, first half: the mode is saved and replaced; one that cannot
\* be read is taken for the kernel's.  The destructor does not run when the
\* constructor throws.
SetupMode(p) ==
    /\ At(p, "mode")
    /\ \/ /\ \/ Saves(p, board_mode, orig[p].enable) /\ UNCHANGED <<fails, cause>>
             \/ /\ Saves(p, "enabled", orig[p].enable)
                /\ Fails /\ cause' = cause \cup {"setup"}
          /\ board_mode' = desired_control_mode_value(p)
          /\ Go(p, IF cfg[p] = "user" THEN "enable" ELSE "run")
       \/ Fails /\ Go(p, "unpid") /\ UNCHANGED <<orig, board_mode, cause>>
    /\ UNCHANGED <<lock, pidfile, enable, speed, config, cfg, wanted, kills, found>>

\* BoardPwmGuard, second half, in user mode; 0 stands for an unreadable value.
SetupEnable(p) ==
    /\ At(p, "enable")
    /\ \/ /\ Saves(p, orig[p].mode, enable) /\ enable' = 1
          /\ Go(p, "startup") /\ UNCHANGED <<fails, cause>>
       \/ /\ Fails /\ cause' = cause \cup {"setup"}
          /\ \/ /\ Saves(p, orig[p].mode, 0) /\ enable' = 1
                /\ Go(p, "startup")
             \/ Go(p, "unpid") /\ UNCHANGED <<orig, enable>>
    /\ UNCHANGED <<lock, pidfile, board_mode, speed, config, cfg, wanted, kills, found>>

\* The fan starts at minimum cooling, unless its speed cannot be read; a
\* failing write unwinds every guard.
StartupPwm(p) ==
    /\ At(p, "startup")
    /\ \/ speed' = "min" /\ Go(p, "run") /\ UNCHANGED fails
       \/ Fails /\ pc' \in {[pc EXCEPT ![p] = s] : s \in {"run", "unenable"}} /\ UNCHANGED speed
    /\ UNCHANGED <<lock, pidfile, board_mode, enable, config, cfg, orig, wanted, kills, found,
                   cause>>

\* One round of the loop: the mode is enforced, the speed is set in user mode.
Loop(p) ==
    /\ At(p, "run")
    /\ \/ /\ board_mode' = desired_control_mode_value(p)
          /\ speed' \in IF cfg[p] = "user" THEN {"min", "max"} ELSE {speed}
          /\ UNCHANGED <<pc, fails>>
       \/ /\ Fails /\ Go(p, IF cfg[p] = "user" THEN "unenable" ELSE "unmode")
          /\ UNCHANGED <<board_mode, speed>>
    /\ UNCHANGED <<lock, pidfile, enable, config, cfg, orig, wanted, kills, found, cause>>

-----------------------------------------------------------------------------
(* The way out: guards are destroyed in the reverse order. *)

\* on_signal: the loop ends.
Stop(p) ==
    /\ At(p, "run")
    /\ Go(p, IF cfg[p] = "user" THEN "unenable" ELSE "unmode")
    /\ UNCHANGED <<lock, pidfile, board, config, cfg, orig, wanted, counts, found, cause>>

\* restore_board_pwm: a failing write is repeated and the fan set to maximum
\* cooling, as far as these writes succeed.
RestoreEnable(p) ==
    /\ At(p, "unenable")
    /\ \/ enable' = orig[p].enable /\ UNCHANGED <<fails, speed, cause>>
       \/ /\ Fails
          /\ \/ enable' = orig[p].enable /\ UNCHANGED cause
             \/ UNCHANGED enable /\ cause' = cause \cup {"restore"}
          /\ speed' \in {speed, "max"}
    /\ Go(p, "unmode")
    /\ UNCHANGED <<lock, pidfile, board_mode, config, cfg, orig, wanted, kills, found>>

\* Mutant: the kernel gets the fan whoever had it before.
RestoreToKernel(p) ==
    /\ At(p, "unmode") /\ board_mode' = "enabled" /\ Go(p, "unpid")
    /\ UNCHANGED <<lock, pidfile, enable, speed, config, cfg, orig, wanted, counts, found, cause>>

\* restore_board_control_mode, whose second attempt may succeed.
RestoreMode(p) ==
    /\ At(p, "unmode")
    /\ \/ board_mode' = orig[p].mode /\ (UNCHANGED fails \/ Fails)
          /\ UNCHANGED cause
       \/ Fails /\ cause' = cause \cup {"restore"} /\ UNCHANGED board_mode
    /\ Go(p, "unpid")
    /\ UNCHANGED <<lock, pidfile, enable, speed, config, cfg, orig, wanted, kills, found>>

RemovePid(p) ==
    /\ At(p, "unpid")
    /\ pidfile' = None /\ Go(p, "unlock")
    /\ UNCHANGED <<lock, board, config, cfg, orig, wanted, counts, found, cause>>

Unlock(p) ==
    /\ At(p, "unlock")
    /\ lock' = None /\ Ends(p)
    /\ UNCHANGED <<pidfile, board, config, wanted, counts, found, cause>>

-----------------------------------------------------------------------------
(* The environment. *)

\* Mutant: the lock is a file, which outlives its process.
KillKeepsLock(p) ==
    /\ ~At(p, "off") /\ kills < MaxKills /\ kills + fails < MaxTroubles
    /\ kills' = kills + 1 /\ Ends(p)
    /\ UNCHANGED <<lock, pidfile, board, config, wanted, fails, found, cause>>

\* SIGKILL or a power supply: the kernel drops the lock, the rest stays.
Kill(p) ==
    /\ ~At(p, "off") /\ kills < MaxKills /\ kills + fails < MaxTroubles
    /\ kills' = kills + 1
    /\ lock' = IF lock = p THEN None ELSE lock
    /\ cause' = IF pc[p] \in {"enable", "startup", "run", "unenable", "unmode"}
                THEN cause \cup {"killed"} ELSE cause
    /\ Ends(p)
    /\ UNCHANGED <<pidfile, board, config, wanted, fails, found>>

\* The service is started or stopped; its configuration is rewritten.
Service ==
    /\ \/ wanted' = ~wanted /\ UNCHANGED config
       \/ config' \in {"user", "kernel"} /\ UNCHANGED wanted
    /\ UNCHANGED <<lock, pidfile, board, pc, cfg, orig, counts, found, cause>>

Holds(p) == pc[p] \in {"enable", "startup", "run", "unenable", "unmode"}

\* Someone else sets the board's mode, or the kernel its enable.  What they
\* set while no fancontrol has the board is how the board is found.
Outside ==
    /\ \/ board_mode' \in Modes /\ UNCHANGED enable
       \/ enable' \in {0, 2} /\ (\A p \in Proc : ~Holds(p)) /\ UNCHANGED board_mode
    /\ IF \E p \in Proc : Holds(p)
       THEN UNCHANGED <<found, cause>>
       ELSE found' = [mode |-> board_mode', enable |-> enable'] /\ cause' = {}
    /\ UNCHANGED <<lock, pidfile, speed, pc, config, cfg, orig, wanted, counts>>

Step(p) ==
    \/ TakeLock(p) \/ WritePid(p) \/ SetupMode(p) \/ SetupEnable(p) \/ StartupPwm(p)
    \/ RestoreEnable(p) \/ RestoreMode(p) \/ RemovePid(p) \/ Unlock(p)

OwnNext ==
    \/ \E p \in Proc : Start(p) \/ Step(p) \/ Loop(p) \/ Stop(p) \/ Kill(p)
    \/ Service \/ Outside

OwnSpec == OwnInit /\ [][OwnNext]_ownVars

\* A process takes its steps; procd signals it when the service is not wanted
\* and starts it again while it is (respawn_retry is above the failures of a
\* run).
OwnFairSpec ==
    /\ OwnSpec
    /\ \A p \in Proc : /\ WF_ownVars(Step(p)) /\ WF_ownVars(~wanted /\ Stop(p))
                         /\ WF_ownVars(Start(p))

-----------------------------------------------------------------------------
(* Properties. *)

Owns(p) == pc[p] \in Steps \ {"off", "lock"}

\* ARCHITECTURE's single writer: of the processes that touch the pidfile or
\* the board only one is past the flock, whoever was killed before.
SingleWriter == \A p, q \in Proc : Owns(p) /\ Owns(q) => p = q

\* From the write of the pidfile until its removal it names the one owner:
\* no process on its way out removes the pidfile of its successor
\* (BoardOwnershipGuard declares the lock before the pidfile).
PidfileNamesOwner == \A p \in Proc : Owns(p) /\ pc[p] \notin {"pid", "unlock"} => pidfile = p

\* A board nobody owns is as it was found, unless an owner was killed, could
\* not restore it, or failed between the two halves of BoardPwmGuard.
HandsBack ==
    cause = {} /\ (\A p \in Proc : ~Holds(p)) => board_mode = found.mode /\ enable = found.enable

\* A board whose owner was killed has an owner again as long as the service
\* is wanted: the lock of a dead process keeps nobody out.
OwnedAgain == wanted ~> ((\E p \in Proc : Owns(p)) \/ ~wanted)

\* A service that is not wanted any more lets go of the board.
LetsGo == ~wanted ~> (wanted \/ lock = None)
=============================================================================
