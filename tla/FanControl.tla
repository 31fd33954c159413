----------------------------- MODULE FanControl -----------------------------
(***************************************************************************)
(* The running fan daemon in user mode: one sampling thread per            *)
(* temperature source and the control loop, around the shared samples, the *)
(* PWM file and the kernel's control-mode file.  A step of time is one     *)
(* second and passes only while the loop sleeps: an iteration is a few     *)
(* sysfs accesses.  Sampling threads run at any moment, iterations         *)
(* included, and a sample may take several seconds.                        *)
(***************************************************************************)
EXTENDS FanPolicy

CONSTANTS
    NSources,       \* the configured sources, in the order of runtimes_
    Source,         \* their thresholds, ttl and poll
    Temps,          \* the readings a source may return
    ForeignPwm,     \* what the kernel governor may write to the PWM file
    MaxSampling,    \* bound: seconds one sample() may take
    MaxForeign      \* bound: times somebody else re-enables kernel control

ASSUME SourceAssumption ==
    /\ NSources \in Nat \ {0}
    /\ \A s \in 1 .. NSources :
        /\ Source[s].t_start \in Int /\ Source[s].t_full \in Int /\ Source[s].t_crit \in Int
        /\ Source[s].t_start < Source[s].t_full /\ Source[s].t_full <= Source[s].t_crit
        /\ Source[s].weight \in Nat \ {0} /\ Source[s].poll \in Nat \ {0}
        /\ Source[s].ttl \in Nat /\ Source[s].ttl >= Source[s].poll
ASSUME EnvAssumption == Temps \subseteq Int /\ ForeignPwm \subseteq Nat /\ MaxForeign \in Nat
\* ubus_invoke gives up after poll seconds, and validate_board_config keeps
\* poll <= ttl: a sample is not older than its ttl when it is stored.
ASSUME SamplingAssumption ==
    MaxSampling \in Nat /\ \A s \in 1 .. NSources : MaxSampling <= Source[s].ttl

Sources == 1 .. NSources

VARIABLES
    worker,     \* per source: "waiting" for its deadline or "sampling"
    took,       \* seconds since the running sample took its time stamp
    due,        \* seconds until next_deadline (negative: passed)
    last,       \* last_sample_: "none", "bad" or "ok"
    last_age,   \* its age in seconds, up to ttl + 1
    good,       \* is there a last_good_sample_?
    good_temp,  \* its temperature
    good_age,   \* its age in seconds, up to ttl + 1
    active,     \* active_state: the hysteresis flags
    loop,       \* the control loop: "enforce", "decide", "output", "sleep", "exited"
    next,       \* the source compute_target_decision looks at next
    target, critical, any_valid, any_timeout,   \* the decision being built
    current,    \* current_pwm
    up, down,   \* the ramp accumulator
    nap,        \* seconds the loop has slept
    pwm, mode,  \* the PWM file and the control-mode file
    stop,       \* g_stop
    foreign,    \* times kernel control was re-enabled from outside
    dir, moved, ticks,  \* history: the direction of the present run of iterations,
                        \* the PWM steps it made and its length
    uptime      \* history: seconds since the start, up to the largest ttl + 1

samples == <<last, last_age, good, good_temp, good_age>>
threads == <<worker, took, due>>
decision == <<next, target, critical, any_valid, any_timeout>>
ramp == <<up, down, dir, moved, ticks>>
vars == <<threads, samples, active, loop, decision, current, ramp, nap, pwm, mode,
          stop, foreign, uptime>>

WorkerType ==
    /\ worker \in [Sources -> {"waiting", "sampling"}]
    /\ took \in [Sources -> Nat]
    /\ due \in [Sources -> Int]
SampleType ==
    /\ last \in [Sources -> {"none", "bad", "ok"}]
    /\ last_age \in [Sources -> Nat]
    /\ good_temp \in [Sources -> Int]
    /\ good_age \in [Sources -> Nat]
FlagType ==
    /\ good \in [Sources -> BOOLEAN] /\ active \in [Sources -> BOOLEAN]
    /\ critical \in BOOLEAN /\ any_valid \in BOOLEAN /\ any_timeout \in BOOLEAN
    /\ stop \in BOOLEAN
LoopType ==
    /\ loop \in {"enforce", "decide", "output", "sleep", "exited"}
    /\ next \in 1 .. NSources + 1
    /\ nap \in 0 .. Interval
    /\ mode \in {"enabled", "disabled"}
    /\ foreign \in Nat /\ uptime \in Nat
PwmType ==
    /\ pwm \in Nat /\ current \in Nat
    /\ target \in PwmRange
    /\ up \in 0 .. RampUp - 1 /\ down \in 0 .. RampDown - 1
    /\ dir \in {"none", "up", "down"} /\ moved \in Nat /\ ticks \in Nat
\* Every variable keeps its type: the target stays inside the configured PWM
\* range and a credit never holds a whole PWM step.
TypeOK == WorkerType /\ SampleType /\ FlagType /\ LoopType /\ PwmType

\* BoardOwnershipGuard has set the mode, the startup PWM is written (or taken
\* for written when the PWM file could not be read), the threads are started,
\* and nothing has been sampled.
Init ==
    /\ worker = [s \in Sources |-> "waiting"]
    /\ took = [s \in Sources |-> 0]
    /\ due = [s \in Sources |-> 0]
    /\ last = [s \in Sources |-> "none"] /\ last_age = [s \in Sources |-> 0]
    /\ good = [s \in Sources |-> FALSE] /\ good_age = [s \in Sources |-> 0]
    /\ good_temp = [s \in Sources |-> Source[s].t_start]
    /\ active = [s \in Sources |-> FALSE]
    /\ loop = "enforce" /\ next = 1 /\ nap = 0
    /\ target = PwmMin /\ critical = FALSE /\ any_valid = FALSE /\ any_timeout = FALSE
    /\ current = PwmMin /\ pwm \in {PwmMin} \cup ForeignPwm /\ up = 0 /\ down = 0 
    /\ dir = "none" /\ moved = 0 /\ ticks = 0 /\ uptime = 0
    /\ mode = "disabled" /\ stop = FALSE /\ foreign = 0

-----------------------------------------------------------------------------
(* The sampling threads.                                                   *)

Younger(age, s) == IF age > Source[s].ttl THEN Source[s].ttl + 1 ELSE age

\* run_source_loop: the deadline after a sample, on the grid of poll.
NextDue(s) ==
    LET d == due[s] + Source[s].poll
    IN  IF d > 0 THEN d ELSE d + Source[s].poll * (((0 - d) \div Source[s].poll) + 1)

\* run_source_loop: the deadline is reached and the source is polled; sample()
\* takes its time stamp first.
sample(s) ==
    /\ worker[s] = "waiting" /\ due[s] <= 0 /\ loop # "exited"
    /\ worker' = [worker EXCEPT ![s] = "sampling"]
    /\ UNCHANGED <<took, due, samples, active, loop, decision, current, ramp, nap, pwm, mode,
                   stop, foreign, uptime>>

\* Back to waiting for the next deadline.
Rest(s) ==
    /\ worker[s] = "sampling"
    /\ worker' = [worker EXCEPT ![s] = "waiting"]
    /\ due' = [due EXCEPT ![s] = NextDue(s)]
    /\ took' = [took EXCEPT ![s] = 0]
    /\ UNCHANGED <<active, loop, decision, current, ramp, nap, pwm, mode, stop,
                   foreign, uptime>>

\* store_sample of a reading.
StoreGood(s) ==
    /\ Rest(s)
    /\ \E t \in Temps : good_temp' = [good_temp EXCEPT ![s] = t]
    /\ last' = [last EXCEPT ![s] = "ok"] /\ good' = [good EXCEPT ![s] = TRUE]
    /\ last_age' = [last_age EXCEPT ![s] = Younger(took[s], s)]
    /\ good_age' = [good_age EXCEPT ![s] = Younger(took[s], s)]

\* store_sample of a failure, or publish_failure with a time stamp of its own
\* when sample() threw.
StoreBad(s) ==
    /\ Rest(s)
    /\ last' = [last EXCEPT ![s] = "bad"]
    /\ \E age \in {Younger(took[s], s), 0} : last_age' = [last_age EXCEPT ![s] = age]
    /\ UNCHANGED <<good, good_temp, good_age>>

-----------------------------------------------------------------------------
(* The control loop.                                                       *)

\* while (!g_stop): an iteration starts by enforcing the control mode; a write
\* that fails throws out of run_board_mode.
Enforce ==
    /\ loop = "enforce"
    /\ \/ stop /\ loop' = "exited" /\ mode' = mode
       \/ ~stop /\ loop' = "decide" /\ mode' = "disabled"
       \/ ~stop /\ mode # "disabled" /\ loop' = "exited" /\ mode' = mode
    /\ UNCHANGED <<threads, samples, active, decision, current, ramp, nap, pwm, stop, foreign, uptime>>

\* Mutant: the age of the last sample, good or bad, decides.
TimedOutByLast(s) == last[s] # "none" /\ last_age[s] > Source[s].ttl

\* Has the source gone silent for longer than its ttl?
TimedOut(s) ==
    IF good[s] THEN good_age[s] > Source[s].ttl
               ELSE last[s] # "none" /\ last_age[s] > Source[s].ttl

\* compute_target_decision: one source of the loop over the sources.
Consider ==
    /\ loop = "decide" /\ next <= NSources
    /\ LET s == next
           usable == good[s] /\ ~TimedOut(s)
           temp == good_temp[s]
       IN  /\ any_timeout' = (any_timeout \/ TimedOut(s))
           /\ any_valid' = (any_valid \/ usable)
           /\ critical' = (critical \/ (usable /\ temp >= Source[s].t_crit))
           /\ active' = IF usable
                        THEN [active EXCEPT ![s] = SourceActive(Source[s], temp, active[s])]
                        ELSE active
           /\ target' = IF usable
                        THEN stronger_cooling_pwm(target,
                                 demand_from_source(Source[s], temp, active[s]))
                        ELSE target
    /\ next' = next + 1
    /\ UNCHANGED <<threads, samples, loop, current, ramp, nap, pwm, mode, stop, foreign, uptime>>

\* Mutant: nobody valid is left at the idle level.
SafetyIgnoresLoss ==
    clamp_pwm(IF critical THEN PwmMax
              ELSE IF any_timeout THEN stronger_cooling_pwm(target, clamp_pwm(FailsafePwm))
              ELSE target)

\* compute_target_decision: the safety rules, after the last source.
SafetyTarget ==
    LET forced == IF critical \/ ~any_valid THEN PwmMax ELSE target
    IN  clamp_pwm(IF any_timeout THEN stronger_cooling_pwm(forced, clamp_pwm(FailsafePwm))
                                 ELSE forced)
Decide ==
    /\ loop = "decide" /\ next > NSources
    /\ target' = SafetyTarget
    /\ loop' = "output"
    /\ UNCHANGED <<threads, samples, active, next, critical, any_valid, any_timeout,
                   current, ramp, nap, pwm, mode, stop, foreign, uptime>>

Distance(a, b) == IF a > b THEN a - b ELSE b - a

\* The direction of an iteration from PWM value p.
Direction(p) ==
    IF clamp_pwm(p) = target THEN "none"
    ELSE IF is_stronger_cooling_pwm(target, p) THEN "up" ELSE "down"

\* Read the PWM file (on a failed read the last known value stands), ramp
\* towards the target and write; a failed write throws.  The decision is local
\* to the iteration.
OutputFrom(p) ==
    LET res == apply_ramp(p, target, up, down)
        run == dir = Direction(p) /\ dir # "none"
    IN  /\ up' = res.up /\ down' = res.down
        /\ dir' = Direction(p)
        /\ moved' = (IF run THEN moved ELSE 0) + Distance(res.pwm, clamp_pwm(p))
        /\ ticks' = IF run THEN ticks + 1 ELSE 1
        /\ \/ loop' = "sleep" /\ current' = res.pwm
              /\ pwm' = IF res.pwm = p THEN pwm ELSE res.pwm
           \/ res.pwm # p /\ loop' = "exited" /\ current' = p /\ pwm' = pwm
Output ==
    /\ loop = "output"
    /\ \E p \in {pwm, current} : OutputFrom(p)
    /\ next' = 1 /\ target' = PwmMin
    /\ critical' = FALSE /\ any_valid' = FALSE /\ any_timeout' = FALSE
    /\ UNCHANGED <<threads, samples, active, nap, mode, stop, foreign, uptime>>

\* The loop sleeps in slices of a second and looks at g_stop after each.
Wake ==
    /\ loop = "sleep" /\ (nap = Interval \/ stop)
    /\ loop' = "enforce" /\ nap' = 0
    /\ UNCHANGED <<threads, samples, active, decision, current, ramp, pwm, mode,
                   stop, foreign, uptime>>

on_signal ==
    /\ ~stop /\ stop' = TRUE
    /\ UNCHANGED <<threads, samples, active, loop, decision, current, ramp, nap, pwm,
                   mode, foreign, uptime>>

-----------------------------------------------------------------------------
(* Time and the kernel.                                                    *)

\* A second passes.  A thread whose wait is over runs before the next one.
Tick ==
    /\ loop = "sleep" /\ nap < Interval
    /\ \A s \in Sources : IF worker[s] = "sampling" THEN took[s] < MaxSampling ELSE due[s] > 0
    /\ nap' = nap + 1
    /\ took' = [s \in Sources |-> IF worker[s] = "sampling" THEN took[s] + 1 ELSE took[s]]
    /\ due' = [s \in Sources |-> due[s] - 1]
    /\ last_age' = [s \in Sources |-> Younger(last_age[s] + 1, s)]
    /\ good_age' = [s \in Sources |-> Younger(good_age[s] + 1, s)]
    /\ uptime' = IF \E s \in Sources : uptime <= Source[s].ttl THEN uptime + 1 ELSE uptime
    /\ UNCHANGED <<worker, last, good, good_temp, active, loop, decision, current, ramp,
                   pwm, mode, stop, foreign>>

\* Somebody else hands the fan back to the kernel, whose governor then drives
\* the PWM file until the loop enforces the mode again.
Reenable ==
    /\ foreign < MaxForeign /\ mode = "disabled" /\ loop # "exited"
    /\ mode' = "enabled" /\ foreign' = foreign + 1
    /\ UNCHANGED <<threads, samples, active, loop, decision, current, ramp, nap, pwm, stop, uptime>>
Governor ==
    /\ mode = "enabled" /\ loop # "exited"
    /\ pwm' \in ForeignPwm \ {pwm}
    /\ UNCHANGED <<threads, samples, active, loop, decision, current, ramp, nap, mode,
                   stop, foreign, uptime>>

Next ==
    \/ \E s \in Sources : sample(s) \/ StoreGood(s) \/ StoreBad(s)
    \/ Enforce \/ Consider \/ Decide \/ Output \/ Wake \/ on_signal
    \/ Tick \/ Reenable \/ Governor

Spec == Init /\ [][Next]_vars

-----------------------------------------------------------------------------
(* Properties.                                                             *)

\* A source that did report and has been silent for longer than its ttl holds
\* the decision at FAILSAFE_PWM or stronger, whatever its failed samples, the
\* other sources and samples arriving during the decision do
\* (compute_target_decision).
LostSourceFailsafe ==
    loop = "output" =>
        \A s \in Sources : good[s] /\ good_age[s] > Source[s].ttl =>
            ~is_stronger_cooling_pwm(FailsafePwm, target)

\* However the target moves and whoever else writes the PWM file, a run of
\* iterations in one direction never moves the output faster than the whole
\* range per RAMP_UP (or RAMP_DOWN) seconds (apply_ramp and its credits).
RampLimited ==
    /\ dir = "up" => moved * RampUp <= ticks * Earned
    /\ dir = "down" => moved * RampDown <= ticks * Earned

\* The loop only ever writes a value between the (clamped) value it started
\* from and the target: it never overshoots and never leaves the PWM range.
NeverOvershoots ==
    [][loop = "output" /\ loop' = "sleep" =>
        \E p \in {pwm, current} :
            LET from == clamp_pwm(p)
            IN  IF from <= target THEN current' \in from .. target ELSE current' \in target .. from]_vars

Fresh(s) == good[s] /\ good_age[s] <= Source[s].ttl
Hot(s) == Fresh(s) /\ good_temp[s] >= Source[s].t_crit
Blind == \A s \in Sources : ~Fresh(s)

\* The threads are scheduled, time passes, samples end, and the PWM file can
\* be read again and again.
FairSpec ==
    /\ Spec
    /\ \A s \in Sources : WF_vars(sample(s)) /\ WF_vars(StoreGood(s) \/ StoreBad(s))
    /\ WF_vars(Enforce) /\ WF_vars(Consider) /\ WF_vars(Decide) /\ WF_vars(Wake) /\ WF_vars(Tick)
    /\ SF_vars(loop = "output" /\ OutputFrom(pwm) /\ Output)

\* A source that stays critical, or the loss of all sources, brings the fan to
\* full speed: the ramp's credits add up however small one iteration's share
\* is (run_board_mode, compute_target_decision, apply_ramp).
EmergencyReachesFull ==
    /\ \A s \in Sources : []([]Hot(s) => <>(pwm = PwmMax \/ loop = "exited"))
    /\ []([]Blind => <>(pwm = PwmMax \/ loop = "exited"))

\* The architecture notes' rule for a lost source, read over every source: one
\* whose polls fail and that has not reported for longer than its ttl, counting
\* from the start, holds the decision at FAILSAFE_PWM or stronger.
SilentSourceFailsafe ==
    loop = "output" =>
        \A s \in Sources :
            last[s] = "bad" /\ (IF good[s] THEN good_age[s] ELSE uptime) > Source[s].ttl =>
                ~is_stronger_cooling_pwm(FailsafePwm, target)
=============================================================================
