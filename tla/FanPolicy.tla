----------------------------- MODULE FanPolicy -----------------------------
(***************************************************************************)
(* The arithmetic of the fan daemon: cooling strength along                *)
(* PWM_MIN -> PWM_MAX (either numeric direction), the demand of one        *)
(* temperature source, and the ramp limiter.  The code computes demand and *)
(* credit in doubles; here both are exact: a demand is rounded half away   *)
(* from zero as std::lround does, and a credit is kept as its numerator    *)
(* over the ramp time.                                                     *)
(***************************************************************************)
EXTENDS Integers

CONSTANTS
    PwmMin, PwmMax,     \* PWM_MIN, PWM_MAX: weakest and strongest cooling
    FailsafePwm,        \* FAILSAFE_PWM
    Hysteresis,         \* HYSTERESIS_MC
    RampUp, RampDown,   \* RAMP_UP, RAMP_DOWN: seconds for the whole range
    Interval            \* INTERVAL: seconds between two iterations

\* validate_board_config: the ranges of config_spec.cpp that the proofs need.
ASSUME PwmAssumption == PwmMin \in Nat /\ PwmMax \in Nat /\ FailsafePwm \in Nat
ASSUME RampAssumption ==
    RampUp \in Nat \ {0} /\ RampDown \in Nat \ {0} /\ Interval \in Nat \ {0}
ASSUME HysteresisAssumption == Hysteresis \in Nat

Lowest == IF PwmMin < PwmMax THEN PwmMin ELSE PwmMax
Highest == IF PwmMin < PwmMax THEN PwmMax ELSE PwmMin
PwmRange == Lowest .. Highest
Span == Highest - Lowest

clamp_pwm(p) == IF p < Lowest THEN Lowest ELSE IF p > Highest THEN Highest ELSE p

is_stronger_cooling_pwm(candidate, baseline) ==
    IF PwmMax > PwmMin THEN clamp_pwm(candidate) > clamp_pwm(baseline)
                       ELSE clamp_pwm(candidate) < clamp_pwm(baseline)

stronger_cooling_pwm(lhs, rhs) == IF is_stronger_cooling_pwm(rhs, lhs) THEN rhs ELSE lhs

-----------------------------------------------------------------------------
\* A source's thresholds: src = [t_start, t_full, t_crit, weight, ttl, poll].

\* The share of the range a source asks for, as a numerator over ShareUnit.
ShareUnit(src) == (src.t_full - src.t_start) * 100
Share(src, temp) ==
    LET reach == IF temp <= src.t_start THEN 0
                 ELSE IF temp >= src.t_full THEN src.t_full - src.t_start
                 ELSE temp - src.t_start
        weighted == reach * src.weight
    IN  IF weighted > ShareUnit(src) THEN ShareUnit(src) ELSE weighted

\* std::lround(ratio * span), for the absolute value of span.
Rounded(src, temp) == (2 * Share(src, temp) * Span + ShareUnit(src)) \div (2 * ShareUnit(src))

\* The hysteresis flag after a reading.
SourceActive(src, temp, active) ==
    \/ temp >= src.t_crit
    \/ IF active THEN temp > src.t_start - Hysteresis
                 ELSE temp >= src.t_start + Hysteresis

demand_from_source(src, temp, active) ==
    IF temp >= src.t_crit THEN PwmMax
    ELSE IF ~SourceActive(src, temp, active) THEN PwmMin
    ELSE clamp_pwm(IF PwmMax > PwmMin THEN PwmMin + Rounded(src, temp)
                                      ELSE PwmMin - Rounded(src, temp))

-----------------------------------------------------------------------------
\* The ramp limiter.  credit is stronger_credit or weaker_credit in units of
\* 1/ramp: one iteration earns Span * Interval of them and ramp of them buy
\* one PWM step.
Earned == Span * Interval
\* Mutant: the step is rounded up.
BoughtRoundedUp(credit, ramp) == (credit + Earned + ramp - 1) \div ramp
Bought(credit, ramp) == (credit + Earned) \div ramp
Kept(credit, ramp) == (credit + Earned) % ramp

\* apply_ramp: the next PWM value, and the two credits it leaves behind.
apply_ramp(current, target, up, down) ==
    LET from == clamp_pwm(current)
        to == clamp_pwm(target)
        stronger == is_stronger_cooling_pwm(to, from)
        step == IF stronger THEN Bought(up, RampUp) ELSE Bought(down, RampDown)
    IN  IF from = to
        THEN [pwm |-> from, up |-> 0, down |-> 0]
        ELSE [pwm |-> IF to > from THEN IF from + step < to THEN from + step ELSE to
                                   ELSE IF from - step > to THEN from - step ELSE to,
              up |-> IF stronger THEN Kept(up, RampUp) ELSE 0,
              down |-> IF stronger THEN 0 ELSE Kept(down, RampDown)]
=============================================================================
