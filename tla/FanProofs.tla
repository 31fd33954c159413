------------------------------ MODULE FanProofs ------------------------------
(***************************************************************************)
(* The fan.  The daemon, for every configuration the validator accepts and *)
(* any number of sources: the target stays in the PWM range, the output    *)
(* keeps to the ramp and never passes its target, and a source that went   *)
(* silent holds the decision at the fail-safe level.  Its processes: one   *)
(* owner, its pidfile and the board it hands back, for any number of       *)
(* processes, kills and failing files.                                     *)
(***************************************************************************)
EXTENDS FanControl, FanOwnership, TLAPS

-----------------------------------------------------------------------------
(* The arithmetic of FanPolicy.                                            *)

LEMMA RangeFacts == /\ Lowest \in Nat /\ Highest \in Nat /\ Lowest <= Highest
                    /\ PwmMin \in PwmRange /\ PwmMax \in PwmRange
                    /\ Span \in Nat /\ Earned \in Nat
<1>1. Lowest \in Nat /\ Highest \in Nat /\ Lowest <= Highest
    BY PwmAssumption DEF Lowest, Highest
<1>2. PwmMin \in PwmRange /\ PwmMax \in PwmRange
    BY PwmAssumption DEF PwmRange, Lowest, Highest
<1>3. Span \in Nat
    BY <1>1 DEF Span
<1>4. Earned \in Nat
    BY <1>3, RampAssumption DEF Earned
<1> QED BY <1>1, <1>2, <1>3, <1>4, Zenon

LEMMA ClampFacts ==
    ASSUME NEW p \in Int
    PROVE  clamp_pwm(p) \in PwmRange /\ (p \in PwmRange => clamp_pwm(p) = p)
BY RangeFacts DEF clamp_pwm, PwmRange

LEMMA RangeIsNat == \A p \in PwmRange : p \in Nat
BY RangeFacts DEF PwmRange

LEMMA StrongerInRange ==
    ASSUME NEW p \in PwmRange, NEW q \in PwmRange
    PROVE  stronger_cooling_pwm(p, q) \in PwmRange
BY Zenon DEF stronger_cooling_pwm

LEMMA DemandInRange ==
    ASSUME NEW s \in Sources, NEW t \in Int, NEW a \in BOOLEAN
    PROVE  demand_from_source(Source[s], t, a) \in PwmRange
<1> DEFINE src == Source[s]
<1>1. /\ src.t_start \in Int /\ src.t_full \in Int /\ src.t_start < src.t_full
      /\ src.weight \in Nat
    BY SourceAssumption, Zenon DEF Sources
<1>2. ShareUnit(src) \in Nat \ {0}
    BY <1>1 DEF ShareUnit
<1>3. Share(src, t) \in Int
  <2> DEFINE reach == IF t <= src.t_start THEN 0
                      ELSE IF t >= src.t_full THEN src.t_full - src.t_start
                      ELSE t - src.t_start
  <2>1. reach \in Int
      BY <1>1
  <2>2. reach * src.weight \in Int
      BY <2>1, <1>1
  <2> HIDE DEF reach
  <2>3. Share(src, t) = IF reach * src.weight > ShareUnit(src) THEN ShareUnit(src)
                        ELSE reach * src.weight
      BY Zenon DEF Share, reach
  <2> QED BY <2>2, <2>3, <1>2
<1>4. Rounded(src, t) \in Int
  <2>1. 2 * Share(src, t) * Span + ShareUnit(src) \in Int
      BY <1>2, <1>3, RangeFacts
  <2>2. 2 * ShareUnit(src) \in Nat \ {0}
      BY <1>2
  <2> QED BY <2>1, <2>2 DEF Rounded
<1> HIDE DEF src
<1>5. PwmMin + Rounded(src, t) \in Int /\ PwmMin - Rounded(src, t) \in Int
    BY <1>4, PwmAssumption
<1>6. demand_from_source(src, t, a) \in PwmRange
    BY <1>5, ClampFacts, RangeFacts, Zenon DEF demand_from_source
<1> QED BY <1>6, Zenon DEF src

LEMMA SafetyInRange ==
    ASSUME target \in PwmRange
    PROVE  SafetyTarget \in PwmRange
<1>1. clamp_pwm(FailsafePwm) \in PwmRange
    BY PwmAssumption, ClampFacts
<1> DEFINE forced == IF critical \/ ~any_valid THEN PwmMax ELSE target
<1>2. forced \in PwmRange
    BY RangeFacts, Zenon
<1>3. stronger_cooling_pwm(forced, clamp_pwm(FailsafePwm)) \in PwmRange
    BY <1>1, <1>2, StrongerInRange, Zenon
<1> HIDE DEF forced
<1>4. SafetyTarget = clamp_pwm(IF any_timeout
          THEN stronger_cooling_pwm(forced, clamp_pwm(FailsafePwm)) ELSE forced)
    BY Zenon DEF SafetyTarget, forced
<1> QED BY <1>2, <1>3, <1>4, ClampFacts, RangeIsNat

LEMMA DivMod ==
    ASSUME NEW a \in Nat, NEW r \in Nat \ {0}
    PROVE  /\ a \div r \in Nat /\ a % r \in 0 .. r - 1
           /\ a = (a \div r) * r + (a % r)
OBVIOUS

LEMMA Credit ==
    ASSUME NEW c \in Nat, NEW r \in Nat \ {0}
    PROVE  /\ Bought(c, r) \in Nat /\ Kept(c, r) \in 0 .. r - 1
           /\ c + Earned = Bought(c, r) * r + Kept(c, r)
<1> DEFINE a == c + Earned
<1>1. a \in Nat
    BY RangeFacts
<1> HIDE DEF a
<1>2. a \div r \in Nat /\ a % r \in 0 .. r - 1 /\ a = (a \div r) * r + (a % r)
    BY <1>1, DivMod, Zenon
<1>3. Bought(c, r) = a \div r /\ Kept(c, r) = a % r /\ c + Earned = a
    BY Zenon DEF Bought, Kept, a
<1> QED BY <1>2, <1>3, Zenon

\* One iteration of the ramp from p: where it may end, what credit it leaves,
\* and what the move cost.
LEMMA RampStep ==
    ASSUME NEW p \in Nat, target \in PwmRange,
           up \in 0 .. RampUp - 1, down \in 0 .. RampDown - 1
    PROVE  LET res == apply_ramp(p, target, up, down)
               from == clamp_pwm(p)
           IN  /\ res.pwm \in Nat
               /\ IF from <= target THEN res.pwm \in from .. target
                                    ELSE res.pwm \in target .. from
               /\ res.up \in 0 .. RampUp - 1 /\ res.down \in 0 .. RampDown - 1
               /\ Distance(res.pwm, from) \in Nat
               /\ Direction(p) \in {"none", "up", "down"}
               /\ Direction(p) = "none" => res.up = 0 /\ res.down = 0
               /\ Direction(p) = "up" =>
                    res.down = 0 /\ Distance(res.pwm, from) * RampUp + res.up <= up + Earned
               /\ Direction(p) = "down" =>
                    res.up = 0 /\ Distance(res.pwm, from) * RampDown + res.down <= down + Earned
<1> DEFINE from == clamp_pwm(p)
           stronger == is_stronger_cooling_pwm(target, from)
           step == IF stronger THEN Bought(up, RampUp) ELSE Bought(down, RampDown)
           end == IF target > from THEN IF from + step < target THEN from + step ELSE target
                                   ELSE IF from - step > target THEN from - step ELSE target
           d == Distance(end, from)
<1>1. from \in Nat /\ from \in PwmRange /\ target \in Nat /\ clamp_pwm(target) = target
      /\ clamp_pwm(from) = from
    BY ClampFacts, RangeIsNat
<1>2. /\ Bought(up, RampUp) \in Nat /\ Kept(up, RampUp) \in 0 .. RampUp - 1
      /\ up + Earned = Bought(up, RampUp) * RampUp + Kept(up, RampUp)
    BY Credit, RampAssumption
<1>3. /\ Bought(down, RampDown) \in Nat /\ Kept(down, RampDown) \in 0 .. RampDown - 1
      /\ down + Earned = Bought(down, RampDown) * RampDown + Kept(down, RampDown)
    BY Credit, RampAssumption
<1>4. Direction(p) = IF from = target THEN "none" ELSE IF stronger THEN "up" ELSE "down"
    BY <1>1, Zenon DEF Direction, is_stronger_cooling_pwm
<1>5. CASE from = target
  <2>1. apply_ramp(p, target, up, down) = [pwm |-> from, up |-> 0, down |-> 0]
      BY <1>5, <1>1, Zenon DEF apply_ramp
  <2>2. Direction(p) = "none"
      BY <1>4, <1>5, Zenon
  <2> HIDE DEF from
  <2>3. Distance(from, from) = 0
      BY <1>1 DEF Distance
  <2> QED BY <2>1, <2>2, <2>3, <1>1, <1>5, RampAssumption DEF from
<1>6. CASE from # target
  <2>1. apply_ramp(p, target, up, down) =
            [pwm |-> end, up |-> IF stronger THEN Kept(up, RampUp) ELSE 0,
             down |-> IF stronger THEN 0 ELSE Kept(down, RampDown)]
      BY <1>6, <1>1, Zenon DEF apply_ramp
  <2>2. step \in Nat
      BY <1>2, <1>3, Zenon
  <2> HIDE DEF from, step, stronger
  <2>3. /\ end \in Nat /\ d \in Nat /\ d <= step
        /\ IF from <= target THEN end \in from .. target ELSE end \in target .. from
      BY <1>1, <2>2 DEF Distance
  <2> HIDE DEF end, d
  <2>4. Distance(end, from) = d
      BY Zenon DEF d
  <2>5. CASE stronger
    <3>1. step = Bought(up, RampUp)
        BY <2>5, Zenon DEF step
    <3>2. d * RampUp <= step * RampUp
        BY <2>2, <2>3, RampAssumption
    <3>3. d * RampUp + Kept(up, RampUp) <= up + Earned
      <4>1. d * RampUp \in Int /\ step * RampUp \in Int
          BY <2>2, <2>3, RampAssumption
      <4> QED BY <3>1, <3>2, <4>1, <1>2, RangeFacts
    <3> QED BY <2>1, <2>3, <2>4, <2>5, <3>3, <1>2, <1>4, <1>6, RampAssumption DEF from
  <2>6. CASE ~stronger
    <3>1. step = Bought(down, RampDown)
        BY <2>6, Zenon DEF step
    <3>2. d * RampDown <= step * RampDown
        BY <2>2, <2>3, RampAssumption
    <3>3. d * RampDown + Kept(down, RampDown) <= down + Earned
      <4>1. d * RampDown \in Int /\ step * RampDown \in Int
          BY <2>2, <2>3, RampAssumption
      <4> QED BY <3>1, <3>2, <4>1, <1>3, RangeFacts
    <3> QED BY <2>1, <2>3, <2>4, <2>6, <3>3, <1>3, <1>4, <1>6, RampAssumption, SMTT(60), Zenon
               DEF from
  <2> QED BY <2>5, <2>6, Zenon
<1> QED BY <1>5, <1>6, Zenon

-----------------------------------------------------------------------------
(* Type correctness.                                                       *)

LEMMA InitTypeOK == Init => TypeOK
<1> SUFFICES ASSUME Init PROVE TypeOK
    BY Zenon
<1>1. WorkerType
    BY DEF Init, WorkerType
<1>2. SampleType
  <2>1. \A s \in Sources : Source[s].t_start \in Int
      BY SourceAssumption, Zenon DEF Sources
  <2> QED BY <2>1, Zenon DEF Init, SampleType
<1>3. FlagType
    BY Zenon DEF Init, FlagType
<1>4. LoopType
    BY SourceAssumption, RampAssumption DEF Init, LoopType
<1>5. PwmType
    BY RangeFacts, RampAssumption, EnvAssumption, PwmAssumption DEF Init, PwmType
<1> QED BY <1>1, <1>2, <1>3, <1>4, <1>5, Zenon DEF TypeOK

LEMMA YoungerFacts ==
    ASSUME NEW s \in Sources, NEW n \in Nat
    PROVE  /\ Younger(n, s) \in Nat
           /\ n <= Source[s].ttl => Younger(n, s) <= Source[s].ttl
BY SourceAssumption DEF Younger, Sources

LEMMA NextDueType ==
    ASSUME NEW s \in Sources, WorkerType
    PROVE  NextDue(s) \in Int
<1>1. due[s] \in Int /\ Source[s].poll \in Nat \ {0}
    BY SourceAssumption, Zenon DEF WorkerType, Sources
<1> DEFINE d == due[s] + Source[s].poll
<1>2. d \in Int /\ 0 - d \in Int
    BY <1>1
<1> HIDE DEF d
<1>3. (0 - d) \div Source[s].poll \in Int
    BY <1>1, <1>2
<1>4. d + Source[s].poll * (((0 - d) \div Source[s].poll) + 1) \in Int
    BY <1>1, <1>2, <1>3
<1> QED BY <1>2, <1>4, Zenon DEF NextDue, d

LEMMA WorkerTypeStep == TypeOK /\ [Next]_vars => WorkerType'
<1> SUFFICES ASSUME TypeOK, [Next]_vars PROVE WorkerType'
    BY Zenon
<1> USE DEF TypeOK
<1>1. CASE UNCHANGED threads
    BY <1>1, Zenon DEF threads, WorkerType
<1>2. ASSUME NEW s \in Sources, sample(s) PROVE WorkerType'
    BY <1>2, Zenon DEF sample, WorkerType
<1>3. ASSUME NEW s \in Sources, Rest(s) PROVE WorkerType'
    BY <1>3, NextDueType, Zenon DEF Rest, WorkerType
<1>4. CASE Tick
  <2>1. \A s \in Sources : took[s] \in Nat /\ took[s] + 1 \in Nat /\ due[s] - 1 \in Int
      BY DEF WorkerType
  <2>2. took' \in [Sources -> Nat] /\ due' \in [Sources -> Int] /\ worker' = worker
      BY <1>4, <2>1, Zenon DEF Tick
  <2> QED BY <2>2, Zenon DEF WorkerType
<1> QED BY <1>1, <1>2, <1>3, <1>4, Zenon DEF Next, StoreGood, StoreBad, Enforce, Consider,
           Decide, Output, Wake, on_signal, Reenable, Governor, threads, vars

LEMMA SampleTypeStep == TypeOK /\ [Next]_vars => SampleType'
<1> SUFFICES ASSUME TypeOK, [Next]_vars PROVE SampleType'
    BY Zenon
<1> USE DEF TypeOK
<1>1. CASE UNCHANGED samples
    BY <1>1, Zenon DEF samples, SampleType
<1>2. ASSUME NEW s \in Sources, StoreGood(s) PROVE SampleType'
  <2>1. Younger(took[s], s) \in Nat
      BY YoungerFacts, Zenon DEF WorkerType
  <2> QED BY <1>2, <2>1, EnvAssumption, Zenon DEF StoreGood, SampleType
<1>3. ASSUME NEW s \in Sources, StoreBad(s) PROVE SampleType'
  <2>1. Younger(took[s], s) \in Nat
      BY YoungerFacts, Zenon DEF WorkerType
  <2> QED BY <1>3, <2>1 DEF StoreBad, SampleType
<1>4. CASE Tick
  <2>1. \A s \in Sources : /\ Younger(last_age[s] + 1, s) \in Nat
                            /\ Younger(good_age[s] + 1, s) \in Nat
      BY YoungerFacts, SMTT(60), Zenon DEF SampleType
  <2> QED BY <1>4, <2>1, Zenon DEF Tick, SampleType
<1> QED BY <1>1, <1>2, <1>3, <1>4, Zenon DEF Next, sample, Enforce, Consider, Decide, Output,
           Wake, on_signal, Reenable, Governor, samples, vars

LEMMA FlagTypeStep == TypeOK /\ [Next]_vars => FlagType'
<1> SUFFICES ASSUME TypeOK, [Next]_vars PROVE FlagType'
    BY Zenon
<1> USE DEF TypeOK
<1>1. CASE UNCHANGED <<good, active, critical, any_valid, any_timeout, stop>>
    BY <1>1, Zenon DEF FlagType
<1>2. ASSUME NEW s \in Sources, StoreGood(s) PROVE FlagType'
    BY <1>2, Zenon DEF StoreGood, Rest, FlagType, decision
<1>3. CASE Consider
  <2>1. \A s \in Sources : SourceActive(Source[s], good_temp[s], active[s]) \in BOOLEAN
      BY Zenon DEF SourceActive
  <2>2. active' \in [Sources -> BOOLEAN]
      BY <1>3, <2>1, Zenon DEF Consider, FlagType
  <2>3. /\ any_timeout' \in BOOLEAN /\ any_valid' \in BOOLEAN /\ critical' \in BOOLEAN
        /\ UNCHANGED <<good, stop>>
      BY <1>3, Zenon DEF Consider, samples
  <2> QED BY <2>2, <2>3, Zenon DEF FlagType
<1>4. CASE Output
    BY <1>4, Zenon DEF Output, FlagType, samples
<1>5. CASE on_signal
    BY <1>5, Zenon DEF on_signal, FlagType, samples, decision
<1> QED BY <1>1, <1>2, <1>3, <1>4, <1>5, Zenon DEF Next, sample, StoreBad, Rest, Enforce,
           Decide, Wake, Tick, Reenable, Governor, samples, decision, vars

LEMMA LoopTypeStep == TypeOK /\ [Next]_vars => LoopType'
<1> SUFFICES ASSUME TypeOK, [Next]_vars PROVE LoopType'
    BY Zenon
<1> USE RampAssumption, SourceAssumption DEF TypeOK, LoopType, decision
<1>1. CASE UNCHANGED <<loop, next, nap, mode, foreign, uptime>>
    BY <1>1, Zenon
<1>2. CASE Enforce
    BY <1>2, Zenon DEF Enforce
<1>3. CASE Consider
    BY <1>3, SMTT(60), Zenon DEF Consider
<1>4. CASE Decide
    BY <1>4, Zenon DEF Decide
<1>5. CASE Output
    BY <1>5 DEF Output, OutputFrom
<1>6. CASE Wake
  <2>1. loop' = "enforce" /\ nap' = 0 /\ UNCHANGED <<next, mode, foreign, uptime>>
      BY <1>6, Zenon DEF Wake
  <2>2. 0 \in 0 .. Interval
      OBVIOUS
  <2> QED BY <2>1, <2>2, Zenon
<1>7. CASE Tick
    BY <1>7, SMTT(60), Zenon DEF Tick
<1>8. CASE Reenable
    BY <1>8, SMTT(60), Zenon DEF Reenable
<1> QED BY <1>1, <1>2, <1>3, <1>4, <1>5, <1>6, <1>7, <1>8, Zenon DEF Next, sample, StoreGood,
           StoreBad, Rest, on_signal, Governor, vars

LEMMA ConsideredIsSource == TypeOK /\ Consider => next \in Sources
<1> SUFFICES ASSUME TypeOK, Consider PROVE next \in Sources
    BY Zenon
<1>1. next \in 1 .. NSources + 1 /\ next <= NSources
    BY Zenon DEF TypeOK, LoopType, Consider
<1> QED BY <1>1, SourceAssumption DEF Sources

LEMMA PwmTypeStep == TypeOK /\ [Next]_vars => PwmType'
<1> SUFFICES ASSUME TypeOK, [Next]_vars PROVE PwmType'
    BY Zenon
<1> USE DEF TypeOK
<1>1. CASE UNCHANGED <<pwm, current, target, ramp>>
    BY <1>1, Zenon DEF PwmType, ramp
<1>2. CASE Consider
  <2>0. next \in Sources
      BY <1>2, ConsideredIsSource, Zenon
  <2>1. good_temp[next] \in Int /\ active[next] \in BOOLEAN
      BY <2>0, Zenon DEF SampleType, FlagType
  <2>2. demand_from_source(Source[next], good_temp[next], active[next]) \in PwmRange
      BY <2>0, <2>1, DemandInRange, Zenon
  <2>3. target' \in PwmRange
      BY <1>2, <2>2, StrongerInRange, Zenon DEF Consider, PwmType
  <2> QED BY <1>2, <2>3, Zenon DEF Consider, PwmType, ramp
<1>3. CASE Decide
    BY <1>3, SafetyInRange, Zenon DEF Decide, PwmType, ramp
<1>4. CASE Output
  <2>1. PICK p \in {pwm, current} : OutputFrom(p)
      BY <1>4, Zenon DEF Output
  <2>2. p \in Nat
      BY Zenon DEF PwmType
  <2> DEFINE res == apply_ramp(p, target, up, down)
  <2>3. /\ res.pwm \in Nat /\ res.up \in 0 .. RampUp - 1 /\ res.down \in 0 .. RampDown - 1
        /\ Distance(res.pwm, clamp_pwm(p)) \in Nat /\ Direction(p) \in {"none", "up", "down"}
      BY <2>2, RampStep, Zenon DEF PwmType
  <2> HIDE DEF res
  <2>4. /\ up' = res.up /\ down' = res.down /\ dir' = Direction(p)
        /\ moved' \in Nat /\ ticks' \in Nat
        /\ current' \in {res.pwm, p} /\ pwm' \in {pwm, res.pwm}
      BY <2>1, <2>3, SMTT(60), Zenon DEF OutputFrom, PwmType, res
  <2>5. target' = PwmMin
      BY <1>4, Zenon DEF Output
  <2> QED BY <2>2, <2>3, <2>4, <2>5, RangeFacts, Zenon DEF PwmType
<1>5. CASE Governor
    BY <1>5, EnvAssumption, Zenon DEF Governor, PwmType, ramp, decision
<1> QED BY <1>1, <1>2, <1>3, <1>4, <1>5, Zenon DEF Next, sample, StoreGood, StoreBad, Rest,
           Enforce, Wake, on_signal, Tick, Reenable, decision, vars

\* Every behaviour is well typed: the target stays in the PWM range and a
\* credit never holds a whole step (compute_target_decision, apply_ramp).
THEOREM TypeCorrect == Spec => []TypeOK
<1>1. TypeOK /\ [Next]_vars => TypeOK'
    BY WorkerTypeStep, SampleTypeStep, FlagTypeStep, LoopTypeStep, PwmTypeStep, Zenon DEF TypeOK
<1> QED BY InitTypeOK, <1>1, PTL DEF Spec

-----------------------------------------------------------------------------
(* The ramp.                                                               *)

\* The credit not yet spent and the steps made are paid for by the iterations
\* of the run; the other direction holds no credit.
RampPaid ==
    /\ dir = "none" => up = 0 /\ down = 0
    /\ dir = "up" => down = 0 /\ moved * RampUp + up <= ticks * Earned
    /\ dir = "down" => up = 0 /\ moved * RampDown + down <= ticks * Earned

LEMMA Pays ==
    ASSUME NEW n \in Nat, NEW k \in Nat, NEW c \in Nat, NEW d \in Nat, NEW rest \in Nat,
           NEW r \in Nat, n * r + c <= k * Earned, d * r + rest <= c + Earned
    PROVE  (n + d) * r + rest <= (k + 1) * Earned
<1>1. (n + d) * r = n * r + d * r /\ (k + 1) * Earned = k * Earned + Earned
    BY RangeFacts
<1>2. n * r \in Int /\ d * r \in Int /\ k * Earned \in Int /\ Earned \in Int
    BY RangeFacts
<1> QED BY <1>1, <1>2

LEMMA RampPaidOutput == TypeOK /\ RampPaid /\ Output => RampPaid'
<1> SUFFICES ASSUME TypeOK, RampPaid, Output PROVE RampPaid'
    BY Zenon
<1>1. PICK p \in {pwm, current} : OutputFrom(p)
    BY Zenon DEF Output
<1> DEFINE res == apply_ramp(p, target, up, down)
           d == Distance(res.pwm, clamp_pwm(p))
           run == dir = Direction(p) /\ dir # "none"
<1>2. /\ res.up \in 0 .. RampUp - 1 /\ res.down \in 0 .. RampDown - 1 /\ d \in Nat
      /\ Direction(p) \in {"none", "up", "down"}
      /\ Direction(p) = "none" => res.up = 0 /\ res.down = 0
      /\ Direction(p) = "up" => res.down = 0 /\ d * RampUp + res.up <= up + Earned
      /\ Direction(p) = "down" => res.up = 0 /\ d * RampDown + res.down <= down + Earned
    BY RampStep, Zenon DEF TypeOK, PwmType
<1>3. /\ up' = res.up /\ down' = res.down /\ dir' = Direction(p)
      /\ moved' = (IF run THEN moved ELSE 0) + d /\ ticks' = IF run THEN ticks + 1 ELSE 1
    BY <1>1, Zenon DEF OutputFrom
<1> HIDE DEF res, d, run
<1>4. /\ up \in Nat /\ down \in Nat /\ moved \in Nat /\ ticks \in Nat
      /\ RampUp \in Nat /\ RampDown \in Nat /\ Earned \in Nat
      /\ res.up \in Nat /\ res.down \in Nat
    BY <1>2, RampAssumption, RangeFacts DEF TypeOK, PwmType
<1> DEFINE n == IF run THEN moved ELSE 0
           k == IF run THEN ticks ELSE 0
<1>5. n \in Nat /\ k \in Nat /\ moved' = n + d /\ ticks' = k + 1
    BY <1>3, <1>4
<1>6. ASSUME Direction(p) = "up" PROVE RampPaid'
  <2>1. n * RampUp + up <= k * Earned
    <3>1. CASE run
        BY <3>1, <1>6, Zenon DEF run, RampPaid
    <3>2. CASE ~run
      <4>1. up = 0
          BY <3>2, <1>6, Zenon DEF run, RampPaid, TypeOK, PwmType
      <4> QED BY <3>2, <4>1, <1>4
    <3> QED BY <3>1, <3>2, Zenon
  <2> HIDE DEF n, k
  <2>2. (n + d) * RampUp + res.up <= (k + 1) * Earned
      BY <2>1, <1>2, <1>4, <1>5, <1>6, Pays, Zenon
  <2> QED BY <2>2, <1>2, <1>3, <1>5, <1>6, Zenon DEF RampPaid
<1>7. ASSUME Direction(p) = "down" PROVE RampPaid'
  <2>1. n * RampDown + down <= k * Earned
    <3>1. CASE run
        BY <3>1, <1>7, Zenon DEF run, RampPaid
    <3>2. CASE ~run
      <4>1. down = 0
          BY <3>2, <1>7, Zenon DEF run, RampPaid, TypeOK, PwmType
      <4> QED BY <3>2, <4>1, <1>4
    <3> QED BY <3>1, <3>2, Zenon
  <2> HIDE DEF n, k
  <2>2. (n + d) * RampDown + res.down <= (k + 1) * Earned
      BY <2>1, <1>2, <1>4, <1>5, <1>7, Pays, Zenon
  <2> QED BY <2>2, <1>2, <1>3, <1>5, <1>7, Zenon DEF RampPaid
<1>8. CASE Direction(p) = "none"
    BY <1>8, <1>2, <1>3, Zenon DEF RampPaid
<1> QED BY <1>2, <1>6, <1>7, <1>8, Zenon

LEMMA RampPaidStep == TypeOK /\ RampPaid /\ [Next]_vars => RampPaid'
<1> SUFFICES ASSUME TypeOK, RampPaid, [Next]_vars PROVE RampPaid'
    BY Zenon
<1>1. CASE UNCHANGED ramp
    BY <1>1, Zenon DEF ramp, RampPaid
<1>2. CASE Output
    BY <1>2, RampPaidOutput, Zenon
<1> QED BY <1>1, <1>2, Zenon DEF Next, sample, StoreGood, StoreBad, Rest, Enforce, Consider,
           Decide, Wake, on_signal, Tick, Reenable, Governor, vars

\* The ramp is kept for every range, direction, ramp time and interval: k
\* iterations of a run move the output by at most Span * k * Interval / RAMP_UP
\* (apply_ramp).
THEOREM RampLimitedHolds == Spec => []RampLimited
<1>1. Init => RampPaid
    BY Zenon DEF Init, RampPaid
<1>2. TypeOK /\ RampPaid => RampLimited
  <2> SUFFICES ASSUME TypeOK, RampPaid PROVE RampLimited
      BY Zenon
  <2>1. /\ moved * RampUp \in Int /\ moved * RampDown \in Int /\ ticks * Earned \in Int
        /\ up >= 0 /\ down >= 0 /\ up \in Int /\ down \in Int
      BY RampAssumption, RangeFacts DEF TypeOK, PwmType
  <2> QED BY <2>1 DEF RampPaid, RampLimited
<1> QED BY <1>1, <1>2, TypeCorrect, RampPaidStep, PTL DEF Spec

\* Every write of the loop stays between where the output was and the target
\* (run_board_mode, apply_ramp).
THEOREM NeverOvershootsHolds == Spec => NeverOvershoots
<1>1. TypeOK /\ [Next]_vars => [loop = "output" /\ loop' = "sleep" =>
        \E p \in {pwm, current} :
            LET from == clamp_pwm(p)
            IN  IF from <= target THEN current' \in from .. target
                                  ELSE current' \in target .. from]_vars
  <2> SUFFICES ASSUME TypeOK, [Next]_vars, loop = "output", loop' = "sleep"
               PROVE  \E p \in {pwm, current} :
                          IF clamp_pwm(p) <= target THEN current' \in clamp_pwm(p) .. target
                                                    ELSE current' \in target .. clamp_pwm(p)
      BY Zenon
  <2>1. Output
      BY Zenon DEF Next, sample, StoreGood, StoreBad, Rest, Enforce, Consider, Decide, Wake,
         on_signal, Tick, Reenable, Governor, vars
  <2>2. PICK p \in {pwm, current} : OutputFrom(p)
      BY <2>1, Zenon DEF Output
  <2> DEFINE res == apply_ramp(p, target, up, down)
  <2>3. IF clamp_pwm(p) <= target THEN res.pwm \in clamp_pwm(p) .. target
                                  ELSE res.pwm \in target .. clamp_pwm(p)
      BY RampStep, Zenon DEF TypeOK, PwmType
  <2>4. current' = res.pwm
      BY <2>2, Zenon DEF OutputFrom
  <2> HIDE DEF res
  <2> QED BY <2>3, <2>4, Zenon
<1> QED BY <1>1, TypeCorrect, PTL DEF Spec, NeverOvershoots

-----------------------------------------------------------------------------
(* Lost sources.                                                           *)

Overdue(s) == good[s] /\ good_age[s] > Source[s].ttl

\* A source already considered that is overdue has been noticed: readings do
\* not age during an iteration and a stored one is within its ttl.
LostNoticed ==
    /\ \A s \in Sources : took[s] <= MaxSampling
    /\ loop \in {"enforce", "sleep"} => next = 1
    /\ loop = "decide" => \A s \in Sources : s < next /\ Overdue(s) => any_timeout
    /\ LostSourceFailsafe

LEMMA FailsafeKept ==
    ASSUME target \in PwmRange, any_timeout
    PROVE  ~is_stronger_cooling_pwm(FailsafePwm, SafetyTarget)
<1> DEFINE forced == IF critical \/ ~any_valid THEN PwmMax ELSE target
           safe == clamp_pwm(FailsafePwm)
<1>1. forced \in PwmRange /\ safe \in PwmRange
    BY RangeFacts, ClampFacts, PwmAssumption
<1>2. SafetyTarget = clamp_pwm(stronger_cooling_pwm(forced, safe))
    BY Zenon DEF SafetyTarget
<1>3. safe = clamp_pwm(FailsafePwm)
    BY Zenon
<1> HIDE DEF forced, safe
<1>4. clamp_pwm(forced) = forced /\ clamp_pwm(safe) = safe /\ forced \in Nat /\ safe \in Nat
    BY <1>1, ClampFacts, RangeIsNat
<1>5. SafetyTarget = stronger_cooling_pwm(forced, safe)
    BY <1>2, <1>4, Zenon DEF stronger_cooling_pwm
<1>6. clamp_pwm(SafetyTarget) = SafetyTarget
    BY <1>4, <1>5, Zenon DEF stronger_cooling_pwm
<1> QED BY <1>3, <1>4, <1>5, <1>6, PwmAssumption
        DEF is_stronger_cooling_pwm, stronger_cooling_pwm

LEMMA LostNoticedStep == TypeOK /\ LostNoticed /\ [Next]_vars => LostNoticed'
<1> SUFFICES ASSUME TypeOK, LostNoticed, [Next]_vars PROVE LostNoticed'
    BY Zenon
<1>0. \A s \in Sources : took[s] \in Nat /\ took[s] <= MaxSampling
    BY Zenon DEF LostNoticed, TypeOK, WorkerType
<1>1. CASE UNCHANGED <<took, loop, next, any_timeout, target, good, good_age>>
    BY <1>1, Zenon DEF LostNoticed, LostSourceFailsafe, Overdue
<1>2. ASSUME NEW s \in Sources, StoreGood(s) PROVE LostNoticed'
  <2>1. Younger(took[s], s) <= Source[s].ttl
    <3>1. took[s] <= Source[s].ttl
        BY <1>0, SamplingAssumption, SourceAssumption DEF Sources
    <3> QED BY <1>0, <3>1, YoungerFacts, Zenon
  <2>2. /\ UNCHANGED <<loop, next, any_timeout, target>>
        /\ took' = [took EXCEPT ![s] = 0]
        /\ good' = [good EXCEPT ![s] = TRUE]
        /\ good_age' = [good_age EXCEPT ![s] = Younger(took[s], s)]
      BY <1>2, Zenon DEF StoreGood, Rest, decision
  <2>3. Source[s].ttl \in Nat /\ Younger(took[s], s) \in Nat
      BY <1>0, YoungerFacts, SourceAssumption, Zenon DEF Sources
  <2>4. \A t \in Sources : Overdue(t)' => Overdue(t)
      BY <2>1, <2>2, <2>3 DEF Overdue, TypeOK, SampleType, FlagType
  <2>5. \A t \in Sources : took'[t] <= MaxSampling
    <3>1. 0 <= MaxSampling
        BY SamplingAssumption
    <3>2. took \in [Sources -> Nat]
        BY Zenon DEF TypeOK, WorkerType
    <3> QED BY <1>0, <2>2, <3>1, <3>2, Zenon
  <2> QED BY <2>2, <2>4, <2>5, Zenon DEF LostNoticed, LostSourceFailsafe, Overdue
<1>3. ASSUME NEW s \in Sources, StoreBad(s) PROVE LostNoticed'
  <2>1. UNCHANGED <<loop, next, any_timeout, target, good, good_age>>
      BY <1>3, Zenon DEF StoreBad, Rest, decision
  <2>2. \A t \in Sources : took'[t] <= MaxSampling
    <3>1. 0 <= MaxSampling
        BY SamplingAssumption
    <3>2. took \in [Sources -> Nat] /\ took' = [took EXCEPT ![s] = 0]
        BY <1>3, Zenon DEF TypeOK, WorkerType, StoreBad, Rest
    <3> QED BY <1>0, <3>1, <3>2, Zenon
  <2> QED BY <2>1, <2>2, Zenon DEF LostNoticed, LostSourceFailsafe, Overdue
<1>4. CASE Enforce
  <2>1. UNCHANGED <<took, next, any_timeout, target, good, good_age>> /\ loop' \in {"decide", "exited"}
        /\ loop = "enforce"
      BY <1>4, Zenon DEF Enforce, threads, samples, decision
  <2>2. \A s \in Sources : ~(s < next)
      BY <2>1 DEF LostNoticed, Sources
  <2> QED BY <2>1, <2>2, Zenon DEF LostNoticed, LostSourceFailsafe, Overdue
<1>5. CASE Consider
  <2>1. /\ UNCHANGED <<took, loop, good, good_age>> /\ loop = "decide"
        /\ next' = next + 1 /\ next \in Sources
        /\ any_timeout' = (any_timeout \/ TimedOut(next))
    <3>1. next \in Sources
        BY <1>5, ConsideredIsSource, Zenon
    <3> QED BY <1>5, <3>1, Zenon DEF Consider, threads, samples
  <2>2. \A s \in Sources : s < next + 1 => s < next \/ s = next
      BY <2>1 DEF Sources
  <2>3. Overdue(next) => TimedOut(next)
      BY Zenon DEF Overdue, TimedOut
  <2>4. \A s \in Sources : s < next' /\ Overdue(s) => any_timeout'
      BY <2>1, <2>2, <2>3, Zenon DEF LostNoticed
  <2>5. \A s \in Sources : Overdue(s)' = Overdue(s)
      BY <2>1, Zenon DEF Overdue
  <2> QED BY <2>1, <2>4, <2>5, Zenon DEF LostNoticed, LostSourceFailsafe
<1>6. CASE Decide
  <2>1. /\ UNCHANGED <<took, good, good_age>> /\ loop' = "output" /\ target' = SafetyTarget
        /\ loop = "decide" /\ next > NSources
      BY <1>6, Zenon DEF Decide, threads, samples
  <2>2. \A s \in Sources : s < next
      BY <2>1, SourceAssumption DEF Sources, TypeOK, LoopType
  <2>3. ASSUME NEW s \in Sources, Overdue(s)
        PROVE  ~is_stronger_cooling_pwm(FailsafePwm, target')
      BY <2>1, <2>2, <2>3, FailsafeKept, Zenon DEF LostNoticed, TypeOK, PwmType
  <2>4. LostSourceFailsafe'
    <3>1. (~is_stronger_cooling_pwm(FailsafePwm, target))' =
              ~is_stronger_cooling_pwm(FailsafePwm, target')
        BY Zenon DEF is_stronger_cooling_pwm, clamp_pwm, Lowest, Highest
    <3> QED BY <2>1, <2>3, <3>1, Zenon DEF LostSourceFailsafe, Overdue
  <2> QED BY <2>1, <2>4, Zenon DEF LostNoticed
<1>7. CASE Output
  <2>1. UNCHANGED <<took, good, good_age>> /\ loop' \notin {"decide", "output"} /\ next' = 1
      BY <1>7, Zenon DEF Output, OutputFrom, threads, samples
  <2> QED BY <2>1, Zenon DEF LostNoticed, LostSourceFailsafe
<1>8. CASE Wake
  <2>1. UNCHANGED <<took, good, good_age>> /\ loop' = "enforce" /\ loop = "sleep"
        /\ next' = next
      BY <1>8, Zenon DEF Wake, threads, samples, decision
  <2> QED BY <2>1, Zenon DEF LostNoticed, LostSourceFailsafe
<1>9. CASE Tick
  <2>1. loop' = loop /\ loop = "sleep" /\ next' = next
      BY <1>9, Zenon DEF Tick, decision
  <2>2. \A s \in Sources : took'[s] <= MaxSampling
      BY <1>9, <1>0, SamplingAssumption DEF Tick
  <2> QED BY <2>1, <2>2, Zenon DEF LostNoticed, LostSourceFailsafe
<1> QED BY <1>1, <1>2, <1>3, <1>4, <1>5, <1>6, <1>7, <1>8, <1>9, Zenon DEF Next, sample,
           on_signal, Reenable, Governor, threads, samples, decision, vars

\* A source that reported and went silent for longer than its ttl holds every
\* decision at FAILSAFE_PWM or stronger, for any number of sources and any
\* interleaving with the sampling threads (compute_target_decision).
THEOREM LostSourceFailsafeHolds == Spec => []LostSourceFailsafe
<1>1. Init => LostNoticed
  <2> SUFFICES ASSUME Init PROVE LostNoticed
      BY Zenon
  <2>1. loop = "enforce" /\ next = 1 /\ took = [s \in Sources |-> 0]
      BY Zenon DEF Init
  <2>2. 0 <= MaxSampling
      BY SamplingAssumption
  <2> QED BY <2>1, <2>2, Zenon DEF LostNoticed, LostSourceFailsafe
<1>2. LostNoticed => LostSourceFailsafe
    BY Zenon DEF LostNoticed
<1> QED BY <1>1, <1>2, TypeCorrect, LostNoticedStep, PTL DEF Spec

-----------------------------------------------------------------------------
(* The owner of the fan: FanOwnership.                                     *)

Snapshot == [mode : Modes, enable : Enables]

\* The processes: where they are, what they loaded and what they saved.
ProcType ==
    /\ pc \in [Proc -> Steps] /\ cfg \in [Proc -> {"user", "kernel"}]
    /\ orig \in [Proc -> Snapshot]

\* Everything else.
RestType ==
    /\ lock \in Proc \cup {None} /\ pidfile \in Proc \cup {None}
    /\ board_mode \in Modes /\ enable \in Enables /\ speed \in {"min", "max"}
    /\ config \in {"user", "kernel"} /\ wanted \in BOOLEAN
    /\ kills \in 0 .. MaxKills /\ fails \in 0 .. MaxFails
    /\ found \in Snapshot /\ cause \subseteq Causes

\* A process past the flock holds the lock.
OwnersLock == \A p \in Proc : Owns(p) => lock = p

\* The enable file is only taken in user mode.
EnableIsForUser ==
    \A p \in Proc : pc[p] \in {"enable", "startup", "unenable"} => cfg[p] = "user"

\* What the owner saved, or has not touched or already restored, is what the
\* board was found with.
OwnerRemembers ==
    cause = {} => \A p \in Proc : Holds(p) =>
        /\ orig[p].mode = found.mode
        /\ IF pc[p] \in {"startup", "unenable"} \/ (pc[p] = "run" /\ cfg[p] = "user")
           THEN orig[p].enable = found.enable
           ELSE enable = found.enable

OwnInv ==
    /\ ProcType /\ RestType /\ OwnersLock /\ PidfileNamesOwner
    /\ EnableIsForUser /\ OwnerRemembers /\ HandsBack

-----------------------------------------------------------------------------

\* The board at boot is nobody's.
LEMMA OwnStarts == OwnInit => OwnInv
  <1> SUFFICES ASSUME OwnInit PROVE OwnInv BY Zenon
  <1>1. ProcType BY DEF OwnInit, ProcType, Steps, Snapshot, NoSnapshot, Modes, Enables
  <1>2. RestType
    <2>1. found \in Snapshot /\ enable \in Enables BY DEF OwnInit, Snapshot, Enables
    <2>2. kills \in 0 .. MaxKills /\ fails \in 0 .. MaxFails BY OwnershipAssumption DEF OwnInit
    <2> QED BY <2>1, <2>2, Zenon DEF OwnInit, RestType
  <1>3. \A p \in Proc : pc[p] = "off" BY Zenon DEF OwnInit
  <1>4. OwnersLock /\ PidfileNamesOwner /\ EnableIsForUser /\ OwnerRemembers
       BY <1>3, Zenon DEF OwnersLock, PidfileNamesOwner, EnableIsForUser, OwnerRemembers, Owns,
          Holds
  <1>5. HandsBack BY Zenon DEF OwnInit, HandsBack
  <1> QED BY <1>1, <1>2, <1>4, <1>5, Zenon DEF OwnInv

\* Every step keeps the types of the processes.
LEMMA ProcTypeStep == ASSUME ProcType, RestType, [OwnNext]_ownVars PROVE ProcType'
  <1> USE DEF Go, At, Ends, Saves
  <1>1. ASSUME NEW p \in Proc, Start(p) \/ Step(p) \/ Loop(p) \/ Stop(p) \/ Kill(p)
        PROVE  ProcType'
    <2>1. /\ orig[p] \in Snapshot /\ orig[p].mode \in Modes /\ orig[p].enable \in Enables
          /\ \A m \in Modes, e \in Enables : [mode |-> m, enable |-> e] \in Snapshot
          /\ NoSnapshot \in Snapshot
         BY DEF ProcType, Snapshot, NoSnapshot, Modes, Enables
    <2>2. orig' \in [Proc -> Snapshot]
         BY <1>1, <2>1, SMTT(60), Zenon DEF ProcType, RestType, Start, Step, Loop, Stop, Kill,
            TakeLock, WritePid, SetupMode, SetupEnable, StartupPwm, RestoreEnable,
            RestoreMode, RemovePid, Unlock, Modes, Enables
    <2>3. cfg' \in [Proc -> {"user", "kernel"}]
         BY <1>1, Zenon DEF ProcType, RestType, Start, Step, Loop, Stop, Kill, TakeLock,
            WritePid, SetupMode, SetupEnable, StartupPwm, RestoreEnable, RestoreMode,
            RemovePid, Unlock
    <2>4. pc' \in [Proc -> Steps]
         BY <1>1 DEF ProcType, Start, Step, Loop, Stop, Kill, TakeLock, WritePid, SetupMode,
            Steps,
            SetupEnable, StartupPwm, RestoreEnable, RestoreMode, RemovePid, Unlock
    <2> QED BY <2>2, <2>3, <2>4, Zenon DEF ProcType
  <1>2. CASE Service \/ Outside \/ UNCHANGED ownVars
       BY <1>2, Zenon DEF ProcType, Service, Outside, ownVars
  <1> QED BY <1>1, <1>2, Zenon DEF OwnNext

\* ... and of everything else.
LEMMA RestTypeStep == ASSUME ProcType, RestType, [OwnNext]_ownVars PROVE RestType'
  <1> USE OwnershipAssumption DEF Go, At, Ends, Fails, board, counts
  <1>1. ASSUME NEW p \in Proc, Start(p) \/ Step(p) \/ Loop(p) \/ Stop(p) \/ Kill(p)
        PROVE  RestType'
    <2>1. orig[p].mode \in Modes /\ orig[p].enable \in Enables /\ cfg[p] \in {"user", "kernel"}
         BY Zenon DEF ProcType, Snapshot
    <2>2. /\ lock' \in Proc \cup {None} /\ pidfile' \in Proc \cup {None}
          /\ config' \in {"user", "kernel"} /\ wanted' \in BOOLEAN /\ found' \in Snapshot
         BY <1>1, Zenon DEF RestType, Start, Step, Loop, Stop, Kill, TakeLock, WritePid,
            SetupMode, SetupEnable, StartupPwm, RestoreEnable, RestoreMode, RemovePid,
            Unlock
    <2>3. board_mode' \in Modes /\ enable' \in Enables /\ speed' \in {"min", "max"}
         BY <1>1, <2>1, SMTT(60), Zenon DEF RestType, Start, Step, Loop, Stop, Kill, TakeLock,
            WritePid, SetupMode, Modes, Enables, SetupEnable, StartupPwm,
            RestoreEnable, RestoreMode, RemovePid, Unlock, desired_control_mode_value
    <2>4. kills' \in 0 .. MaxKills /\ fails' \in 0 .. MaxFails
         BY <1>1, SMTT(60), Zenon DEF RestType, Start, Step, Loop, Stop, Kill, TakeLock,
            WritePid, SetupMode, SetupEnable, StartupPwm, RestoreEnable, RestoreMode,
            RemovePid, Unlock
    <2>5. cause' \subseteq Causes
         BY <1>1, Zenon DEF RestType, Start, Step, Loop, Stop, Kill, TakeLock, WritePid,
            SetupMode, Causes, SetupEnable, StartupPwm, RestoreEnable, RestoreMode,
            RemovePid, Unlock
    <2> QED BY <2>2, <2>3, <2>4, <2>5, Zenon DEF RestType
  <1>2. CASE Service BY <1>2, Zenon DEF RestType, Service
  <1>3. CASE Outside
    <2>1. board_mode' \in Modes /\ enable' \in Enables BY <1>3 DEF RestType, Outside, Enables
    <2>2. [mode |-> board_mode', enable |-> enable'] \in Snapshot BY <2>1, Zenon DEF Snapshot
    <2>3. found' \in Snapshot /\ cause' \subseteq Causes BY <1>3, <2>2, Zenon DEF RestType,
                                                            Outside
    <2> QED BY <1>3, <2>1, <2>3, Zenon DEF RestType, Outside
  <1>4. CASE UNCHANGED ownVars BY <1>4, Zenon DEF RestType, ownVars
  <1> QED BY <1>1, <1>2, <1>3, <1>4, Zenon DEF OwnNext

-----------------------------------------------------------------------------

\* A process past the flock is the only one, so the others hold nothing.
LEMMA OthersHoldNothing ==
    ASSUME OwnersLock, NEW p \in Proc, Owns(p)
    PROVE  \A q \in Proc \ {p} : ~Owns(q) /\ ~Holds(q)
  BY Zenon DEF OwnersLock, Owns, Holds, Steps

\* The lock, the pidfile and the enable file stay with their owner.
LEMMA OwnerStep ==
    ASSUME OwnInv, [OwnNext]_ownVars
    PROVE  OwnersLock' /\ PidfileNamesOwner' /\ EnableIsForUser'
  <1> USE DEF Go, At, Ends, Steps
  <1>1. ASSUME NEW p \in Proc, Start(p)
        PROVE  OwnersLock' /\ PidfileNamesOwner' /\ EnableIsForUser'
       BY <1>1 DEF OwnInv, ProcType, OwnersLock, PidfileNamesOwner, EnableIsForUser, Owns, Start
  <1>2. ASSUME NEW p \in Proc, TakeLock(p)
        PROVE  OwnersLock' /\ PidfileNamesOwner' /\ EnableIsForUser'
    <2>1. CASE pc'[p] = "pid"
      <3>1. lock = None /\ lock' = p /\ pc' = [pc EXCEPT ![p] = "pid"] /\ cfg' = cfg /\ pidfile' = pidfile
           BY <1>2, <2>1, Zenon DEF OwnInv, ProcType, TakeLock
      <3>2. \A q \in Proc : ~Owns(q) BY <3>1, OwnershipAssumption, Zenon DEF OwnInv, OwnersLock
      <3> QED BY <3>1, <3>2, Zenon DEF OwnInv, ProcType, OwnersLock, PidfileNamesOwner,
                 EnableIsForUser, Owns
    <2>2. CASE pc'[p] # "pid"
      <3>1. Ends(p) /\ UNCHANGED <<lock, pidfile>> BY <1>2, <2>2, Zenon DEF OwnInv, ProcType,
                                                      TakeLock
      <3> QED BY <3>1, Zenon DEF OwnInv, ProcType, OwnersLock, PidfileNamesOwner, EnableIsForUser,
                 Owns
    <2> QED BY <2>1, <2>2, Zenon
  <1>3. ASSUME NEW p \in Proc, Kill(p)
        PROVE  OwnersLock' /\ PidfileNamesOwner' /\ EnableIsForUser'
       BY <1>3, Zenon DEF OwnInv, ProcType, OwnersLock, PidfileNamesOwner, EnableIsForUser, Owns,
          Kill
  <1>4. ASSUME NEW p \in Proc, WritePid(p) \/ RemovePid(p) \/ Unlock(p)
        PROVE  OwnersLock' /\ PidfileNamesOwner' /\ EnableIsForUser'
    <2>1. \A q \in Proc \ {p} : ~Owns(q)
         BY <1>4, OthersHoldNothing, Zenon DEF OwnInv, Owns, WritePid, RemovePid, Unlock
    <2> QED BY <1>4, <2>1 DEF OwnInv, ProcType, OwnersLock, PidfileNamesOwner, EnableIsForUser,
       Owns,
           WritePid, RemovePid, Unlock
  <1>5. ASSUME NEW p \in Proc, \/ SetupMode(p) \/ SetupEnable(p) \/ StartupPwm(p) \/ Loop(p) \/ Stop(p)
                               \/ RestoreEnable(p) \/ RestoreMode(p)
        PROVE  OwnersLock' /\ PidfileNamesOwner' /\ EnableIsForUser'
    <2>1. lock' = lock /\ pidfile' = pidfile /\ cfg' = cfg
         BY <1>5, Zenon DEF SetupMode, SetupEnable, StartupPwm, Loop, Stop, RestoreEnable,
            RestoreMode
    <2>2. PICK s \in Steps : /\ pc' = [pc EXCEPT ![p] = s]
                             /\ s \notin {"off", "lock", "pid", "unlock"}
                             /\ s \in {"enable", "startup", "unenable"} => cfg[p] = "user"
         BY <1>5, Zenon DEF OwnInv, ProcType, EnableIsForUser, SetupMode, SetupEnable, StartupPwm,
            Loop, Stop, RestoreEnable, RestoreMode
    <2>3. Owns(p) /\ pc[p] \notin {"pid", "unlock"}
         BY <1>5, Zenon DEF Owns, SetupMode, SetupEnable, StartupPwm, Loop, Stop, RestoreEnable,
            RestoreMode
    <2> QED BY <2>1, <2>2, <2>3 DEF OwnInv, ProcType, OwnersLock, PidfileNamesOwner,
       EnableIsForUser, Owns
  <1>6. CASE Service \/ Outside \/ UNCHANGED ownVars
       BY <1>6, Zenon DEF OwnInv, OwnersLock, PidfileNamesOwner, EnableIsForUser, Owns, Service,
          Outside, ownVars
  <1> QED BY <1>1, <1>2, <1>3, <1>4, <1>5, <1>6, Zenon DEF OwnNext, Step

\* Before the board is taken: nobody holds it, and it is as it was found.
LEMMA SetupStep ==
    ASSUME OwnInv, ProcType', NEW p \in Proc, SetupMode(p) \/ SetupEnable(p) \/ StartupPwm(p)
    PROVE  OwnerRemembers' /\ HandsBack'
  <1> USE DEF Go, At, Saves
  <1>1. \A q \in Proc \ {p} : ~Holds(q)
       BY OthersHoldNothing, Zenon DEF OwnInv, Owns, Steps, SetupMode, SetupEnable, StartupPwm
  <1>2. \A q \in Proc \ {p} : ~Holds(q)'
       BY <1>1, Zenon DEF OwnInv, ProcType, Holds, SetupMode, SetupEnable, StartupPwm
  <1>3. found' = found /\ (cause' = {} => cause = {})
       BY Zenon DEF SetupMode, SetupEnable, StartupPwm
  <1>4. CASE SetupMode(p)
    <2>1. cause = {} => board_mode = found.mode /\ enable = found.enable
         BY <1>1, <1>4, Zenon DEF OwnInv, HandsBack, Holds, SetupMode
    <2>2. CASE pc'[p] = "unpid"
         BY <1>2, <1>3, <1>4, <2>1, <2>2, Zenon DEF OwnInv, ProcType, OwnerRemembers, HandsBack,
            Holds, SetupMode
    <2>3. CASE pc'[p] # "unpid"
      <3>1. /\ Holds(p)' /\ enable' = enable /\ (cause' = {} => orig'[p].mode = board_mode)
            /\ pc'[p] = "run" => cfg'[p] # "user"
            /\ pc'[p] \in {"enable", "run"}
           BY <1>4, <2>3 DEF OwnInv, ProcType, Holds, SetupMode
      <3> QED BY <1>2, <1>3, <2>1, <3>1, Zenon DEF OwnerRemembers, HandsBack
    <2> QED BY <2>2, <2>3, Zenon
  <1>5. CASE SetupEnable(p)
    <2>1. cause = {} => orig[p].mode = found.mode /\ enable = found.enable
         BY <1>5, Zenon DEF OwnInv, OwnerRemembers, Holds, SetupEnable
    <2>2. cause' = {} => /\ orig'[p].mode = orig[p].mode /\ orig'[p].enable = enable
                         /\ pc'[p] = "startup"
         BY <1>5 DEF OwnInv, ProcType, RestType, SetupEnable
    <2>3. cause' = {} => Holds(p)' BY <2>2, Zenon DEF Holds
    <2> QED BY <1>2, <1>3, <2>1, <2>2, <2>3, Zenon DEF OwnerRemembers, HandsBack
  <1>6. CASE StartupPwm(p)
    <2>1. /\ orig' = orig /\ cfg' = cfg /\ board_mode' = board_mode /\ enable' = enable
          /\ cause' = cause
          /\ pc'[p] \in {"run", "unenable"} /\ cfg[p] = "user"
         BY <1>6, Zenon DEF OwnInv, ProcType, EnableIsForUser, StartupPwm
    <2>2. cause = {} => orig[p].mode = found.mode /\ orig[p].enable = found.enable
         BY <1>6, Zenon DEF OwnInv, OwnerRemembers, Holds, StartupPwm
    <2>3. Holds(p)' BY <2>1, Zenon DEF Holds
    <2> QED BY <1>2, <1>3, <2>1, <2>2, <2>3, Zenon DEF OwnerRemembers, HandsBack
  <1> QED BY <1>4, <1>5, <1>6, Zenon

\* The loop, and the way out.
LEMMA RestoreStep ==
    ASSUME OwnInv, ProcType', NEW p \in Proc,
           Loop(p) \/ Stop(p) \/ RestoreEnable(p) \/ RestoreMode(p)
    PROVE  OwnerRemembers' /\ HandsBack'
  <1> USE DEF Go, At
  <1>1. \A q \in Proc \ {p} : ~Holds(q)
       BY OthersHoldNothing, Zenon DEF OwnInv, Owns, Steps, Loop, Stop, RestoreEnable, RestoreMode
  <1>2. \A q \in Proc \ {p} : ~Holds(q)'
       BY <1>1, Zenon DEF OwnInv, ProcType, Holds, Loop, Stop, RestoreEnable, RestoreMode
  <1>3. found' = found /\ orig' = orig /\ cfg' = cfg /\ (cause' = {} => cause = {})
       BY Zenon DEF Loop, Stop, RestoreEnable, RestoreMode
  <1>4. cause = {} => orig[p].mode = found.mode
       BY Zenon DEF OwnInv, OwnerRemembers, Holds, Loop, Stop, RestoreEnable, RestoreMode
  <1>5. CASE Loop(p) \/ Stop(p)
    <2>1. /\ enable' = enable /\ cfg[p] \in {"user", "kernel"}
          /\ cfg[p] = "user" => pc'[p] \in {"run", "unenable"}
          /\ cfg[p] = "kernel" => pc'[p] \in {"run", "unmode"}
         BY <1>5, Zenon DEF OwnInv, ProcType, Loop, Stop, board
    <2>2. cause = {} => IF cfg[p] = "user" THEN orig[p].enable = found.enable ELSE enable = found.enable
         BY <1>5, Zenon DEF OwnInv, OwnerRemembers, Holds, Loop, Stop
    <2>3. Holds(p)' BY <2>1, Zenon DEF Holds
    <2> QED BY <1>2, <1>3, <1>4, <2>1, <2>2, <2>3, Zenon DEF OwnerRemembers, HandsBack
  <1>6. CASE RestoreEnable(p)
    <2>1. pc'[p] = "unmode" /\ Holds(p)' BY <1>6, Zenon DEF OwnInv, ProcType, RestoreEnable, Holds
    <2>2. cause = {} => orig[p].enable = found.enable
         BY <1>6, Zenon DEF OwnInv, OwnerRemembers, Holds, RestoreEnable
    <2>3. cause' = {} => enable' = orig[p].enable BY <1>6, Zenon DEF RestoreEnable
    <2> QED BY <1>2, <1>3, <1>4, <2>1, <2>2, <2>3, Zenon DEF OwnerRemembers, HandsBack
  <1>7. CASE RestoreMode(p)
    <2>1. pc'[p] = "unpid" /\ ~Holds(p)' BY <1>7, Zenon DEF OwnInv, ProcType, RestoreMode, Holds
    <2>2. cause = {} => enable = found.enable
         BY <1>7, Zenon DEF OwnInv, OwnerRemembers, Holds, RestoreMode
    <2>3. enable' = enable /\ (cause' = {} => board_mode' = orig[p].mode) BY <1>7, Zenon
                                                                       DEF RestoreMode
    <2> QED BY <1>2, <1>3, <1>4, <2>1, <2>2, <2>3, Zenon DEF OwnerRemembers, HandsBack
  <1> QED BY <1>5, <1>6, <1>7, Zenon

\* Steps that leave the board alone, and the death of its owner.
LEMMA IdleStep ==
    ASSUME OwnInv, ProcType', NEW p \in Proc,
           Start(p) \/ TakeLock(p) \/ WritePid(p) \/ RemovePid(p) \/ Unlock(p) \/ Kill(p)
    PROVE  OwnerRemembers' /\ HandsBack'
  <1> USE DEF Go, At, Ends
  <1>1. /\ board_mode' = board_mode /\ enable' = enable /\ found' = found
        /\ cause' = {} => cause = {} /\ ~Holds(p)
       BY Zenon DEF Start, TakeLock, WritePid, RemovePid, Unlock, Kill, board, Holds
  <1>2. ~Holds(p)'
       BY Zenon DEF OwnInv, ProcType, Start, TakeLock, WritePid, RemovePid, Unlock, Kill, Holds
  <1>3. \A q \in Proc \ {p} : pc'[q] = pc[q] /\ cfg'[q] = cfg[q] /\ orig'[q] = orig[q]
       BY DEF OwnInv, ProcType, Start, TakeLock, WritePid, RemovePid, Unlock, Kill
  <1> QED BY <1>1, <1>2, <1>3, SMTT(60), Zenon DEF OwnInv, OwnerRemembers, HandsBack, Holds

\* Someone else at the board.
LEMMA OutsideStep ==
    ASSUME OwnInv, Service \/ Outside \/ UNCHANGED ownVars
    PROVE  OwnerRemembers' /\ HandsBack'
  <1>1. CASE Service \/ UNCHANGED ownVars
       BY <1>1, Zenon DEF OwnInv, OwnerRemembers, HandsBack, Holds, Service, ownVars, board
  <1>2. CASE Outside /\ \E p \in Proc : Holds(p)
    <2>1. enable' = enable /\ pc' = pc /\ cfg' = cfg /\ orig' = orig /\ found' = found /\ cause' = cause
         BY <1>2, Zenon DEF Outside
    <2> QED BY <1>2, <2>1, Zenon DEF OwnInv, OwnerRemembers, HandsBack, Holds
  <1>3. CASE Outside /\ ~\E p \in Proc : Holds(p)
    <2>1. found' = [mode |-> board_mode', enable |-> enable'] /\ \A p \in Proc : ~Holds(p)'
         BY <1>3, Zenon DEF Outside, Holds
    <2> QED BY <2>1, Zenon DEF OwnerRemembers, HandsBack
  <1> QED BY <1>1, <1>2, <1>3, Zenon

\* Every step keeps the invariant.
LEMMA OwnStep == OwnInv /\ [OwnNext]_ownVars => OwnInv'
  <1> SUFFICES ASSUME OwnInv, [OwnNext]_ownVars PROVE OwnInv' BY Zenon
  <1>1. ProcType' /\ RestType' BY ProcTypeStep, RestTypeStep, Zenon DEF OwnInv
  <1>2. OwnersLock' /\ PidfileNamesOwner' /\ EnableIsForUser' BY OwnerStep, Zenon
  <1>3. OwnerRemembers' /\ HandsBack'
       BY <1>1, SetupStep, RestoreStep, IdleStep, OutsideStep, Zenon DEF OwnNext, Step
  <1> QED BY <1>1, <1>2, <1>3, Zenon DEF OwnInv

\* The inductive invariant holds throughout.
THEOREM OwnInductive == OwnSpec => []OwnInv
  BY OwnStarts, OwnStep, PTL DEF OwnSpec

\* Every variable of the model keeps its type.
THEOREM OwnershipTypeCorrect == OwnSpec => []OwnTypeOK
  <1>1. OwnInv => OwnTypeOK BY Zenon DEF OwnInv, ProcType, RestType, OwnTypeOK, Snapshot
  <1> QED BY <1>1, OwnInductive, PTL

\* flock lets one process at a time past it, whoever is killed where: the
\* single writer of the PWM output.
THEOREM SingleWriterHolds == OwnSpec => []SingleWriter
  <1>1. OwnInv => SingleWriter BY Zenon DEF OwnInv, OwnersLock, SingleWriter
  <1> QED BY <1>1, OwnInductive, PTL

\* The pidfile names the owner from its writing to its removal.
THEOREM PidfileNamesOwnerHolds == OwnSpec => []PidfileNamesOwner
  <1>1. OwnInv => PidfileNamesOwner BY Zenon DEF OwnInv
  <1> QED BY <1>1, OwnInductive, PTL

\* A board nobody owns is as it was found, unless a kill or a failing file
\* kept its owner from restoring it.
THEOREM HandsBackHolds == OwnSpec => []HandsBack
  <1>1. OwnInv => HandsBack BY Zenon DEF OwnInv
  <1> QED BY <1>1, OwnInductive, PTL
==============================================================================
