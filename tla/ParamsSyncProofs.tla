-------------------------- MODULE ParamsSyncProofs --------------------------
(***************************************************************************)
(* The order in which parameters reach the agent, for any number of        *)
(* updates, registrations, retries and failures.                           *)
(***************************************************************************)
EXTENDS ParamsSync, TLAPS

\* A frame that was sent at once and that no later one has passed.
InOrder(f) == ~f.retried /\ ~f.overtaken

\* No frame in order carries less than what is before it.
Above(p, s) == \A j \in 1 .. Len(s) : InOrder(s[j]) => p <= s[j].params
Before(s, t) == \A i \in 1 .. Len(s) : Above(s[i].params, t)
Ascending(s) ==
    \A i, j \in 1 .. Len(s) : i < j /\ InOrder(s[j]) => s[i].params <= s[j].params
Below(s, p) == \A i \in 1 .. Len(s) : s[i].params <= p

\* The way of a frame: wire, dispatcher, execution queue, memory.
Pipeline ==
    /\ Ascending(jobs) /\ Ascending(arrived) /\ Ascending(wire)
    /\ Before(jobs, arrived) /\ Before(jobs, wire) /\ Before(arrived, wire)
    /\ Above(agent, jobs) /\ Above(agent, arrived) /\ Above(agent, wire)

\* Nothing on its way is newer than the store; what the partition is about to
\* send is what is stored.
Stored ==
    /\ agent <= saved /\ Below(jobs, saved) /\ Below(arrived, saved) /\ Below(wire, saved)
    /\ \A i \in 1 .. Len(rows) : rows[i].cmd.params <= saved
    /\ submit # Nothing => submit.cmd.params <= saved
    /\ submit.phase = "send" => submit.cmd.params = saved

\* The state of a command is decided before it is inserted.
Decision == submit.phase = "insert" => submit.state # "created"

\* Every resync was asked for by a registration.
Asked == resyncs <= registers

IInv == TypeOK /\ Decision /\ Asked /\ Pipeline /\ Stored

-----------------------------------------------------------------------------
(* Sequences of frames.                                                    *)

\* A frame at the end, newer than all or out of order.
LEMMA AppendFrame ==
    ASSUME NEW s \in Seq(Frame), NEW f \in Frame
    PROVE  /\ Append(s, f) \in Seq(Frame)
           /\ \A p : Below(s, p) /\ f.params <= p => Below(Append(s, f), p)
           /\ \A p : Above(p, s) /\ (InOrder(f) => p <= f.params) => Above(p, Append(s, f))
           /\ Ascending(s) /\ (InOrder(f) => Below(s, f.params)) => Ascending(Append(s, f))
           /\ \A t : Before(s, t) /\ Above(f.params, t) => Before(Append(s, f), t)
  <1>1. /\ Append(s, f) \in Seq(Frame) /\ Len(s) \in Nat /\ Len(Append(s, f)) = Len(s) + 1
        /\ \A i \in 1 .. Len(s) : Append(s, f)[i] = s[i]
        /\ Append(s, f)[Len(s) + 1] = f
       OBVIOUS
  <1>2. \A i \in 1 .. Len(s) + 1 : i \in 1 .. Len(s) \/ i = Len(s) + 1 BY <1>1
  <1>3. ASSUME NEW p, Below(s, p), f.params <= p PROVE Below(Append(s, f), p)
       BY <1>1, <1>2, <1>3, Zenon DEF Below
  <1>4. ASSUME NEW p, Above(p, s), InOrder(f) => p <= f.params PROVE Above(p, Append(s, f))
       BY <1>1, <1>2, <1>4, Zenon DEF Above
  <1>5. ASSUME Ascending(s), InOrder(f) => Below(s, f.params) PROVE Ascending(Append(s, f))
    <2> SUFFICES ASSUME NEW i \in 1 .. Len(s) + 1, NEW j \in 1 .. Len(s) + 1, i < j,
                        InOrder(Append(s, f)[j])
                 PROVE  Append(s, f)[i].params <= Append(s, f)[j].params
        BY <1>1, Zenon DEF Ascending
    <2>1. i \in 1 .. Len(s) BY <1>1
    <2>2. CASE j \in 1 .. Len(s) BY <1>1, <1>5, <2>1, <2>2, Zenon DEF Ascending
    <2>3. CASE j = Len(s) + 1 BY <1>1, <1>5, <2>1, <2>3, Zenon DEF Below
    <2> QED BY <1>2, <2>2, <2>3, Zenon
  <1>6. ASSUME NEW t, Before(s, t), Above(f.params, t) PROVE Before(Append(s, f), t)
       BY <1>1, <1>2, <1>6, Zenon DEF Before
  <1> QED BY <1>1, <1>3, <1>4, <1>5, <1>6, Zenon

\* A sequence that keeps some frames of another, in their order and not more
\* in order than they were.
Thinned(t, s) ==
    \E g \in [1 .. Len(t) -> 1 .. Len(s)] :
        /\ \A i, j \in 1 .. Len(t) : i < j => g[i] < g[j]
        /\ \A i \in 1 .. Len(t) : /\ t[i].params = s[g[i]].params
                                  /\ InOrder(t[i]) => InOrder(s[g[i]])

\* Thinning out keeps every order.
LEMMA ThinnedKeeps ==
    ASSUME NEW s, NEW t, Thinned(t, s)
    PROVE  /\ \A p : Below(s, p) => Below(t, p)
           /\ \A p : Above(p, s) => Above(p, t)
           /\ Ascending(s) => Ascending(t)
           /\ \A u : Before(s, u) => Before(t, u)
           /\ \A u : Before(u, s) => Before(u, t)
  <1>1. PICK g \in [1 .. Len(t) -> 1 .. Len(s)] :
           /\ \A i, j \in 1 .. Len(t) : i < j => g[i] < g[j]
           /\ \A i \in 1 .. Len(t) : t[i].params = s[g[i]].params /\ (InOrder(t[i]) => InOrder(s[g[i]]))
       BY Zenon DEF Thinned
  <1>2. \A p : Below(s, p) => Below(t, p) BY <1>1, Zenon DEF Below
  <1>3. \A p : Above(p, s) => Above(p, t) BY <1>1, Zenon DEF Above
  <1>4. Ascending(s) => Ascending(t) BY <1>1, Zenon DEF Ascending
  <1>5. \A u : Before(s, u) => Before(t, u) BY <1>1, Zenon DEF Before
  <1>6. \A u : Before(u, s) => Before(u, t) BY <1>3, Zenon DEF Before
  <1> QED BY <1>2, <1>3, <1>4, <1>5, <1>6, Zenon

\* The tail of a queue.
LEMMA TailThinned ==
    ASSUME NEW s \in Seq(Frame), s # <<>>
    PROVE  /\ Head(s) \in Frame /\ Tail(s) \in Seq(Frame) /\ Thinned(Tail(s), s)
           /\ Head(s) = s[1] /\ 1 \in 1 .. Len(s)
           /\ Ascending(s) => Above(Head(s).params, Tail(s))
  <1>1. /\ Head(s) = s[1] /\ Tail(s) \in Seq(Frame) /\ Len(Tail(s)) = Len(s) - 1
        /\ Len(s) \in Nat /\ 1 \in 1 .. Len(s) /\ s[1] \in Frame
        /\ \A i \in 1 .. Len(s) - 1 : Tail(s)[i] = s[i + 1] /\ i + 1 \in 1 .. Len(s) /\ 1 < i + 1
       OBVIOUS
  <1>2. Thinned(Tail(s), s)
    <2> DEFINE g == [i \in 1 .. Len(Tail(s)) |-> i + 1]
    <2>1. g \in [1 .. Len(Tail(s)) -> 1 .. Len(s)] BY <1>1, Zenon
    <2>2. \A i, j \in 1 .. Len(Tail(s)) : i < j => g[i] < g[j] BY <1>1
    <2>3. \A i \in 1 .. Len(Tail(s)) : Tail(s)[i] = s[g[i]] BY <1>1, Zenon
    <2> HIDE DEF g
    <2> QED BY <2>1, <2>2, <2>3, Zenon DEF Thinned
  <1>3. Ascending(s) => Above(Head(s).params, Tail(s)) BY <1>1, Zenon DEF Ascending, Above
  <1> QED BY <1>1, <1>2, <1>3, Zenon

\* What is left in the dispatcher when a worker has queued frame i.
Passed(s, i) ==
    [j \in 1 .. Len(s) - 1 |-> IF j < i THEN [s[j] EXCEPT !.overtaken = TRUE] ELSE s[j + 1]]

\* It is thinned out, and nothing in it that is in order is older than frame i.
LEMMA PassedThinned ==
    ASSUME NEW s \in Seq(Frame), NEW i \in 1 .. Len(s)
    PROVE  /\ Passed(s, i) \in Seq(Frame) /\ Thinned(Passed(s, i), s)
           /\ Ascending(s) => Above(s[i].params, Passed(s, i))
  <1> DEFINE t == Passed(s, i)
             n == Len(s) - 1
             g == [j \in 1 .. n |-> IF j < i THEN j ELSE j + 1]
  <1>1. Len(s) \in Nat /\ n \in Nat /\ \A j \in 1 .. Len(s) : s[j] \in Frame OBVIOUS
  <1>2. \A f \in Frame : /\ [f EXCEPT !.overtaken = TRUE] \in Frame
                         /\ [f EXCEPT !.overtaken = TRUE].params = f.params
                         /\ ~InOrder([f EXCEPT !.overtaken = TRUE])
       BY Zenon DEF Frame, InOrder
  <1>3. \A j \in 1 .. n : j \in 1 .. Len(s) /\ j + 1 \in 1 .. Len(s) BY <1>1
  <1>4. \A j \in 1 .. n : t[j] = IF j < i THEN [s[j] EXCEPT !.overtaken = TRUE] ELSE s[j + 1]
       BY Zenon DEF Passed
  <1>5. \A j \in 1 .. n : t[j] \in Frame BY <1>1, <1>2, <1>3, <1>4, Zenon
  <1>6. t \in Seq(Frame) /\ Len(t) = n
    <2>1. t \in [1 .. n -> Frame] BY <1>5, Zenon DEF Passed
    <2> HIDE DEF t, n
    <2> QED BY <1>1, <2>1
  <1> HIDE DEF t
  <1>7. Thinned(t, s)
    <2>1. g \in [1 .. Len(t) -> 1 .. Len(s)] BY <1>1, <1>6
    <2>2. \A j, k \in 1 .. Len(t) : j < k => g[j] < g[k] BY <1>1, <1>6
    <2>3. ASSUME NEW j \in 1 .. Len(t)
          PROVE  t[j].params = s[g[j]].params /\ (InOrder(t[j]) => InOrder(s[g[j]]))
      <3>1. CASE j < i
        <4>1. t[j] = [s[j] EXCEPT !.overtaken = TRUE] /\ g[j] = j /\ s[j] \in Frame
             BY <1>1, <1>3, <1>4, <1>6, <3>1, Zenon
        <4> QED BY <1>2, <4>1, Zenon
      <3>2. CASE ~(j < i)
        <4>1. t[j] = s[j + 1] /\ g[j] = j + 1 BY <1>4, <1>6, <3>2, Zenon
        <4> QED BY <4>1, Zenon
      <3> QED BY <3>1, <3>2, Zenon
    <2> HIDE DEF g
    <2> QED BY <2>1, <2>2, <2>3, Zenon DEF Thinned
  <1>8. ASSUME Ascending(s), NEW j \in 1 .. Len(t), InOrder(t[j]) PROVE s[i].params <= t[j].params
    <2>1. ~(j < i)
      <3> SUFFICES ASSUME j < i PROVE FALSE BY Zenon
      <3>1. t[j] = [s[j] EXCEPT !.overtaken = TRUE] /\ s[j] \in Frame BY <1>1, <1>3, <1>4, <1>6,
                                                                         Zenon
      <3> QED BY <1>2, <1>8, <3>1, Zenon
    <2>2. t[j] = s[j + 1] /\ j + 1 \in 1 .. Len(s) /\ i < j + 1
      <3>1. j \in 1 .. n BY <1>6, Zenon
      <3>2. t[j] = s[j + 1] /\ j + 1 \in 1 .. Len(s) BY <1>3, <1>4, <2>1, <3>1, Zenon
      <3>3. i < j + 1 BY <2>1
      <3> QED BY <3>2, <3>3, Zenon
    <2> QED BY <1>8, <2>2, Zenon DEF Ascending
  <1> QED BY <1>6, <1>7, <1>8, Zenon DEF Above, t

-----------------------------------------------------------------------------
(* Induction.                                                              *)

\* Nothing is on its way.
LEMMA InitIInv == Init => IInv
  <1> SUFFICES ASSUME Init PROVE IInv BY Zenon
  <1>1. TypeOK
    <2>1. /\ 0 \in Params /\ 0 \in 0 .. MaxRegisters /\ 0 \in 0 .. MaxFaults
          /\ <<>> \in Seq(Row) /\ <<>> \in Seq(Frame)
         BY ParamsSyncAssumption DEF Params
    <2> QED BY <2>1, Zenon DEF Init, TypeOK
  <1>2. Pipeline BY DEF Init, Pipeline, Ascending, Before, Above
  <1>3. Stored /\ Decision /\ Asked BY DEF Init, Stored, Decision, Asked, Below, Nothing
  <1> QED BY <1>1, <1>2, <1>3, Zenon DEF IInv

\* A command is a new one, or a parked one with one more retry.
LEMMA CommandFacts ==
    /\ \A p \in Params, x \in 1 .. MaxRetry : [params |-> p, retries |-> 0, max |-> x] \in Command
    /\ \A c \in Command : /\ c.params \in Params
                          /\ ~Exhausted(c) => [c EXCEPT !.retries = @ + 1] \in Command
                          /\ [c EXCEPT !.retries = @ + 1].params = c.params
  BY ParamsSyncAssumption DEF Command, Exhausted, Params

\* The types, one by one.
LEMMA TypeFacts ==
    ASSUME TypeOK
    PROVE  /\ saved \in Params /\ agent \in Params /\ saved \in Nat /\ agent \in Nat
           /\ resyncs \in 0 .. MaxRegisters /\ registers \in 0 .. MaxRegisters
           /\ faults \in 0 .. MaxFaults /\ online \in BOOLEAN
           /\ wire \in Seq(Frame) /\ arrived \in Seq(Frame) /\ jobs \in Seq(Frame)
           /\ rows \in Seq(Row) /\ due \in SUBSET DOMAIN rows
           /\ \A i \in DOMAIN rows : rows[i] \in Row /\ rows[i].cmd.params \in Params
           /\ \A f \in Frame : f.params \in Params /\ f.params \in Nat
  <1>1. saved \in Params /\ agent \in Params /\ rows \in Seq(Row) /\ due \in SUBSET DOMAIN rows
       BY Zenon DEF TypeOK
  <1>2. /\ resyncs \in 0 .. MaxRegisters /\ registers \in 0 .. MaxRegisters
        /\ faults \in 0 .. MaxFaults
       BY Zenon DEF TypeOK
  <1>3. online \in BOOLEAN /\ wire \in Seq(Frame) /\ arrived \in Seq(Frame) /\ jobs \in Seq(Frame)
       BY Zenon DEF TypeOK
  <1>4. \A n \in Params : n \in Nat BY ParamsSyncAssumption DEF Params
  <1>5. \A f \in Frame : f.params \in Params BY Zenon DEF Frame
  <1>6. \A r \in Row : r.cmd.params \in Params BY CommandFacts, Zenon DEF Row
  <1>7. \A i \in DOMAIN rows : rows[i] \in Row BY <1>1
  <1> QED BY <1>1, <1>2, <1>3, <1>4, <1>5, <1>6, <1>7, Zenon

\* The rows a step of the retry thread leaves.
LEMMA RowFacts ==
    ASSUME rows \in Seq(Row), NEW i \in DOMAIN rows, RetryProcesses(i)
    PROVE  /\ rows' \in Seq(Row) /\ DOMAIN rows' = DOMAIN rows
           /\ \A j \in DOMAIN rows : rows'[j].cmd.params = rows[j].cmd.params
  <1> DEFINE r == rows[i]
  <1>1. r \in Row OBVIOUS
  <1>2. r \in Row /\ r.cmd \in Command /\ r.state \in {"retry_pending", "dispatched", "ended"}
       BY <1>1, Zenon DEF Row
  <1>3. PICK q \in Row : rows' = [rows EXCEPT ![i] = q] /\ q.cmd.params = r.cmd.params
    <2>1. CASE \E st \in {"dispatched", "ended"} : Marks(i, st)
      <3>1. PICK st \in {"dispatched", "ended"} : Marks(i, st) BY <2>1, Zenon
      <3>2. [r EXCEPT !.state = st] \in Row /\ [r EXCEPT !.state = st].cmd = r.cmd BY <1>2,
                                                                                      Zenon
                                                                                      DEF Row
      <3> QED BY <3>1, <3>2, Zenon DEF Marks
    <2>2. CASE ~Exhausted(r.cmd) /\ rows' = [rows EXCEPT ![i].cmd.retries = @ + 1]
      <3> DEFINE d == [r.cmd EXCEPT !.retries = @ + 1]
      <3>1. d \in Command /\ d.params = r.cmd.params BY <1>2, <2>2, CommandFacts, Zenon
      <3>2. rows' = [rows EXCEPT ![i] = [r EXCEPT !.cmd = d]] BY <2>2, Zenon
      <3> HIDE DEF d
      <3>3. [r EXCEPT !.cmd = d] \in Row /\ [r EXCEPT !.cmd = d].cmd = d BY <1>2, <3>1, Zenon
                                                                            DEF Row
      <3> QED BY <3>1, <3>2, <3>3, Zenon
    <2> QED BY <2>1, <2>2, Zenon DEF RetryProcesses
  <1> QED BY <1>3

\* Every step keeps the types.
LEMMA TypeStep == ASSUME TypeOK, Decision, Asked, [Next]_vars PROVE TypeOK' /\ Asked'
  <1> USE ParamsSyncAssumption DEF service, device, counts
  <1>1. /\ \A p \in Params, r, o \in BOOLEAN : [params |-> p, retried |-> r, overtaken |-> o] \in Frame
        /\ \A f \in Frame : f.params \in Params
       BY Zenon DEF Frame
  <1>2. ASSUME NEW max \in AskedFor, Update(max) PROVE TypeOK'
    <2>1. saved' = saved + 1 /\ saved + 1 \in Params BY <1>2 DEF TypeOK, Update, Params
    <2>2. max \in 1 .. MaxRetry BY <1>2, Zenon
    <2>3. submit' \in Submission
         BY <1>2, <2>1, <2>2, CommandFacts, Zenon DEF Update, Submits, Submission
    <2> QED BY <1>2, <2>1, <2>3, Zenon DEF TypeOK, Update
  <1>3. ASSUME Resync PROVE TypeOK'
    <2>1. \/ submit' = submit
          \/ submit' \in Submission
      <3>1. [params |-> saved, retries |-> 0, max |-> 1] \in Command
        <4>1. saved \in Params /\ 1 \in 1 .. MaxRetry BY TypeFacts
        <4> QED BY <4>1, CommandFacts, Zenon
      <3>2. submit' = submit \/ Submits(saved, 1) BY <1>3, Zenon DEF Resync
      <3> QED BY <3>1, <3>2 DEF Submits, Submission
    <2>2. resyncs' \in 0 .. MaxRegisters BY <1>3 DEF TypeOK, Resync
    <2> QED BY <1>3, <2>1, <2>2, Zenon DEF TypeOK, Resync
  <1>4. ASSUME SubmitSends PROVE TypeOK'
    <2>1. submit \in Submission
         BY <1>4 DEF TypeOK, SubmitSends, Nothing
    <2>2. submit' \in Submission
         BY <1>4, <2>1, Zenon DEF SubmitSends, Decided, Submission
    <2>3. submit.cmd.params \in Params BY <2>1, CommandFacts, Zenon DEF Submission
    <2>4. \/ wire' = wire
          \/ wire' = Append(wire, [params |-> submit.cmd.params, retried |-> FALSE, overtaken |-> FALSE])
         BY <1>4, Zenon DEF SubmitSends, Send
    <2>5. wire' \in Seq(Frame)
      <3>1. [params |-> submit.cmd.params, retried |-> FALSE, overtaken |-> FALSE] \in Frame
           BY <1>1, <2>3, Zenon
      <3>2. wire \in Seq(Frame) BY TypeFacts, Zenon
      <3> QED BY <2>4, <3>1, <3>2, AppendFrame, Zenon
    <2>6. faults' = faults \/ (faults < MaxFaults /\ faults' = faults + 1) BY <1>4, Zenon DEF SubmitSends
    <2>7. faults' \in 0 .. MaxFaults BY <2>6, TypeFacts
    <2> QED BY <1>4, <2>2, <2>5, <2>7, Zenon DEF TypeOK, SubmitSends
  <1>5. ASSUME SubmitInserts PROVE TypeOK'
    <2>1. submit \in Submission
         BY <1>5 DEF TypeOK, SubmitInserts, Nothing
    <2>2. [state |-> submit.state, cmd |-> submit.cmd] \in Row
         BY <1>5, <2>1, Zenon DEF Row, Decision, SubmitInserts, Submission
    <2>3. /\ rows' = rows \/ rows' = Append(rows, [state |-> submit.state, cmd |-> submit.cmd])
          /\ faults' = faults \/ (faults < MaxFaults /\ faults' = faults + 1)
         BY <1>5, Zenon DEF SubmitInserts
    <2>4. faults' \in 0 .. MaxFaults BY <2>3, TypeFacts, SMTT(60), Zenon
    <2>5. rows' \in Seq(Row) /\ DOMAIN rows \subseteq DOMAIN rows'
      <3> DEFINE r == [state |-> submit.state, cmd |-> submit.cmd]
      <3>1. r \in Row /\ rows \in Seq(Row) /\ (rows' = rows \/ rows' = Append(rows, r))
           BY <2>2, <2>3, TypeFacts, Zenon
      <3> HIDE DEF r
      <3> QED BY <3>1
    <2>6. rows' \in Seq(Row) /\ DOMAIN rows \subseteq DOMAIN rows' /\ faults' \in 0 .. MaxFaults
         BY <2>4, <2>5, Zenon
    <2> QED BY <1>5, <2>6, Zenon DEF TypeOK, SubmitInserts
  <1>6. ASSUME RetryLists PROVE TypeOK' BY <1>6, Zenon DEF TypeOK, RetryLists, Parked
  <1>7. ASSUME NEW i \in due, RetryProcesses(i) PROVE TypeOK'
    <2>1. i \in DOMAIN rows /\ rows \in Seq(Row) BY Zenon DEF TypeOK
    <2>2. rows' \in Seq(Row) /\ DOMAIN rows' = DOMAIN rows BY <1>7, <2>1, RowFacts, Zenon
    <2>3. rows[i].cmd.params \in Params BY <2>1, TypeFacts, Zenon
    <2>4. \/ wire' = wire
          \/ wire' = Append(wire, [params |-> rows[i].cmd.params, retried |-> TRUE, overtaken |-> FALSE])
         BY <1>7, Zenon DEF RetryProcesses, Send
    <2>5. wire' \in Seq(Frame)
      <3>1. [params |-> rows[i].cmd.params, retried |-> TRUE, overtaken |-> FALSE] \in Frame
           BY <1>1, <2>3, Zenon
      <3>2. wire \in Seq(Frame) BY TypeFacts, Zenon
      <3> QED BY <2>4, <3>1, <3>2, AppendFrame, Zenon
    <2>6. faults' = faults \/ (faults < MaxFaults /\ faults' = faults + 1) BY <1>7, Zenon DEF RetryProcesses
    <2>7. faults' \in 0 .. MaxFaults /\ due' \subseteq due BY <1>7, <2>6, TypeFacts, SMTT(60) DEF RetryProcesses
    <2> QED BY <1>7, <2>2, <2>5, <2>7, Zenon DEF TypeOK, RetryProcesses
  <1>8. ASSUME Register PROVE TypeOK' BY <1>8 DEF TypeOK, Asked, Register
  <1>9. ASSUME NEW restarted \in BOOLEAN, Disconnect(restarted) PROVE TypeOK'
    <2>1. 0 \in Params /\ <<>> \in Seq(Frame) BY DEF Params
    <2> QED BY <1>9, <2>1, Zenon DEF TypeOK, Disconnect
  <1>10. ASSUME Arrives PROVE TypeOK' BY <1>10 DEF TypeOK, Arrives
  <1>11. ASSUME NEW i \in DOMAIN arrived, Queues(i) PROVE TypeOK'
    <2>1. arrived \in Seq(Frame) /\ i \in 1 .. Len(arrived) BY DEF TypeOK
    <2>2. arrived' \in Seq(Frame) BY <1>11, <2>1, PassedThinned, Zenon DEF Queues, Passed
    <2>3. jobs' \in Seq(Frame) BY <1>11, <2>1 DEF TypeOK, Queues
    <2> QED BY <1>11, <2>2, <2>3, Zenon DEF TypeOK, Queues
  <1>12. ASSUME Applies PROVE TypeOK'
    <2>1. Head(jobs) \in Frame /\ Tail(jobs) \in Seq(Frame) BY <1>12 DEF TypeOK, Applies
    <2> QED BY <1>1, <1>12, <2>1, Zenon DEF TypeOK, Applies
  <1>13. ASSUME UNCHANGED vars PROVE TypeOK' BY <1>13, Zenon DEF TypeOK, vars
  <1>14. Asked'
    <2>1. \/ resyncs' = resyncs /\ registers' = registers
          \/ resyncs' = resyncs - 1 /\ registers' = registers
          \/ resyncs' = resyncs + 1 /\ registers' = registers + 1
         BY Zenon DEF Next, vars, Update, Resync, SubmitSends, SubmitInserts, RetryLists,
            RetryProcesses, Register, Disconnect, Arrives, Queues, Applies
    <2> QED BY <2>1, TypeFacts DEF Asked
  <1> QED BY <1>14, <1>2, <1>3, <1>4, <1>5, <1>6, <1>7, <1>8, <1>9, <1>10, <1>11, <1>12, <1>13,
             Zenon DEF Next

\* What was in order before a frame is sent is in order behind it.
LEMMA SendStep ==
    ASSUME TypeOK, Pipeline, Stored, NEW p \in Params, p <= saved, NEW r \in BOOLEAN,
           r \/ p = saved, Send(p, r), UNCHANGED <<saved, arrived, jobs, agent>>
    PROVE  Pipeline' /\ Below(wire', saved)
  <1> DEFINE f == [params |-> p, retried |-> r, overtaken |-> FALSE]
  <1>1. f \in Frame /\ wire \in Seq(Frame) /\ wire' = Append(wire, f) /\ f.params = p
        /\ (InOrder(f) => p = saved)
       BY Zenon DEF Frame, TypeOK, Send, InOrder
  <1> HIDE DEF f
  <1>2. Below(wire, saved) /\ Below(jobs, saved) /\ Below(arrived, saved) /\ agent <= saved
       BY Zenon DEF Stored
  <1>3. Below(wire', saved) BY <1>1, <1>2, AppendFrame, Zenon
  <1>4. Ascending(wire') BY <1>1, <1>2, AppendFrame, Zenon DEF Pipeline
  <1>5. \A q : Above(q, wire) /\ q <= saved => Above(q, wire') BY <1>1, AppendFrame, Zenon
  <1>6. Before(jobs, wire') /\ Before(arrived, wire') /\ Above(agent, wire')
       BY <1>2, <1>5, Zenon DEF Pipeline, Before, Below
  <1> QED BY <1>3, <1>4, <1>6, Zenon DEF Pipeline

\* The service's steps.
LEMMA ServiceStep ==
    ASSUME IInv, \/ \E max \in AskedFor : Update(max)
                 \/ Resync \/ SubmitSends \/ SubmitInserts \/ RetryLists
                 \/ \E i \in due : RetryProcesses(i)
    PROVE  Pipeline' /\ Stored' /\ Decision'
  <1> USE DEF service, device, counts
  <1>1. saved \in Nat /\ \A i \in 1 .. Len(rows) :
            rows[i].cmd.params \in Params /\ rows[i].cmd.params <= saved
       BY TypeFacts DEF IInv, Stored
  <1>2. /\ agent \in Nat /\ rows \in Seq(Row)
         /\ \A s \in {jobs, arrived, wire} : s \in Seq(Frame) /\ \A i \in 1 .. Len(s) : s[i].params \in Nat
       BY TypeFacts, SMTT(60) DEF IInv
  <1>3. ASSUME NEW max \in AskedFor, Update(max) PROVE Pipeline' /\ Stored' /\ Decision'
    <2>1. saved' = saved + 1 /\ UNCHANGED <<rows, device>> BY <1>3, Zenon DEF Update
    <2>2. Pipeline' BY <2>1, Zenon DEF IInv, Pipeline
    <2>3. submit'.cmd.params = saved + 1 /\ submit'.phase = "send" BY <1>3, Zenon DEF Update,
                                                                      Submits
    <2>4. \A s \in {jobs, arrived, wire} : Below(s, saved) => Below(s, saved + 1)
         BY <1>1, <1>2, SMTT(60) DEF Below
    <2>5. \A i \in 1 .. Len(rows) : rows[i].cmd.params <= saved + 1 BY <1>1 DEF Params
    <2>6. Stored' BY <1>1, <1>2, <2>1, <2>3, <2>4, <2>5, SMTT(60), Zenon DEF IInv, Stored
    <2> QED BY <2>2, <2>3, <2>6, Zenon DEF Decision
  <1>4. CASE Resync
    <2>1. UNCHANGED <<saved, rows, device>> BY <1>4, Zenon DEF Resync
    <2>2. Pipeline' BY <2>1, Zenon DEF IInv, Pipeline
    <2>3. \/ submit' = submit
          \/ submit'.phase = "send" /\ submit'.cmd.params = saved
         BY <1>4 DEF Resync, Submits
    <2>4. Stored' /\ Decision' BY <1>1, <2>1, <2>3 DEF IInv, Stored, Decision
    <2> QED BY <2>2, <2>4, Zenon
  <1>5. CASE SubmitSends
    <2>1. submit \in Submission
         BY <1>5 DEF IInv, TypeOK, SubmitSends, Nothing
    <2>2. submit.cmd.params = saved /\ submit.cmd.params \in Params
         BY <1>5, <2>1, CommandFacts, Zenon DEF IInv, Stored, SubmitSends, Submission
    <2>3. submit'.phase = "insert" /\ submit'.state # "created" /\ submit'.cmd = submit.cmd
         BY <1>5, <2>1, Zenon DEF SubmitSends, Decided, Submission
    <2>4. UNCHANGED <<saved, rows, arrived, jobs, agent>> BY <1>5, Zenon DEF SubmitSends
    <2>5. submit.cmd.params <= saved BY <1>1, <2>2
    <2>6. Pipeline' /\ Below(wire', saved)
      <3>1. CASE wire' = wire BY <2>4, <3>1, Zenon DEF IInv, Pipeline, Stored
      <3>2. CASE Send(submit.cmd.params, FALSE) BY <1>1, <2>2, <2>4, <2>5, <3>2, SendStep, Zenon DEF IInv
      <3> QED BY <1>5, <3>1, <3>2, Zenon DEF SubmitSends
    <2>7. Stored' BY <1>1, <2>2, <2>3, <2>4, <2>6 DEF IInv, Stored
    <2> QED BY <2>3, <2>6, <2>7, Zenon DEF Decision
  <1>6. CASE SubmitInserts
    <2>1. UNCHANGED <<saved, device>> /\ submit' = Nothing BY <1>6, Zenon DEF SubmitInserts
    <2>2. submit # Nothing /\ submit.cmd.params <= saved BY <1>6 DEF IInv, Stored, SubmitInserts, Nothing
    <2>3. \A i \in 1 .. Len(rows') : rows'[i].cmd.params <= saved
      <3>1. CASE rows' = rows BY <1>1, <3>1, Zenon
      <3>2. CASE rows' = Append(rows, [state |-> submit.state, cmd |-> submit.cmd])
        <4> DEFINE r == [state |-> submit.state, cmd |-> submit.cmd]
        <4>1. r.cmd.params <= saved BY <2>2, Zenon
        <4> HIDE DEF r
        <4>2. rows' = Append(rows, r) BY <3>2, Zenon DEF r
        <4> QED BY <1>1, <1>2, <4>1, <4>2
      <3> QED BY <1>6, <3>1, <3>2, Zenon DEF SubmitInserts
    <2>4. Pipeline' BY <2>1, Zenon DEF IInv, Pipeline
    <2>5. Stored' /\ Decision' BY <2>1, <2>3, Zenon DEF IInv, Stored, Decision, Nothing
    <2> QED BY <2>4, <2>5, Zenon
  <1>7. CASE RetryLists BY <1>7, Zenon DEF IInv, Pipeline, Stored, Decision, RetryLists
  <1>8. ASSUME NEW i \in due, RetryProcesses(i) PROVE Pipeline' /\ Stored' /\ Decision'
    <2>1. i \in DOMAIN rows /\ i \in 1 .. Len(rows) BY <1>2 DEF IInv, TypeOK
    <2>2. /\ rows' \in Seq(Row) /\ DOMAIN rows' = DOMAIN rows
          /\ \A j \in DOMAIN rows : rows'[j].cmd.params = rows[j].cmd.params
         BY <1>2, <1>8, <2>1, RowFacts, Zenon
    <2>3. 1 .. Len(rows') = DOMAIN rows /\ 1 .. Len(rows) = DOMAIN rows BY <1>2, <2>2
    <2>4. \A j \in 1 .. Len(rows') : rows'[j].cmd.params <= saved BY <1>1, <2>2, <2>3, Zenon
    <2>5. UNCHANGED <<saved, submit, arrived, jobs, agent>> BY <1>8, Zenon DEF RetryProcesses
    <2>6. Pipeline' /\ Below(wire', saved)
      <3>1. CASE wire' = wire BY <2>5, <3>1, Zenon DEF IInv, Pipeline, Stored
      <3>2. CASE Send(rows[i].cmd.params, TRUE) BY <1>1, <2>1, <2>5, <3>2, SendStep, Zenon DEF IInv
      <3> QED BY <1>8, <3>1, <3>2, Zenon DEF RetryProcesses
    <2>7. Stored' /\ Decision' BY <2>4, <2>5, <2>6, Zenon DEF IInv, Stored, Decision
    <2> QED BY <2>6, <2>7, Zenon
  <1> QED BY <1>3, <1>4, <1>5, <1>6, <1>7, <1>8, Zenon

\* The agent's steps.
LEMMA AgentStep ==
    ASSUME IInv, \/ Register \/ \E restarted \in BOOLEAN : Disconnect(restarted)
                 \/ Arrives \/ \E i \in DOMAIN arrived : Queues(i)
                 \/ Applies
    PROVE  Pipeline' /\ Stored' /\ Decision'
  <1> USE DEF service, counts
  <1>1. /\ saved \in Nat /\ agent \in Nat
        /\ jobs \in Seq(Frame) /\ arrived \in Seq(Frame) /\ wire \in Seq(Frame)
        /\ \A f \in Frame : f.params \in Nat
       BY TypeFacts, Zenon DEF IInv
  <1>2. UNCHANGED <<saved, rows, submit>>
       BY Zenon DEF Register, Disconnect, Arrives, Queues, Applies
  <1>3. Decision' /\ (Pipeline' /\ agent' <= saved /\ Below(jobs', saved) /\ Below(arrived', saved)
                       /\ Below(wire', saved) => Stored')
       BY <1>2, Zenon DEF IInv, Stored, Decision
  <1> DEFINE Kept == /\ Pipeline' /\ agent' <= saved
                     /\ Below(jobs', saved) /\ Below(arrived', saved) /\ Below(wire', saved)
  <1>4. ASSUME Register PROVE Kept
       BY <1>4, Zenon DEF IInv, Pipeline, Stored, Register
  <1>5. ASSUME NEW restarted \in BOOLEAN, Disconnect(restarted) PROVE Kept
    <2>1. wire' = <<>> BY <1>5, Zenon DEF Disconnect
    <2>2. \A s : Before(s, <<>>) /\ \A p : Above(p, <<>>) /\ Below(<<>>, p)
         BY DEF Before, Above, Below
    <2>3. Ascending(<<>>) BY DEF Ascending
    <2>4. \A s : Before(<<>>, s) BY DEF Before
    <2>5. CASE UNCHANGED <<arrived, jobs, agent>> BY <2>1, <2>2, <2>3, <2>5, Zenon DEF IInv,
                                                     Pipeline,
                                                     Stored
    <2>6. CASE arrived' = <<>> /\ jobs' = <<>> /\ agent' = 0
      <3>1. agent' <= saved BY <1>1, <2>6
      <3> QED BY <2>1, <2>2, <2>3, <2>4, <2>6, <3>1, Zenon DEF Pipeline
    <2> QED BY <1>5, <2>5, <2>6, Zenon DEF Disconnect
  <1>6. ASSUME Arrives PROVE Kept
    <2> DEFINE f == Head(wire)
    <2>1. wire # <<>> /\ wire' = Tail(wire) /\ arrived' = Append(arrived, f) /\ UNCHANGED <<jobs, agent>>
         BY <1>6, Zenon DEF Arrives
    <2>2. /\ f \in Frame /\ Thinned(wire', wire) /\ f = wire[1] /\ 1 \in 1 .. Len(wire)
          /\ Above(f.params, wire')
         BY <1>1, <2>1, TailThinned, Zenon DEF IInv, Pipeline
    <2> HIDE DEF f
    <2>3. /\ Below(wire', saved) /\ Ascending(wire') /\ Before(jobs, wire') /\ Before(arrived, wire')
          /\ Above(agent, wire')
         BY <2>2, ThinnedKeeps, Zenon DEF IInv, Pipeline, Stored
    <2>4. /\ f.params <= saved
          /\ InOrder(f) => agent <= f.params /\ Below(jobs, f.params) /\ Below(arrived, f.params)
         BY <2>2, Zenon DEF IInv, Pipeline, Stored, Above, Before, Below
    <2>5. Below(arrived', saved) /\ Ascending(arrived') /\ Above(agent, arrived') /\ Before(arrived', wire')
         BY <1>1, <2>1, <2>2, <2>3, <2>4, AppendFrame, Zenon DEF IInv, Pipeline, Stored
    <2>6. Before(jobs, arrived')
      <3> SUFFICES ASSUME NEW i \in 1 .. Len(jobs) PROVE Above(jobs[i].params, arrived') BY
                                                                                            Zenon
                                                                                            DEF Before
      <3>1. Above(jobs[i].params, arrived) BY Zenon DEF IInv, Pipeline, Before
      <3>2. InOrder(f) => jobs[i].params <= f.params BY <2>4, Zenon DEF Below
      <3> QED BY <1>1, <2>1, <2>2, <3>1, <3>2, AppendFrame, Zenon
    <2> QED BY <2>1, <2>3, <2>5, <2>6, Zenon DEF IInv, Pipeline, Stored
  <1>7. ASSUME NEW i \in DOMAIN arrived, Queues(i) PROVE Kept
    <2> DEFINE f == arrived[i]
    <2>1. /\ i \in 1 .. Len(arrived) /\ f \in Frame /\ UNCHANGED <<wire, agent>>
          /\ arrived' = Passed(arrived, i)
         BY <1>1, <1>7 DEF Queues, Passed
    <2>2. Thinned(arrived', arrived) /\ Above(f.params, arrived')
         BY <1>1, <2>1, PassedThinned, Zenon DEF IInv, Pipeline
    <2>3. /\ Below(arrived', saved) /\ Ascending(arrived') /\ Before(jobs, arrived') /\ Before(arrived', wire)
          /\ Above(agent, arrived')
         BY <2>2, ThinnedKeeps, Zenon DEF IInv, Pipeline, Stored
    <2>4. /\ f.params <= saved /\ Above(f.params, wire)
          /\ InOrder(f) => agent <= f.params /\ Below(jobs, f.params)
         BY <2>1, Zenon DEF IInv, Pipeline, Stored, Above, Before, Below
    <2> HIDE DEF f
    <2>5. jobs' \in {jobs, Append(jobs, f)} BY <1>7, Zenon DEF Queues, f
    <2>6. CASE jobs' = jobs BY <2>1, <2>3, <2>6, Zenon DEF IInv, Pipeline, Stored
    <2>7. CASE jobs' = Append(jobs, f)
      <3>1. Below(jobs', saved) /\ Ascending(jobs') /\ Above(agent, jobs')
           BY <1>1, <2>1, <2>4, <2>7, AppendFrame, Zenon DEF IInv, Pipeline, Stored
      <3>2. Before(jobs', arrived') /\ Before(jobs', wire)
           BY <1>1, <2>1, <2>2, <2>3, <2>4, <2>7, AppendFrame, Zenon DEF IInv, Pipeline
      <3> QED BY <2>1, <2>3, <3>1, <3>2, Zenon DEF IInv, Pipeline, Stored
    <2> QED BY <2>5, <2>6, <2>7, Zenon
  <1>8. ASSUME Applies PROVE Kept
    <2>1. jobs # <<>> /\ jobs' = Tail(jobs) /\ agent' = Head(jobs).params /\ UNCHANGED <<wire, arrived>>
         BY <1>8, Zenon DEF Applies
    <2>2. /\ Thinned(jobs', jobs) /\ Head(jobs) = jobs[1] /\ 1 \in 1 .. Len(jobs)
          /\ Above(Head(jobs).params, jobs')
         BY <1>1, <2>1, TailThinned, Zenon DEF IInv, Pipeline
    <2>3. Below(jobs', saved) /\ Ascending(jobs') /\ Before(jobs', arrived) /\ Before(jobs', wire)
         BY <2>2, ThinnedKeeps, Zenon DEF IInv, Pipeline, Stored
    <2>4. agent' <= saved /\ Above(agent', jobs') /\ Above(agent', arrived) /\ Above(agent', wire)
         BY <2>1, <2>2, Zenon DEF IInv, Pipeline, Stored, Before, Below
    <2> QED BY <2>1, <2>3, <2>4, Zenon DEF IInv, Pipeline, Stored
  <1>9. Kept => Pipeline' /\ Stored' /\ Decision' BY <1>3, Zenon
  <1> HIDE DEF Kept
  <1> QED BY <1>4, <1>5, <1>6, <1>7, <1>8, <1>9, <1>3, Zenon

\* Every step keeps the invariant.
LEMMA NextIInv == IInv /\ [Next]_vars => IInv'
  <1> SUFFICES ASSUME IInv, [Next]_vars PROVE IInv' BY Zenon
  <1>1. TypeOK' /\ Asked' BY TypeStep, Zenon DEF IInv
  <1>2. CASE UNCHANGED vars
       BY <1>1, <1>2, Zenon DEF IInv, vars, service, device, Pipeline, Stored, Decision
  <1>3. CASE Next
    <2>1. Pipeline' /\ Stored' /\ Decision' BY <1>3, ServiceStep, AgentStep, Zenon DEF Next
    <2> QED BY <1>1, <2>1, Zenon DEF IInv
  <1> QED BY <1>2, <1>3, Zenon

\* The inductive invariant holds throughout.
THEOREM Inductive == Spec => []IInv
  BY InitIInv, NextIInv, PTL DEF Spec

\* Every variable keeps its type.
THEOREM TypeCorrect == Spec => []TypeOK
  <1>1. IInv => TypeOK BY Zenon DEF IInv
  <1> QED BY <1>1, Inductive, PTL

\* The agent, and every frame on its way to it, has parameters the store had
\* first.
THEOREM NeverAheadOfStoreHolds == Spec => []NeverAheadOfStore
  <1>1. IInv => NeverAheadOfStore
    <2> SUFFICES ASSUME IInv PROVE NeverAheadOfStore BY Zenon
    <2>1. \A s \in {wire, arrived, jobs} : s \in Seq(Frame) /\ Below(s, saved)
         BY TypeFacts, Zenon DEF IInv, Stored
    <2> QED BY <2>1 DEF IInv, Stored, NeverAheadOfStore, Below
  <1> QED BY <1>1, Inductive, PTL

\* An agent that stays connected goes back to older parameters only through a
\* retried or overtaken command.
THEOREM OlderOnlyIfOvertakenHolds == Spec => OlderOnlyIfOvertaken
  <1> DEFINE Older == agent' < agent /\ online' = online => Head(jobs).retried \/ Head(jobs).overtaken
  <1>1. ASSUME IInv, [Next]_vars PROVE Older
    <2> SUFFICES ASSUME agent' < agent, online' = online
                 PROVE  Head(jobs).retried \/ Head(jobs).overtaken
        BY Zenon
    <2>1. TypeOK /\ Above(agent, jobs) BY <1>1, Zenon DEF IInv, Pipeline
    <2>2. agent \in Nat /\ jobs \in Seq(Frame) /\ online \in BOOLEAN BY <2>1, TypeFacts, Zenon
    <2>3. Applies
      <3>1. agent' # agent BY <2>2
      <3> QED BY <1>1, <2>2, <3>1, Zenon DEF Next, vars, device, Update, Resync, SubmitSends,
              SubmitInserts, RetryLists,
              RetryProcesses, Register, Disconnect, Arrives, Queues
    <2>4. jobs # <<>> /\ agent' = Head(jobs).params BY <2>3, Zenon DEF Applies
    <2>5. Head(jobs) = jobs[1] /\ 1 \in 1 .. Len(jobs) /\ Head(jobs) \in Frame
         BY <2>2, <2>4, TailThinned, Zenon
    <2>6. Head(jobs).params \in Nat BY <2>1, <2>5, TypeFacts, Zenon
    <2>7. InOrder(jobs[1]) => agent <= jobs[1].params BY <2>1, <2>5, Zenon DEF Above
    <2> QED BY <2>2, <2>4, <2>5, <2>7, <2>6 DEF InOrder
  <1> QED BY <1>1, Inductive, PTL DEF Spec, OlderOnlyIfOvertaken
=============================================================================
