----------------------------- MODULE ParamsSync -----------------------------
(***************************************************************************)
(* The parameters of one agent: the control service merges an update into  *)
(* the stored parameters, saves them and sends the whole result to the     *)
(* agent in a params_set command.  The agent's partition submits updates   *)
(* and the resync of a registration, the retry thread sends what could not *)
(* be sent, and the agent's dispatcher hands commands to its execution     *)
(* queue from workers of their own.  A parameter set is the number of      *)
(* updates that are merged into it.                                        *)
(***************************************************************************)
EXTENDS Integers, Sequences

CONSTANTS
    MaxRetry,       \* the largest max_retry
    AskedFor,       \* the values of max_retry a browser asks for
    MaxUpdates,     \* bound: params.update actions
    MaxRegisters,   \* bound: registrations of the agent
    MaxFaults       \* bound: sends and inserts that fail

ASSUME ParamsSyncAssumption ==
    /\ MaxRetry \in Nat \ {0} /\ AskedFor \subseteq 1 .. MaxRetry
    /\ MaxUpdates \in Nat /\ MaxRegisters \in Nat
    /\ MaxFaults \in Nat

VARIABLES
    saved,      \* the parameters in the store
    rows,       \* stored params_set commands, in the order of their insertion
    submit,     \* the command the agent's partition submits, or Nothing
    resyncs,    \* resync tasks in the agent's partition
    due,        \* the rows a tick of the retry thread still has to process
    online,     \* is the agent registered on a connection?
    wire,       \* frames on that connection
    arrived,    \* frames the agent's dispatcher holds
    jobs,       \* the agent's execution queue
    agent,      \* the parameters in the agent's memory
    registers, faults

service == <<saved, rows, submit, resyncs, due>>
device == <<online, wire, arrived, jobs, agent>>
counts == <<registers, faults>>
vars == <<service, device, counts>>

Params == 0 .. MaxUpdates
Nothing == [phase |-> "none"]
Command == {c \in [params : Params, retries : 0 .. MaxRetry, max : 1 .. MaxRetry] :
                c.retries < c.max}
Submission ==
    [phase : {"send", "insert"}, state : {"created", "retry_pending", "dispatched"}, cmd : Command]
Row == [state : {"retry_pending", "dispatched", "ended"}, cmd : Command]
\* overtaken: the dispatcher has let a later frame past this one.
Frame == [params : Params, retried : BOOLEAN, overtaken : BOOLEAN]

\* Every variable keeps its type and every counter its bound.
TypeOK ==
    /\ saved \in Params /\ rows \in Seq(Row)
    /\ submit = Nothing \/ submit \in Submission
    /\ resyncs \in 0 .. MaxRegisters /\ due \in SUBSET DOMAIN rows
    /\ online \in BOOLEAN /\ wire \in Seq(Frame) /\ arrived \in Seq(Frame)
    /\ jobs \in Seq(Frame) /\ agent \in Params
    /\ registers \in 0 .. MaxRegisters
    /\ faults \in 0 .. MaxFaults

Init ==
    /\ saved = 0 /\ rows = <<>> /\ submit = Nothing /\ resyncs = 0 /\ due = {}
    /\ online = FALSE /\ wire = <<>> /\ arrived = <<>> /\ jobs = <<>> /\ agent = 0
    /\ registers = 0 /\ faults = 0

-----------------------------------------------------------------------------
(* The agent's partition of the control service. *)

Submits(params, max) ==
    submit' = [phase |-> "send", state |-> "created",
               cmd |-> [params |-> params, retries |-> 0, max |-> max]]

\* handle_params_update and submit: the merged parameters are saved first.
Update(max) ==
    /\ submit = Nothing /\ saved < MaxUpdates
    /\ saved' = saved + 1 /\ Submits(saved + 1, max)
    /\ UNCHANGED <<rows, resyncs, due, device, registers, faults>>

\* Mutant: the defaults are submitted instead of what is stored.
ResyncDefaults ==
    /\ submit = Nothing /\ resyncs > 0 /\ resyncs' = resyncs - 1
    /\ Submits(0, 1)
    /\ UNCHANGED <<saved, rows, due, device, counts>>

\* The task of a registration submits what is stored, if anything is.
Resync ==
    /\ submit = Nothing /\ resyncs > 0 /\ resyncs' = resyncs - 1
    /\ IF saved = 0 THEN UNCHANGED submit ELSE Submits(saved, 1)
    /\ UNCHANGED <<saved, rows, due, device, counts>>

Send(params, retried) ==
    wire' = Append(wire, [params |-> params, retried |-> retried, overtaken |-> FALSE])

Decided(state) == submit' = [submit EXCEPT !.phase = "insert", !.state = state]

SubmitSends ==
    /\ submit.phase = "send"
    /\ \/ online /\ Send(submit.cmd.params, FALSE) /\ Decided("dispatched")
          /\ UNCHANGED faults
       \/ online /\ faults < MaxFaults /\ faults' = faults + 1
          /\ Decided("retry_pending") /\ UNCHANGED wire
       \/ ~online /\ Decided("retry_pending") /\ UNCHANGED <<wire, faults>>
    /\ UNCHANGED <<saved, rows, resyncs, due, online, arrived, jobs, agent, registers>>

\* A failing upsert throws: the command is nowhere, its parameters are saved.
SubmitInserts ==
    /\ submit.phase = "insert" /\ submit' = Nothing
    /\ \/ rows' = Append(rows, [state |-> submit.state, cmd |-> submit.cmd])
          /\ UNCHANGED faults
       \/ faults < MaxFaults /\ faults' = faults + 1 /\ UNCHANGED rows
    /\ UNCHANGED <<saved, resyncs, due, device, registers>>

-----------------------------------------------------------------------------
(* The retry thread. *)

Parked == {i \in DOMAIN rows : rows[i].state = "retry_pending"}

\* tick_once lists the rows that are due: a row waits its backoff out.
RetryLists ==
    /\ due = {} /\ due' \in SUBSET Parked \ {{}}
    /\ UNCHANGED <<saved, rows, submit, resyncs, device, counts>>

Marks(i, state) == rows' = [rows EXCEPT ![i].state = state]

Exhausted(cmd) == cmd.retries + 1 >= cmd.max

\* process_retry_command for the next row of the list, which is ordered by
\* the time a row is due: any row may be the next.
RetryProcesses(i) ==
    LET cmd == rows[i].cmd
        fails ==
            /\ IF Exhausted(cmd) THEN Marks(i, "ended")
               ELSE rows' = [rows EXCEPT ![i].cmd.retries = @ + 1]
            /\ UNCHANGED wire
    IN  /\ i \in due /\ due' = due \ {i}
        /\ \/ online /\ Send(cmd.params, TRUE) /\ Marks(i, "dispatched") /\ UNCHANGED faults
           \/ online /\ faults < MaxFaults /\ faults' = faults + 1 /\ fails
           \/ ~online /\ fails /\ UNCHANGED faults
           \/ Marks(i, "ended") /\ UNCHANGED <<wire, faults>>      \* it has expired
        /\ UNCHANGED <<saved, submit, resyncs, online, arrived, jobs, agent, registers>>

-----------------------------------------------------------------------------
(* The agent. *)

\* Mutant: a registration does not ask for a resync.
RegisterOnly ==
    /\ ~online /\ registers < MaxRegisters
    /\ online' = TRUE /\ registers' = registers + 1
    /\ UNCHANGED <<saved, rows, submit, resyncs, due, wire, arrived, jobs, agent, faults>>

\* A registration binds the route, then posts the resync.
Register ==
    /\ ~online /\ registers < MaxRegisters
    /\ online' = TRUE /\ registers' = registers + 1 /\ resyncs' = resyncs + 1
    /\ UNCHANGED <<saved, rows, submit, due, wire, arrived, jobs, agent, faults>>

\* The connection is lost with what it carries; the agent may have restarted.
Disconnect(restarted) ==
    /\ online /\ online' = FALSE /\ wire' = <<>>
    /\ IF restarted THEN arrived' = <<>> /\ jobs' = <<>> /\ agent' = 0
       ELSE UNCHANGED <<arrived, jobs, agent>>
    /\ UNCHANGED <<service, counts>>

\* on_message posts the frame to the dispatcher, keyed by its command.
Arrives ==
    /\ wire # <<>> /\ wire' = Tail(wire) /\ arrived' = Append(arrived, Head(wire))
    /\ UNCHANGED <<service, online, jobs, agent, counts>>

\* handle_channel_message: a worker acknowledges its command and queues it,
\* whatever the workers of earlier commands do; a frame whose acknowledgement
\* cannot be sent is dropped.
Queues(i) ==
    /\ arrived' = [j \in 1 .. Len(arrived) - 1 |->
                    IF j < i THEN [arrived[j] EXCEPT !.overtaken = TRUE] ELSE arrived[j + 1]]
    /\ jobs' = IF online THEN Append(jobs, arrived[i]) ELSE jobs
    /\ UNCHANGED <<service, online, wire, agent, counts>>

\* The params_set handler: the payload is complete, so it replaces everything.
Applies ==
    /\ jobs # <<>> /\ jobs' = Tail(jobs) /\ agent' = Head(jobs).params
    /\ UNCHANGED <<service, online, wire, arrived, counts>>

Next ==
    \/ \E max \in AskedFor : Update(max)
    \/ Resync \/ SubmitSends \/ SubmitInserts \/ RetryLists
    \/ \E i \in due : RetryProcesses(i)
    \/ Register \/ \E restarted \in BOOLEAN : Disconnect(restarted)
    \/ Arrives \/ \E i \in DOMAIN arrived : Queues(i)
    \/ Applies

Spec == Init /\ [][Next]_vars

\* The threads of the service and of the agent run; updates, failures and the
\* comings and goings of the agent are up to their surroundings.
Fairness ==
    /\ WF_vars(Resync) /\ WF_vars(SubmitSends) /\ WF_vars(SubmitInserts)
    /\ WF_vars(RetryLists) /\ WF_vars(\E i \in due : RetryProcesses(i))
    /\ WF_vars(Arrives) /\ WF_vars(\E i \in DOMAIN arrived : Queues(i)) /\ WF_vars(Applies)

FairSpec == Spec /\ Fairness

-----------------------------------------------------------------------------
(* What may be said of the two copies. *)

\* The agent never runs with, and is never sent, parameters that a restart of
\* the service would not find in its store.
NeverAheadOfStore ==
    /\ agent <= saved
    /\ \A q \in {wire, arrived, jobs} : \A i \in DOMAIN q : q[i].params <= saved

\* A running agent falls back to older parameters only through a command that
\* was retried, or that a later one overtook in the dispatcher.
OlderOnlyIfOvertaken ==
    [][agent' < agent /\ online' = online =>
        Head(jobs).retried \/ Head(jobs).overtaken]_vars

\* Every command could be sent at once and none was overtaken by a later one.
Orderly ==
    /\ Parked = {} /\ \A i \in DOMAIN arrived : ~arrived[i].overtaken
    /\ submit # Nothing => submit.state # "retry_pending"

\* Without such commands an agent that stays connected ends up with what is
\* stored, whatever was lost with earlier connections.
SyncsWhenOrderly ==
    (<>[]online /\ []Orderly) => <>[](agent = saved)

\* An agent that stays connected ends up with what is stored.
Synced == <>[]online => <>[](agent = saved)
=============================================================================
