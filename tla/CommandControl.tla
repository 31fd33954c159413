--------------------------- MODULE CommandControl ---------------------------
(***************************************************************************)
(* A command from submission to terminal state: the control service (the   *)
(* scheduler worker of one agent's partition, the retry thread, the        *)
(* commands table), the connection, and the agent.                         *)
(*                                                                         *)
(* Every call of the store holds its mutex, so one store call is one step; *)
(* the steps of the worker and of the retry thread interleave.  All tasks  *)
(* of one agent run on one worker: UI submissions and the agent's messages *)
(* never overlap, the retry thread overlaps both.                          *)
(***************************************************************************)
EXTENDS CommandStates, Naturals, Sequences, FiniteSets

CONSTANTS
    Cmd,             \* command ids the id generator hands out
    NoCmd,           \* "no command"
    MaxRetry,        \* largest max_retry of a submission
    OutCap,          \* kMaxOutgoingQueue of the agent's channel
    MaxDisconnects, MaxCrashes, MaxRestarts, MaxFaults   \* bounds on what fails

ASSUME ConstantsAssumption ==
    /\ NoCmd \notin Cmd
    /\ MaxRetry \in Nat
    /\ OutCap \in Nat \ {0}
    /\ MaxDisconnects \in Nat /\ MaxCrashes \in Nat
    /\ MaxRestarts \in Nat /\ MaxFaults \in Nat

VARIABLES
    rows,        \* the commands table: state, retry_count, max_retry
    due,         \* commands whose next_retry_at_ms has passed
    expired,     \* commands whose expires_at_ms has passed
    events,      \* the command_events table: applied terminal states, per command
    used,        \* ids already handed out
    worker,      \* the partition's worker: where it is in its task
    retry,       \* the retry thread: where it is in process_retry_command
    batch,       \* rows of the current tick still to process
    late,        \* those of them that had expired when the tick began
    link,        \* "up": connected and registered
    toAgent,     \* dispatches on their way or in the agent's dispatcher
    toServer,    \* acks and results on their way or in the partition's queue
    outgoing,    \* outgoing_messages_ of the agent's channel
    seen,        \* seen_command_ids_ of the agent
    queue,       \* the execution worker's queue_
    executing,   \* the command being executed
    sends, unmarked, execs,      \* history: see below
    disconnects, crashes, restarts, faults

serverVars == <<worker, retry, batch, late>>
storeVars  == <<rows, due, events>>
agentVars  == <<outgoing, seen, queue, executing, execs>>
bounds     == <<disconnects, crashes, restarts>>
vars == <<rows, due, expired, events, used, worker, retry, batch, late, link,
          toAgent, toServer, outgoing, seen, queue, executing,
          sends, unmarked, execs, disconnects, crashes, restarts, faults>>

\* sends[c]:    dispatches of c the server has sent
\* unmarked[c]: of those, how many a store failure kept from being recorded
\* execs[c]:    executions of c the agent has begun

NoEvent == "none"
EventTypes ==
    {"command_push_sent", "command_retry_scheduled",
     "command_ack_received", "command_ack_ignored_terminal",
     "command_ack_rejected_invalid_transition",
     "command_result_received", "command_result_duplicate",
     "command_retry_expired", "command_retry_dispatched",
     "command_retry_exhausted", "command_recovery_timeout"}

\* A terminal state was written to the row and logged under one of these.
TerminalEvents ==
    {"command_result_received", "command_retry_expired",
     "command_retry_exhausted", "command_recovery_timeout"}

AckStatus    == {"Acked", "Running"}
ResultStatus == {"Succeeded", "Failed", "TimedOut"}
Message == [cmd : Cmd, status : AckStatus \cup ResultStatus]

\* Where the worker and the retry thread are: the command at hand, its max_retry,
\* the state and the type of the event they are about to write.
Task(pc, c, m, s, t) == [pc |-> pc, cmd |-> c, max |-> m, state |-> s, type |-> t]
Step(pc, c, s, t)    == [pc |-> pc, cmd |-> c, state |-> s, type |-> t]
Idle == Task("idle", NoCmd, 0, Absent, NoEvent)
Loop == Step("loop", NoCmd, Absent, NoEvent)

Init ==
    /\ rows = [c \in Cmd |-> [state |-> Absent, retry |-> 0, max |-> 0]]
    /\ due = Cmd /\ expired = {} /\ used = {}
    /\ events = [c \in Cmd |-> {}]
    /\ worker = Idle /\ retry = Loop /\ batch = {} /\ late = {}
    /\ link = "down"
    /\ toAgent = [c \in Cmd |-> 0] /\ toServer = <<>> /\ outgoing = <<>>
    /\ seen = {} /\ queue = <<>> /\ executing = NoCmd
    /\ sends = [c \in Cmd |-> 0]
    /\ unmarked = [c \in Cmd |-> 0]
    /\ execs = [c \in Cmd |-> 0]
    /\ disconnects = 0 /\ crashes = 0 /\ restarts = 0 /\ faults = 0

-----------------------------------------------------------------------------
(* The store *)

StoreFails == faults < MaxFaults /\ faults' = faults + 1
StoreWorks == UNCHANGED faults

\* A new row, retryable at once.
upsert(c, s, m) ==
    /\ rows' = [rows EXCEPT ![c] = [state |-> s, retry |-> 0, max |-> m]]
    /\ UNCHANGED <<due, events>>

\* The row stays parked, one attempt older, until next_retry_at_ms.
update_retry_state(c) ==
    /\ rows' = [rows EXCEPT ![c].retry = @ + 1]
    /\ due' = due \ {c}
    /\ UNCHANGED events

\* A guarded update writes state s and clears next_retry_at_ms.
WriteState(c, s) ==
    /\ rows' = [rows EXCEPT ![c].state = s]
    /\ due' = due \cup {c}
    /\ UNCHANGED events

\* Of the log, only the entries for applied terminal states are kept.
AppendEvent(c, type, s) ==
    /\ events' = [events EXCEPT ![c] =
                     @ \cup IF type \in TerminalEvents THEN {<<type, s>>} ELSE {}]
    /\ UNCHANGED <<rows, due>>

\* agent_channel.send_command: the connection accepted the frame.
SendCommand(c) ==
    /\ toAgent' = [toAgent EXCEPT ![c] = @ + 1]
    /\ sends' = [sends EXCEPT ![c] = @ + 1]

-----------------------------------------------------------------------------
(* The partition's worker: CommandOrchestrator::submit *)

Submit(c, m) ==
    /\ worker.pc = "idle"
    /\ c \notin used
    /\ used' = used \cup {c}
    /\ worker' = Task("dispatch", c, m, Absent, NoEvent)
    /\ UNCHANGED <<storeVars, expired, retry, batch, late, link, toAgent, toServer,
                   agentVars, sends, unmarked, bounds, faults>>

\* is_online and send_command.  An offline agent parks the command, or fails
\* the submission when it may not be retried.
SubmitDispatch ==
    /\ worker.pc = "dispatch"
    /\ \/ /\ link = "up"
          /\ SendCommand(worker.cmd)
          /\ worker' = Task("upsert", worker.cmd, worker.max, "Dispatched", NoEvent)
       \/ /\ link = "down" /\ worker.max > 0
          /\ worker' = Task("upsert", worker.cmd, worker.max, "RetryPending", NoEvent)
          /\ UNCHANGED <<toAgent, sends>>
       \/ /\ link = "down" /\ worker.max = 0
          /\ worker' = Idle
          /\ UNCHANGED <<toAgent, sends>>
    /\ UNCHANGED <<storeVars, expired, used, retry, batch, late, link, toServer,
                   agentVars, unmarked, bounds, faults>>

SubmitUpsert ==
    /\ worker.pc = "upsert"
    /\ \/ /\ StoreFails
          /\ worker' = Idle
          /\ UNCHANGED storeVars
       \/ /\ StoreWorks
          /\ upsert(worker.cmd, worker.state, worker.max)
          /\ worker' = Task("event", worker.cmd, 0, worker.state,
                            IF worker.state = "Dispatched" THEN "command_push_sent"
                                                           ELSE "command_retry_scheduled")
    /\ UNCHANGED <<expired, used, retry, batch, late, link, toAgent, toServer,
                   agentVars, sends, unmarked, bounds>>

\* The append_event call that ends submit, on_command_ack and on_command_result.
WorkerEvent ==
    /\ worker.pc = "event"
    /\ worker' = Idle
    /\ \/ StoreFails /\ UNCHANGED storeVars
       \/ StoreWorks /\ AppendEvent(worker.cmd, worker.type, worker.state)
    /\ UNCHANGED <<expired, used, retry, batch, late, link, toAgent, toServer,
                   agentVars, sends, unmarked, bounds>>

-----------------------------------------------------------------------------
(* The partition's worker: AgentMessageService *)

WorkerAppends(c, type, s) == worker' = Task("event", c, 0, s, type)

on_command_ack ==
    /\ worker.pc = "idle" /\ toServer # <<>>
    /\ LET m   == Head(toServer)
           cur == rows[m.cmd].state
           res == update_state_if_not_terminal(cur, m.status)
       IN  /\ m.status \in AckStatus
           /\ \/ (StoreFails \/ (StoreWorks /\ res = "not_found"))
                 /\ UNCHANGED <<storeVars, worker>>
              \/ /\ StoreWorks /\ res = "applied"
                 /\ WriteState(m.cmd, m.status)
                 /\ WorkerAppends(m.cmd, "command_ack_received", m.status)
              \/ /\ StoreWorks /\ res = "ignored"
                 /\ WorkerAppends(m.cmd, "command_ack_ignored_terminal", m.status)
                 /\ UNCHANGED storeVars
              \/ /\ StoreWorks /\ res = "invalid"
                 /\ WorkerAppends(m.cmd, "command_ack_rejected_invalid_transition", cur)
                 /\ UNCHANGED storeVars
    /\ toServer' = Tail(toServer)
    /\ UNCHANGED <<expired, used, retry, batch, late, link, toAgent,
                   agentVars, sends, unmarked, bounds>>

on_command_result ==
    /\ worker.pc = "idle" /\ toServer # <<>>
    /\ LET m   == Head(toServer)
           res == update_terminal_state_once(rows[m.cmd].state)
       IN  /\ m.status \in ResultStatus
           /\ \/ (StoreFails \/ (StoreWorks /\ res = "not_found"))
                 /\ UNCHANGED <<storeVars, worker>>
              \/ /\ StoreWorks /\ res = "applied"
                 /\ WriteState(m.cmd, m.status)
                 /\ WorkerAppends(m.cmd, "command_result_received", m.status)
              \/ /\ StoreWorks /\ res = "ignored"
                 /\ WorkerAppends(m.cmd, "command_result_duplicate", m.status)
                 /\ UNCHANGED storeVars
    /\ toServer' = Tail(toServer)
    /\ UNCHANGED <<expired, used, retry, batch, late, link, toAgent,
                   agentVars, sends, unmarked, bounds>>

WorkerNext == SubmitDispatch \/ SubmitUpsert \/ WorkerEvent
              \/ on_command_ack \/ on_command_result

-----------------------------------------------------------------------------
(* The retry thread: RetryService::tick_once.  retry_count is written by    *)
(* this thread only, so the row it listed still has the current count.      *)

RetryUnchanged == UNCHANGED <<expired, used, worker, link, toServer, agentVars, bounds>>

\* An exception leaves tick_once; the rest of the batch waits for a later tick.
RetryThrows == retry' = Loop /\ batch' = {} /\ late' = {}

RetryAppends(c, type, s) ==
    /\ retry' = Step("event", c, s, type)
    /\ UNCHANGED <<batch, late>>

\* Mutant: the query forgets its condition on the state.
ListReadyAnyState == {c \in due : rows[c].retry < rows[c].max}

list_retry_ready ==
    {c \in due : rows[c].state = "RetryPending" /\ rows[c].retry < rows[c].max}

RetryTick ==
    /\ retry.pc = "loop" /\ batch = {}
    /\ list_retry_ready # {}
    /\ batch' = list_retry_ready
    /\ late' = list_retry_ready \cap expired
    /\ UNCHANGED <<storeVars, retry, toAgent, sends, unmarked, faults>>
    /\ RetryUnchanged

RetryExpire(c) ==
    /\ retry.pc = "loop" /\ c \in batch \cap late
    /\ LET res == update_terminal_state_once(rows[c].state)
       IN \/ StoreFails /\ RetryThrows /\ UNCHANGED storeVars
          \/ /\ StoreWorks /\ res = "applied"
             /\ WriteState(c, "TimedOut")
             /\ retry' = Step("event", c, "TimedOut", "command_retry_expired")
             /\ batch' = batch \ {c} /\ late' = late \ {c}
          \/ /\ StoreWorks /\ res = "ignored"
             /\ batch' = batch \ {c} /\ late' = late \ {c}
             /\ UNCHANGED <<storeVars, retry>>
    /\ UNCHANGED <<toAgent, sends, unmarked>>
    /\ RetryUnchanged

RetrySend(c) ==
    /\ retry.pc = "loop" /\ c \in batch \ late
    /\ batch' = batch \ {c}
    /\ \/ /\ link = "up"
          /\ SendCommand(c)
          /\ retry' = Step("mark", c, Absent, NoEvent)
       \/ /\ link = "down"
          /\ retry' = Step("fail", c, Absent, NoEvent)
          /\ UNCHANGED <<toAgent, sends>>
    /\ UNCHANGED <<storeVars, late, unmarked, faults>>
    /\ RetryUnchanged

\* The command is on its way; record it as Dispatched.
RetryMark ==
    /\ retry.pc = "mark"
    /\ LET c   == retry.cmd
           res == update_state_if_not_terminal(rows[c].state, "Dispatched")
       IN \/ /\ StoreFails /\ RetryThrows
             /\ unmarked' = [unmarked EXCEPT ![c] = @ + 1]
             /\ UNCHANGED storeVars
          \/ /\ StoreWorks /\ res = "applied"
             /\ WriteState(c, "Dispatched")
             /\ RetryAppends(c, "command_retry_dispatched", "Dispatched")
             /\ UNCHANGED unmarked
          \/ /\ StoreWorks /\ res = "ignored"
             /\ retry' = Loop
             /\ UNCHANGED <<storeVars, batch, late, unmarked>>
    /\ UNCHANGED <<toAgent, sends>>
    /\ RetryUnchanged

\* Mutant: one attempt too many before giving up.
ExhaustedOffByOne(c) == rows[c].retry + 1 > rows[c].max

RetriesExhausted(c) == rows[c].retry + 1 >= rows[c].max

\* The command was not sent: give up, or come back after the backoff.
RetryFail ==
    /\ retry.pc = "fail"
    /\ LET c   == retry.cmd
           res == update_terminal_state_once(rows[c].state)
       IN \/ StoreFails /\ RetryThrows /\ UNCHANGED storeVars
          \/ /\ StoreWorks /\ RetriesExhausted(c) /\ res = "applied"
             /\ WriteState(c, "Failed")
             /\ RetryAppends(c, "command_retry_exhausted", "Failed")
          \/ /\ StoreWorks /\ RetriesExhausted(c) /\ res = "ignored"
             /\ retry' = Loop
             /\ UNCHANGED <<storeVars, batch, late>>
          \/ /\ StoreWorks /\ ~RetriesExhausted(c) /\ rows[c].state = "RetryPending"
             /\ update_retry_state(c)
             /\ RetryAppends(c, "command_retry_scheduled", "RetryPending")
          \/ /\ StoreWorks /\ ~RetriesExhausted(c) /\ rows[c].state # "RetryPending"
             /\ RetryThrows
             /\ UNCHANGED storeVars
    /\ UNCHANGED <<toAgent, sends, unmarked>>
    /\ RetryUnchanged

RetryEvent ==
    /\ retry.pc = "event"
    /\ \/ StoreFails /\ RetryThrows /\ UNCHANGED storeVars
       \/ /\ StoreWorks
          /\ AppendEvent(retry.cmd, retry.type, retry.state)
          /\ retry' = Loop
          /\ UNCHANGED <<batch, late>>
    /\ UNCHANGED <<toAgent, sends, unmarked>>
    /\ RetryUnchanged

RetryNext == \/ RetryTick \/ RetryMark \/ RetryFail \/ RetryEvent
             \/ \E c \in Cmd : RetryExpire(c) \/ RetrySend(c)

-----------------------------------------------------------------------------
(* The connection and the two processes *)

\* The agent connects and registers.  Frames it wrote before its register
\* frame are refused (the session is not bound yet); the register frame itself
\* takes the place of the newest message when the queue is full.
Connect ==
    /\ link = "down"
    /\ link' = "up"
    /\ \E n \in 0..Len(outgoing) :
          outgoing' = SubSeq(outgoing, n + 1,
                             IF n = 0 /\ Len(outgoing) >= OutCap
                             THEN Len(outgoing) - 1 ELSE Len(outgoing))
    /\ UNCHANGED <<storeVars, expired, used, serverVars, toAgent, toServer, seen, queue,
                   executing, sends, unmarked, execs, bounds, faults>>

\* The session is gone: the frames the agent had not read may be lost, and the
\* queued messages of the session fail the binding check when they are run.
LinkLost(keep) ==
    /\ link' = "down"
    /\ toServer' = <<>>
    /\ toAgent' = [c \in Cmd |-> IF c \in keep THEN toAgent[c] ELSE 0]

Disconnect ==
    /\ link = "up"
    /\ disconnects < MaxDisconnects
    /\ disconnects' = disconnects + 1
    /\ \E keep \in SUBSET Cmd : LinkLost(keep)
    /\ UNCHANGED <<storeVars, expired, used, serverVars, agentVars, sends, unmarked,
                   crashes, restarts, faults>>

\* The boot times out every row left open, in one transaction.
recover_inflight ==
    LET open == {c \in Cmd : rows[c].state \in OpenStates}
    IN  /\ rows' = [c \in Cmd |-> IF c \in open
                                  THEN [state |-> "TimedOut", retry |-> rows[c].retry,
                                        max |-> rows[c].max]
                                  ELSE rows[c]]
        /\ due' = due \cup open
        /\ events' = [c \in Cmd |-> IF c \in open
                        THEN events[c] \cup {<<"command_recovery_timeout", "TimedOut">>}
                        ELSE events[c]]

\* The service dies between any two steps and boots again.  Recovery runs before
\* the retry thread starts and the port is bound; when it fails the service
\* logs a warning and goes on with the rows as they were.
ServerRestart ==
    /\ crashes < MaxCrashes
    /\ crashes' = crashes + 1
    /\ worker' = Idle /\ retry' = Loop /\ batch' = {} /\ late' = {}
    /\ \/ StoreWorks /\ recover_inflight /\ UNCHANGED unmarked
       \/ /\ StoreFails
          /\ unmarked' = IF retry.pc = "mark"
                         THEN [unmarked EXCEPT ![retry.cmd] = @ + 1] ELSE unmarked
          /\ UNCHANGED storeVars
    /\ \E keep \in SUBSET Cmd : LinkLost(keep)
    /\ UNCHANGED <<expired, used, agentVars, sends, disconnects, restarts>>

AgentRestart ==
    /\ restarts < MaxRestarts
    /\ restarts' = restarts + 1
    /\ outgoing' = <<>> /\ seen' = {} /\ queue' = <<>> /\ executing' = NoCmd
    /\ LinkLost({})
    /\ UNCHANGED <<storeVars, expired, used, serverVars, execs, sends, unmarked,
                   disconnects, crashes, faults>>

-----------------------------------------------------------------------------
(* The agent *)

AgentUnchanged ==
    UNCHANGED <<storeVars, expired, used, serverVars, link, sends, unmarked, bounds, faults>>

\* wss_control_channel::send for anything but register and heartbeat.
Push(q, m) == IF Len(q) < OutCap THEN Append(q, m) ELSE q

\* Mutant: the seen cache is not consulted.
NeverSeen(c) == TRUE

mark_command_seen(c) == c \notin seen

\* Mutant: the agent claims success for a command it did not run.
ExpiredAsSucceeded == "Succeeded"

ExpiredStatus == "TimedOut"

\* on_command_dispatch.  Without room for the ack the command is dropped; a
\* command id already seen is acknowledged again and not executed.
HandleDispatch(c) ==
    /\ toAgent[c] > 0
    /\ toAgent' = [toAgent EXCEPT ![c] = @ - 1]
    /\ LET acked == Push(outgoing, [cmd |-> c, status |-> "Acked"])
       IN \/ /\ Len(outgoing) >= OutCap
             /\ UNCHANGED <<outgoing, seen, queue>>
          \/ /\ Len(outgoing) < OutCap /\ ~mark_command_seen(c)
             /\ outgoing' = acked
             /\ UNCHANGED <<seen, queue>>
          \/ /\ Len(outgoing) < OutCap /\ mark_command_seen(c) /\ c \in expired
             /\ seen' = seen \cup {c}
             /\ outgoing' = Push(acked, [cmd |-> c, status |-> ExpiredStatus])
             /\ UNCHANGED queue
          \/ /\ Len(outgoing) < OutCap /\ mark_command_seen(c) /\ c \notin expired
             /\ seen' = seen \cup {c}
             /\ outgoing' = acked
             /\ queue' = Append(queue, c)
    /\ UNCHANGED <<toServer, executing, execs>>
    /\ AgentUnchanged

StartExecution ==
    /\ executing = NoCmd /\ queue # <<>>
    /\ executing' = Head(queue)
    /\ queue' = Tail(queue)
    /\ execs' = [execs EXCEPT ![Head(queue)] = @ + 1]
    /\ outgoing' = Push(outgoing, [cmd |-> Head(queue), status |-> "Running"])
    /\ UNCHANGED <<toAgent, toServer, seen>>
    /\ AgentUnchanged

FinishExecution ==
    /\ executing # NoCmd
    /\ \E s \in {"Succeeded", "Failed"} :
          outgoing' = Push(outgoing, [cmd |-> executing, status |-> s])
    /\ executing' = NoCmd
    /\ UNCHANGED <<toAgent, toServer, seen, queue, execs>>
    /\ AgentUnchanged

Write ==
    /\ link = "up" /\ outgoing # <<>>
    /\ toServer' = Append(toServer, Head(outgoing))
    /\ outgoing' = Tail(outgoing)
    /\ UNCHANGED <<toAgent, seen, queue, executing, execs>>
    /\ AgentUnchanged

AgentNext == StartExecution \/ FinishExecution \/ Write \/ \E c \in Cmd : HandleDispatch(c)

-----------------------------------------------------------------------------
(* Time *)

TimeUnchanged ==
    UNCHANGED <<rows, events, used, serverVars, link, toAgent, toServer, agentVars,
                sends, unmarked, bounds, faults>>

Expire(c) ==
    /\ c \in used \ expired
    /\ expired' = expired \cup {c}
    /\ UNCHANGED due
    /\ TimeUnchanged

BackoffElapses(c) ==
    /\ c \notin due
    /\ due' = due \cup {c}
    /\ UNCHANGED expired
    /\ TimeUnchanged

-----------------------------------------------------------------------------
Next ==
    \/ \E c \in Cmd, m \in 0..MaxRetry : Submit(c, m)
    \/ WorkerNext
    \/ RetryNext
    \/ AgentNext
    \/ Connect \/ Disconnect \/ ServerRestart \/ AgentRestart
    \/ \E c \in Cmd : Expire(c) \/ BackoffElapses(c)

\* The threads run, the agent reconnects, clocks advance.  Nothing is assumed
\* of submissions or failures.
Fairness ==
    /\ WF_vars(WorkerNext)
    /\ WF_vars(RetryNext)
    /\ WF_vars(StartExecution \/ FinishExecution)
    /\ WF_vars(Write)
    /\ WF_vars(Connect)
    /\ \A c \in Cmd : /\ WF_vars(HandleDispatch(c))
                      /\ WF_vars(Expire(c))
                      /\ WF_vars(BackoffElapses(c))

Spec     == Init /\ [][Next]_vars
FairSpec == Spec /\ Fairness

-----------------------------------------------------------------------------
(* Properties *)

StoreType ==
    /\ rows \in [Cmd -> [state : RowStates, retry : Nat, max : Nat]]
    /\ events \in [Cmd -> SUBSET (TerminalEvents \X RowStates)]
    /\ due \subseteq Cmd /\ expired \subseteq Cmd /\ used \subseteq Cmd

WorkerType ==
    /\ worker \in [pc : {"idle", "dispatch", "upsert", "event"},
                   cmd : Cmd \cup {NoCmd}, max : Nat, state : RowStates,
                   type : EventTypes \cup {NoEvent}]
    /\ worker.pc # "idle" => worker.cmd \in Cmd

RetryType ==
    /\ retry \in [pc : {"loop", "mark", "fail", "event"}, cmd : Cmd \cup {NoCmd},
                  state : RowStates, type : EventTypes \cup {NoEvent}]
    /\ retry.pc # "loop" => retry.cmd \in Cmd
    /\ batch \subseteq Cmd /\ late \subseteq batch

WireType ==
    /\ link \in {"up", "down"}
    /\ toAgent \in [Cmd -> Nat]
    /\ toServer \in Seq(Message) /\ outgoing \in Seq(Message)

AgentType ==
    seen \subseteq Cmd /\ queue \in Seq(Cmd) /\ executing \in Cmd \cup {NoCmd}

CountType ==
    /\ sends \in [Cmd -> Nat] /\ unmarked \in [Cmd -> Nat] /\ execs \in [Cmd -> Nat]
    /\ disconnects \in Nat /\ crashes \in Nat /\ restarts \in Nat /\ faults \in Nat

\* Type correctness.
TypeOK == StoreType /\ WorkerType /\ RetryType /\ WireType /\ AgentType /\ CountType

\* The row's state is the first terminal state anybody reported: of all the
\* terminal outcomes raced by the agent's result, the retry thread's expiry and
\* exhaustion and the recovery at boot, the event log holds at most one as
\* applied, and it is the one in the row.
FirstTerminalWins ==
    \A c \in Cmd : \A e, f \in events[c] : e = f /\ e[2] = rows[c].state

\* A parked command can still be picked up: list_retry_ready skips a row whose
\* retry_count has reached max_retry, so such a row would stay parked forever.
ParkedIsRetryable ==
    \A c \in Cmd : rows[c].state = "RetryPending" => rows[c].retry < rows[c].max

\* submit and the retry thread send a command at most once between them, and
\* once more for each time the store failed to record that it was sent.
SentAtMostOnce == \A c \in Cmd : sends[c] <= 1 + unmarked[c]

\* A command the operator is told was never delivered (retries exhausted, or
\* expired while waiting) was indeed not sent, unless the store failed to record
\* a dispatch.
ReportedUndeliveredWasNotSent ==
    \A c \in Cmd : \A e \in events[c] :
        e[1] \in {"command_retry_exhausted", "command_retry_expired"}
            => sends[c] <= unmarked[c]

\* The agent executes a command at most once in its lifetime, whatever is sent
\* twice; and at most once across its restarts unless the store failed.
ExecutedAtMostOnce ==
    \A c \in Cmd : execs[c] <= 1 + restarts /\ execs[c] <= 1 + unmarked[c]

\* A command is recorded as succeeded only if the agent did execute it.
SuccessWasExecuted ==
    \A c \in Cmd : rows[c].state = "Succeeded" => execs[c] > 0

\* The retry thread resolves every parked command: it is dispatched, timed out
\* or failed, even when a store failure throws a whole batch away.
ParkedResolves ==
    \A c \in Cmd : rows[c].state = "RetryPending" ~> rows[c].state # "RetryPending"

\* Every recorded command reaches a terminal state.
OpenEndsTerminal ==
    \A c \in Cmd : rows[c].state \in OpenStates ~> is_terminal(rows[c].state)

Lossless == disconnects = 0 /\ restarts = 0 /\ faults = 0

\* With room for its ack, its Running and its result, a command stays open only
\* because a connection, the agent or a store call was lost: no interleaving of
\* the two threads, no expiry and no crash of the service (whose boot times out
\* what it finds open) leaves one behind.
LosslessEndsTerminal ==
    \A c \in Cmd : rows[c].state \in OpenStates
                     ~> is_terminal(rows[c].state) \/ ~Lossless

\* The rows obey the abstract lifecycle: each step of the service moves the
\* commands as CommandLifecycle allows, or leaves them alone.
Lifecycle == INSTANCE CommandLifecycle WITH state <- [c \in Cmd |-> rows[c].state]
ImplementsLifecycle == Lifecycle!Spec
=============================================================================
