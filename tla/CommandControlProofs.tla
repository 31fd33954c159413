------------------------ MODULE CommandControlProofs ------------------------
(***************************************************************************)
(* CommandControl keeps its types and its safety invariants and implements *)
(* CommandLifecycle, for every set of commands and every bound on retries, *)
(* queue length and failures.  IInv is the inductive invariant of the      *)
(* service: what the worker and the retry thread hold between two store    *)
(* calls, and what the rows and the log look like meanwhile.  ExecInv is   *)
(* the one of the agent: each dispatch on its way, queued or executed was  *)
(* sent, and each success reported was an execution.                       *)
(***************************************************************************)
EXTENDS CommandControl, TLAPS

USE DEF Absent, NoEvent, Idle, Loop, Task, Step, storeVars, serverVars, agentVars, bounds

\* The steps of Next, named once for the case splits below.
LEMMA NextCases ==
    ASSUME Next
    PROVE  \/ \E c \in Cmd, m \in 0..MaxRetry : Submit(c, m)
           \/ SubmitDispatch \/ SubmitUpsert \/ WorkerEvent
           \/ on_command_ack \/ on_command_result
           \/ RetryTick \/ RetryMark \/ RetryFail \/ RetryEvent
           \/ \E c \in Cmd : RetryExpire(c) \/ RetrySend(c)
           \/ Connect \/ Disconnect \/ ServerRestart \/ AgentRestart
           \/ StartExecution \/ FinishExecution \/ Write
           \/ \E c \in Cmd : HandleDispatch(c) \/ Expire(c) \/ BackoffElapses(c)
  BY Zenon DEF Next, WorkerNext, RetryNext, AgentNext

\* The initial state of the service and the agent is well typed.
LEMMA TypeInit == Init => TypeOK
  BY ConstantsAssumption
     DEF Init, TypeOK, StoreType, WorkerType, RetryType, WireType, AgentType, CountType,
         RowStates, EventTypes, Message

\* The channel's queue holds messages only, whether it accepts one or drops it.
LEMMA PushType ==
    ASSUME NEW q \in Seq(Message), NEW m \in Message PROVE Push(q, m) \in Seq(Message)
  BY DEF Push

\* A submission keeps the types.
LEMMA TypeSubmit ==
    ASSUME TypeOK, NEW c \in Cmd, NEW m \in 0..MaxRetry, Submit(c, m) PROVE TypeOK'
  <1>1. StoreType' BY Zenon DEF TypeOK, StoreType, Submit
  <1>2. WorkerType' BY DEF TypeOK, WorkerType, RowStates, Submit
  <1>3. RetryType' /\ WireType' /\ AgentType' /\ CountType'
       BY Zenon DEF TypeOK, RetryType, WireType, AgentType, CountType, Submit
  <1> QED BY <1>1, <1>2, <1>3, Zenon DEF TypeOK

\* So does its dispatch, sent, parked or refused.
LEMMA TypeSubmitDispatch ==
    ASSUME TypeOK, SubmitDispatch PROVE TypeOK'
  <1>1. WorkerType' BY DEF TypeOK, WorkerType, RowStates, OpenStates, SubmitDispatch,
       SendCommand
  <1>2. WireType' BY DEF TypeOK, WireType, WorkerType, SubmitDispatch, SendCommand
  <1>3. CountType' BY DEF TypeOK, CountType, WorkerType, SubmitDispatch, SendCommand
  <1>4. StoreType' /\ RetryType' /\ AgentType'
       BY Zenon DEF TypeOK, StoreType, RetryType, AgentType, SubmitDispatch, SendCommand
  <1> QED BY <1>1, <1>2, <1>3, <1>4, Zenon DEF TypeOK

\* So does the insertion of its row.
LEMMA TypeSubmitUpsert ==
    ASSUME TypeOK, SubmitUpsert PROVE TypeOK'
  <1>1. StoreType' BY DEF TypeOK, StoreType, WorkerType, SubmitUpsert, upsert, StoreFails,
       StoreWorks
  <1>2. WorkerType' BY DEF TypeOK, WorkerType, RowStates, OpenStates, EventTypes,
       SubmitUpsert, upsert, StoreFails, StoreWorks
  <1>3. CountType' BY DEF TypeOK, CountType, SubmitUpsert, upsert, StoreFails, StoreWorks
  <1>4. RetryType' /\ WireType' /\ AgentType'
       BY Zenon DEF TypeOK, RetryType, WireType, AgentType, SubmitUpsert, upsert, StoreFails,
          StoreWorks
  <1> QED BY <1>1, <1>2, <1>3, <1>4, Zenon DEF TypeOK

\* So does the event that ends the worker's task.
LEMMA TypeWorkerEvent ==
    ASSUME TypeOK, WorkerEvent PROVE TypeOK'
  <1>1. StoreType' BY DEF TypeOK, StoreType, WorkerType, EventTypes, TerminalEvents,
       WorkerEvent, AppendEvent, StoreFails, StoreWorks
  <1>2. WorkerType' BY Zenon DEF TypeOK, WorkerType, RowStates, WorkerEvent, AppendEvent,
                       StoreFails, StoreWorks
  <1>3. CountType' BY DEF TypeOK, CountType, WorkerEvent, AppendEvent, StoreFails,
       StoreWorks
  <1>4. RetryType' /\ WireType' /\ AgentType'
       BY Zenon DEF TypeOK, RetryType, WireType, AgentType, WorkerEvent, AppendEvent,
          StoreFails, StoreWorks
  <1> QED BY <1>1, <1>2, <1>3, <1>4, Zenon DEF TypeOK

\* So does an ack of the agent.
LEMMA TypeAck ==
    ASSUME TypeOK, on_command_ack PROVE TypeOK'
  <1> DEFINE m == Head(toServer)
  <1>0. toServer \in Seq(Message) /\ toServer # <<>>
       BY Zenon DEF TypeOK, WireType, on_command_ack
  <1>1a. m \in Message /\ Tail(toServer) \in Seq(Message) BY <1>0
  <1>1. m \in Message /\ m.cmd \in Cmd /\ Tail(toServer) \in Seq(Message)
       BY <1>1a, Zenon DEF Message
  <1>2. m.status \in AckStatus /\ AckStatus \subseteq RowStates
       BY Zenon DEF on_command_ack, AckStatus, RowStates, OpenStates
  <1>3. rows[m.cmd].state \in RowStates BY <1>1, Zenon DEF TypeOK, StoreType
  <1> HIDE DEF m
  <1>4. StoreType' BY <1>1, <1>2, ZenonT(60) DEF m, TypeOK, StoreType, on_command_ack, WriteState
  <1>5. WorkerType' BY <1>1, <1>2, <1>3, SMTT(60), Zenon DEF m, TypeOK, WorkerType, EventTypes,
                       on_command_ack, WorkerAppends
  <1>6. WireType' BY <1>1, Zenon DEF TypeOK, WireType, on_command_ack
  <1>7. CountType' BY SMTT(60), Zenon DEF TypeOK, CountType, on_command_ack, StoreFails,
                      StoreWorks
  <1>8. RetryType' /\ AgentType'
       BY Zenon DEF TypeOK, RetryType, AgentType, on_command_ack
  <1> QED BY <1>4, <1>5, <1>6, <1>7, <1>8, Zenon DEF TypeOK

\* So does a result of the agent.
LEMMA TypeResult ==
    ASSUME TypeOK, on_command_result PROVE TypeOK'
  <1> DEFINE m == Head(toServer)
  <1>0. toServer \in Seq(Message) /\ toServer # <<>>
       BY Zenon DEF TypeOK, WireType, on_command_result
  <1>1a. m \in Message /\ Tail(toServer) \in Seq(Message) BY <1>0
  <1>1. m \in Message /\ m.cmd \in Cmd /\ Tail(toServer) \in Seq(Message)
       BY <1>1a, Zenon DEF Message
  <1>2. m.status \in ResultStatus /\ ResultStatus \subseteq RowStates
       BY Zenon DEF on_command_result, ResultStatus, RowStates, TerminalStates
  <1> HIDE DEF m
  <1>3. StoreType' BY <1>1, <1>2, ZenonT(60) DEF m, TypeOK, StoreType, on_command_result, WriteState
  <1>4. WorkerType' BY <1>1, <1>2, SMTT(60), Zenon DEF m, TypeOK, WorkerType, EventTypes,
                       on_command_result, WorkerAppends
  <1>5. WireType' BY <1>1, Zenon DEF TypeOK, WireType, on_command_result
  <1>6. CountType' BY DEF TypeOK, CountType, on_command_result, StoreFails, StoreWorks
  <1>7. RetryType' /\ AgentType'
       BY Zenon DEF TypeOK, RetryType, AgentType, on_command_result
  <1> QED BY <1>3, <1>4, <1>5, <1>6, <1>7, Zenon DEF TypeOK

\* So does the start of a retry tick.
LEMMA TypeTick ==
    ASSUME TypeOK, RetryTick PROVE TypeOK'
  <1>1. RetryType' BY Zenon DEF TypeOK, RetryType, StoreType, list_retry_ready, RetryTick,
                      RetryUnchanged
  <1>2. StoreType' /\ WorkerType' /\ WireType' /\ AgentType' /\ CountType'
       BY Zenon DEF TypeOK, StoreType, WorkerType, WireType, AgentType, CountType, RetryTick,
          RetryUnchanged
  <1> QED BY <1>1, <1>2, Zenon DEF TypeOK

\* So does expiring a listed command.
LEMMA TypeExpire ==
    ASSUME TypeOK, NEW c \in Cmd, RetryExpire(c) PROVE TypeOK'
  <1>1. StoreType' BY DEF TypeOK, StoreType, RowStates, TerminalStates, RetryExpire,
       RetryUnchanged, RetryThrows, WriteState, StoreFails, StoreWorks
  <1>2. RetryType' BY DEF TypeOK, RetryType, RowStates, TerminalStates, EventTypes,
       RetryExpire, RetryUnchanged, RetryThrows, WriteState, StoreFails, StoreWorks
  <1>3. CountType' BY DEF TypeOK, CountType, RetryExpire, RetryUnchanged, RetryThrows,
       WriteState, StoreFails, StoreWorks
  <1>4. WorkerType' /\ WireType' /\ AgentType'
       BY Zenon DEF TypeOK, WorkerType, WireType, AgentType, RetryExpire, RetryUnchanged,
          RetryThrows, WriteState, StoreFails, StoreWorks
  <1> QED BY <1>1, <1>2, <1>3, <1>4, Zenon DEF TypeOK

\* So does sending a listed command.
LEMMA TypeSend ==
    ASSUME TypeOK, NEW c \in Cmd, RetrySend(c) PROVE TypeOK'
  <1>1. RetryType' BY DEF TypeOK, RetryType, RowStates, RetrySend, RetryUnchanged,
       SendCommand
  <1>2. WireType' BY DEF TypeOK, WireType, RetrySend, RetryUnchanged, SendCommand
  <1>3. CountType' BY DEF TypeOK, CountType, RetrySend, RetryUnchanged, SendCommand
  <1>4. StoreType' /\ WorkerType' /\ AgentType'
       BY Zenon DEF TypeOK, StoreType, WorkerType, AgentType, RetrySend, RetryUnchanged,
          SendCommand
  <1> QED BY <1>1, <1>2, <1>3, <1>4, Zenon DEF TypeOK

\* So does marking it dispatched.
LEMMA TypeMark ==
    ASSUME TypeOK, RetryMark PROVE TypeOK'
  <1>1. StoreType' BY DEF TypeOK, StoreType, RetryType, RowStates, OpenStates, RetryMark,
       RetryUnchanged, RetryThrows, RetryAppends, WriteState, StoreFails, StoreWorks
  <1>2. RetryType' BY DEF TypeOK, RetryType, RowStates, OpenStates, EventTypes,
       RetryMark, RetryUnchanged, RetryThrows, RetryAppends, WriteState, StoreFails,
       StoreWorks
  <1>3. CountType' BY DEF TypeOK, CountType, RetryType, RetryMark, RetryUnchanged,
       RetryThrows, RetryAppends, WriteState, StoreFails, StoreWorks
  <1>4. WorkerType' /\ WireType' /\ AgentType'
       BY Zenon DEF TypeOK, WorkerType, WireType, AgentType, RetryMark, RetryUnchanged,
          RetryThrows, RetryAppends, WriteState, StoreFails, StoreWorks
  <1> QED BY <1>1, <1>2, <1>3, <1>4, Zenon DEF TypeOK

\* So does rescheduling it or giving it up.
LEMMA TypeFail ==
    ASSUME TypeOK, RetryFail PROVE TypeOK'
  <1>1. StoreType' BY SMTT(60) DEF TypeOK, StoreType, RetryType, RowStates, TerminalStates,
       RetryFail, RetryUnchanged, RetryThrows, RetryAppends, WriteState, update_retry_state,
       StoreFails, StoreWorks
  <1>2. RetryType' BY DEF TypeOK, RetryType, RowStates, OpenStates, TerminalStates,
       EventTypes, RetryFail, RetryUnchanged, RetryThrows, RetryAppends, WriteState,
       update_retry_state, StoreFails, StoreWorks
  <1>3. CountType' BY DEF TypeOK, CountType, RetryFail, RetryUnchanged, RetryThrows,
       RetryAppends, WriteState, update_retry_state, StoreFails, StoreWorks
  <1>4. WorkerType' /\ WireType' /\ AgentType'
       BY Zenon DEF TypeOK, WorkerType, WireType, AgentType, RetryFail, RetryUnchanged,
          RetryThrows, RetryAppends, WriteState, update_retry_state, StoreFails,
          StoreWorks
  <1> QED BY <1>1, <1>2, <1>3, <1>4, Zenon DEF TypeOK

\* So does the event of the retry thread.
LEMMA TypeRetryEvent ==
    ASSUME TypeOK, RetryEvent PROVE TypeOK'
  <1>1. StoreType' BY DEF TypeOK, StoreType, RetryType, EventTypes, TerminalEvents,
       RetryEvent, RetryUnchanged, RetryThrows, AppendEvent, StoreFails, StoreWorks
  <1>2. RetryType' BY DEF TypeOK, RetryType, RowStates, RetryEvent, RetryUnchanged,
       RetryThrows, AppendEvent, StoreFails, StoreWorks
  <1>3. CountType' BY DEF TypeOK, CountType, RetryEvent, RetryUnchanged, RetryThrows,
       AppendEvent, StoreFails, StoreWorks
  <1>4. WorkerType' /\ WireType' /\ AgentType'
       BY Zenon DEF TypeOK, WorkerType, WireType, AgentType, RetryEvent, RetryUnchanged,
          RetryThrows, AppendEvent, StoreFails, StoreWorks
  <1> QED BY <1>1, <1>2, <1>3, <1>4, Zenon DEF TypeOK

\* So does a new connection of the agent.
LEMMA TypeConnect ==
    ASSUME TypeOK, Connect PROVE TypeOK'
  <1>1. WireType' BY DEF TypeOK, WireType, Connect
  <1>2. StoreType' /\ WorkerType' /\ RetryType' /\ AgentType' /\ CountType'
       BY Zenon DEF TypeOK, StoreType, WorkerType, RetryType, AgentType, CountType, Connect
  <1> QED BY <1>1, <1>2, Zenon DEF TypeOK

\* So does its loss.
LEMMA TypeDisconnect ==
    ASSUME TypeOK, Disconnect PROVE TypeOK'
  <1>1. WireType' BY DEF TypeOK, WireType, Disconnect, LinkLost
  <1>2. CountType' BY DEF TypeOK, CountType, Disconnect, LinkLost
  <1>3. StoreType' /\ WorkerType' /\ RetryType' /\ AgentType'
       BY Zenon DEF TypeOK, StoreType, WorkerType, RetryType, AgentType, Disconnect, LinkLost
  <1> QED BY <1>1, <1>2, <1>3, Zenon DEF TypeOK

\* So does a restart of the service.
LEMMA TypeServerRestart ==
    ASSUME TypeOK, ServerRestart PROVE TypeOK'
  <1>1. StoreType' BY DEF TypeOK, StoreType, recover_inflight, RowStates, OpenStates,
                      TerminalStates, TerminalEvents, ServerRestart
  <1>2. WorkerType' BY Zenon DEF TypeOK, WorkerType, RowStates, ServerRestart, LinkLost,
                       StoreFails, StoreWorks
  <1>3. RetryType' BY Zenon DEF TypeOK, RetryType, RowStates, ServerRestart, LinkLost,
                      StoreFails, StoreWorks
  <1>4. WireType' BY DEF TypeOK, WireType, ServerRestart, LinkLost, StoreFails, StoreWorks
  <1>5. CountType'
    <2>1. CASE retry.pc = "mark"
         BY <2>1 DEF TypeOK, CountType, RetryType, ServerRestart, StoreFails, StoreWorks
    <2>2. CASE retry.pc # "mark"
         BY <2>2 DEF TypeOK, CountType, ServerRestart, StoreFails, StoreWorks
    <2> QED BY <2>1, <2>2, Zenon
  <1>6. AgentType'
       BY Zenon DEF TypeOK, AgentType, ServerRestart, LinkLost, StoreFails, StoreWorks
  <1> QED BY <1>1, <1>2, <1>3, <1>4, <1>5, <1>6, Zenon DEF TypeOK

\* So does a restart of the agent.
LEMMA TypeAgentRestart ==
    ASSUME TypeOK, AgentRestart PROVE TypeOK'
  <1>1. WireType' BY DEF TypeOK, WireType, AgentRestart, LinkLost
  <1>2. AgentType' BY DEF TypeOK, AgentType, AgentRestart, LinkLost
  <1>3. CountType' BY DEF TypeOK, CountType, AgentRestart, LinkLost
  <1>4. StoreType' /\ WorkerType' /\ RetryType'
       BY Zenon DEF TypeOK, StoreType, WorkerType, RetryType, AgentRestart, LinkLost
  <1> QED BY <1>1, <1>2, <1>3, <1>4, Zenon DEF TypeOK

\* So does a dispatch the agent handles.
LEMMA TypeHandleDispatch ==
    ASSUME TypeOK, NEW c \in Cmd, HandleDispatch(c) PROVE TypeOK'
  <1> DEFINE a == [cmd |-> c, status |-> "Acked"]
             t == [cmd |-> c, status |-> ExpiredStatus]
  <1>1. a \in Message /\ t \in Message
       BY Zenon DEF Message, AckStatus, ResultStatus, ExpiredStatus
  <1> HIDE DEF a, t
  <1>2. outgoing \in Seq(Message) BY Zenon DEF TypeOK, WireType
  <1>3. Push(outgoing, a) \in Seq(Message) BY <1>1, <1>2, PushType, Zenon
  <1>4. Push(Push(outgoing, a), t) \in Seq(Message) BY <1>1, <1>3, PushType, Zenon
  <1>5. outgoing' \in Seq(Message) BY <1>2, <1>3, <1>4, Zenon DEF HandleDispatch, a, t
  <1>6. WireType' BY <1>5 DEF TypeOK, WireType, HandleDispatch, AgentUnchanged
  <1>7. queue' \in Seq(Cmd) BY DEF TypeOK, AgentType, HandleDispatch
  <1>8. AgentType' BY <1>7, Zenon DEF TypeOK, AgentType, HandleDispatch
  <1>9. CountType' BY Zenon DEF TypeOK, CountType, HandleDispatch, AgentUnchanged
  <1>10. StoreType' /\ WorkerType' /\ RetryType'
       BY Zenon DEF TypeOK, StoreType, WorkerType, RetryType, HandleDispatch, AgentUnchanged
  <1> QED BY <1>6, <1>8, <1>9, <1>10, Zenon DEF TypeOK

\* So does the start of an execution.
LEMMA TypeStart ==
    ASSUME TypeOK, StartExecution PROVE TypeOK'
  <1> DEFINE c == Head(queue)
  <1>1. c \in Cmd /\ Tail(queue) \in Seq(Cmd) BY DEF TypeOK, AgentType, StartExecution
  <1> HIDE DEF c
  <1>2. [cmd |-> c, status |-> "Running"] \in Message BY <1>1, Zenon DEF Message, AckStatus
  <1>3. outgoing' \in Seq(Message)
       BY <1>2, PushType, Zenon DEF c, TypeOK, WireType, StartExecution
  <1>4. WireType' BY <1>3, Zenon DEF TypeOK, WireType, StartExecution, AgentUnchanged
  <1>5. AgentType' BY <1>1, Zenon DEF c, TypeOK, AgentType, StartExecution
  <1>6. CountType' BY <1>1 DEF c, TypeOK, CountType, StartExecution, AgentUnchanged
  <1>7. StoreType' /\ WorkerType' /\ RetryType'
       BY Zenon DEF TypeOK, StoreType, WorkerType, RetryType, StartExecution, AgentUnchanged
  <1> QED BY <1>4, <1>5, <1>6, <1>7, Zenon DEF TypeOK

\* So does its end.
LEMMA TypeFinish ==
    ASSUME TypeOK, FinishExecution PROVE TypeOK'
  <1>1. executing \in Cmd BY Zenon DEF TypeOK, AgentType, FinishExecution
  <1>2. \A s \in {"Succeeded", "Failed"} : [cmd |-> executing, status |-> s] \in Message
       BY <1>1, Zenon DEF Message, ResultStatus
  <1>3. outgoing' \in Seq(Message)
       BY <1>2, PushType, Zenon DEF TypeOK, WireType, FinishExecution
  <1>4. WireType' BY <1>3, Zenon DEF TypeOK, WireType, FinishExecution, AgentUnchanged
  <1>5. AgentType' BY Zenon DEF TypeOK, AgentType, FinishExecution
  <1>6. StoreType' /\ WorkerType' /\ RetryType' /\ CountType'
       BY Zenon DEF TypeOK, StoreType, WorkerType, RetryType, CountType, FinishExecution,
          AgentUnchanged
  <1> QED BY <1>4, <1>5, <1>6, Zenon DEF TypeOK

\* So does a frame the agent writes.
LEMMA TypeWrite ==
    ASSUME TypeOK, Write PROVE TypeOK'
  <1>1. WireType' BY DEF TypeOK, WireType, Write, AgentUnchanged
  <1>2. StoreType' /\ WorkerType' /\ RetryType' /\ AgentType' /\ CountType'
       BY Zenon DEF TypeOK, StoreType, WorkerType, RetryType, AgentType, CountType, Write,
            AgentUnchanged
  <1> QED BY <1>1, <1>2, Zenon DEF TypeOK

\* So does the passing of time.
LEMMA TypeTime ==
    ASSUME TypeOK, NEW c \in Cmd, Expire(c) \/ BackoffElapses(c) PROVE TypeOK'
  <1>1. StoreType' BY Zenon DEF TypeOK, StoreType, Expire, BackoffElapses, TimeUnchanged
  <1>2. WorkerType' /\ RetryType' /\ WireType' /\ AgentType' /\ CountType'
       BY Zenon DEF TypeOK, WorkerType, RetryType, WireType, AgentType, CountType, Expire,
          BackoffElapses, TimeUnchanged
  <1> QED BY <1>1, <1>2, Zenon DEF TypeOK

\* Every reachable state is well typed: rows hold lifecycle states, the queues
\* hold messages, the threads hold commands.
THEOREM TypeCorrect == Spec => []TypeOK
  <1>1. ASSUME TypeOK, [Next]_vars PROVE TypeOK'
    <2>1. CASE UNCHANGED vars
         BY <1>1, <2>1, ZenonT(60) DEF vars, TypeOK, StoreType, WorkerType, RetryType, WireType, AgentType,
              CountType
    <2>2. CASE Next
         BY <1>1, <2>2, NextCases, TypeSubmit, TypeSubmitDispatch, TypeSubmitUpsert,
            TypeWorkerEvent, TypeAck, TypeResult, TypeTick, TypeExpire, TypeSend,
            TypeMark, TypeFail, TypeRetryEvent, TypeConnect, TypeDisconnect,
            TypeServerRestart, TypeAgentRestart, TypeHandleDispatch, TypeStart,
            TypeFinish, TypeWrite, TypeTime, Zenon
    <2> QED BY <1>1, <2>1, <2>2, Zenon
  <1> QED BY <1>1, TypeInit, PTL DEF Spec

-----------------------------------------------------------------------------
(* What the service records *)

\* Events by which the retry thread reports a command it did not deliver.
Undelivered == {"command_retry_exhausted", "command_retry_expired"}

\* The commands the retry thread holds and has not resolved yet.
Held == batch \cup IF retry.pc \in {"mark", "fail"} THEN {retry.cmd} ELSE {}

\* A terminal state is written and its event not yet appended, by the worker
\* and by the retry thread.
WorkerLogs(c) == /\ worker.pc = "event" /\ worker.cmd = c
                 /\ worker.type = "command_result_received"
RetryLogs(c)  == /\ retry.pc = "event" /\ retry.cmd = c
                 /\ retry.type \in Undelivered

\* An unused id has no trace.
FreshInv ==
    \A c \in Cmd \ used : rows[c].state = Absent /\ sends[c] = 0

\* A submission in progress.
SubmitInv ==
    /\ worker.pc \in {"dispatch", "upsert"}
          => rows[worker.cmd].state = Absent /\ worker.cmd \in used
    /\ worker.pc = "dispatch" => sends[worker.cmd] = 0
    /\ worker.pc = "upsert" =>
          \/ worker.state = "Dispatched"
          \/ worker.state = "RetryPending" /\ worker.max > 0 /\ sends[worker.cmd] = 0

\* What the retry thread holds is still parked, or was ended by a result.
HeldInv == \A c \in Held : rows[c].state \in {"RetryPending"} \cup TerminalStates

\* A parked command that is not being marked right now has no recorded send, and
\* neither has one that waits in the batch or is being failed.
UnsentInv ==
    \A c \in Cmd :
        \/ rows[c].state = "RetryPending" /\ ~(retry.pc = "mark" /\ retry.cmd = c)
        \/ c \in batch
        \/ retry.pc = "fail" /\ retry.cmd = c
        \/ RetryLogs(c)
        => sends[c] <= unmarked[c]

\* The thread takes a command out of the batch before it works on it.
BatchInv == /\ retry.pc \in {"mark", "fail"} => retry.cmd \notin batch
            /\ \A c \in batch : ~RetryLogs(c)

\* The only terminal states the worker logs are results, the only ones the retry
\* thread logs are its two reports.
KindInv == /\ worker.type \in TerminalEvents => worker.type = "command_result_received"
           /\ retry.type \in TerminalEvents => retry.type \in Undelivered

\* Nothing is logged, and nothing about to be logged, for a command still open.
OpenInv ==
    \A c \in Cmd : ~is_terminal(rows[c].state)
        => events[c] = {} /\ ~WorkerLogs(c) /\ ~RetryLogs(c)

\* A terminal state is logged once, with the state in the row.
LogInv ==
    /\ \A c \in Cmd : WorkerLogs(c) =>
          events[c] = {} /\ worker.state = rows[c].state /\ ~RetryLogs(c)
    /\ \A c \in Cmd : RetryLogs(c) =>
          events[c] = {} /\ retry.state = rows[c].state

\* What the thread still holds was not reported undelivered.
HeldNotReported == \A c \in Held : \A e \in events[c] : e[1] \notin Undelivered

IInv == /\ FreshInv /\ SubmitInv /\ HeldInv /\ UnsentInv /\ BatchInv
        /\ KindInv /\ OpenInv /\ LogInv /\ HeldNotReported
        /\ ParkedIsRetryable /\ SentAtMostOnce
        /\ FirstTerminalWins /\ ReportedUndeliveredWasNotSent

\* The parts of TypeOK the steps below use most.
LEMMA RowsTyped == TypeOK => rows \in [Cmd -> [state : RowStates, retry : Nat, max : Nat]]
  BY Zenon DEF TypeOK, StoreType
LEMMA CountsTyped == TypeOK => sends \in [Cmd -> Nat] /\ unmarked \in [Cmd -> Nat]
  BY Zenon DEF TypeOK, CountType

\* The boot whose recovery fails.
BootFails ==
    /\ UNCHANGED storeVars
    /\ unmarked' = IF retry.pc = "mark"
                   THEN [unmarked EXCEPT ![retry.cmd] = @ + 1] ELSE unmarked

\* What an ack does: nothing, a log entry, or a dispatched row moved on.
AckEffect(c, s, t) ==
    \/ UNCHANGED <<rows, worker>>
    \/ UNCHANGED rows /\ \E r \in RowStates : worker' = Task("event", c, 0, r, t)
    \/ /\ rows[c].state \in {"Dispatched", "Acked"}
       /\ rows' = [rows EXCEPT ![c].state = s]
       /\ worker' = Task("event", c, 0, s, t)

\* What a result does: nothing, a duplicate's log entry, or an open row ended.
ResultEffect(c, s) ==
    \/ UNCHANGED <<rows, worker>>
    \/ UNCHANGED rows /\ worker' = Task("event", c, 0, s, "command_result_duplicate")
    \/ /\ rows[c].state \in OpenStates
       /\ rows' = [rows EXCEPT ![c].state = s]
       /\ worker' = Task("event", c, 0, s, "command_result_received")

-----------------------------------------------------------------------------
USE DEF Absent, NoEvent, Idle, Loop, Task, Step, storeVars, serverVars, agentVars, bounds

\* Nothing is held, recorded or logged at the start.
LEMMA InvInit == Init => IInv
  BY DEF Init, IInv, FreshInv, SubmitInv, HeldInv, Held, UnsentInv, BatchInv, KindInv, OpenInv,
         LogInv, HeldNotReported, WorkerLogs, RetryLogs, ParkedIsRetryable, SentAtMostOnce,
         FirstTerminalWins, ReportedUndeliveredWasNotSent, TerminalEvents

\* The agent, the connection and the clocks do not touch what IInv is about.
LEMMA InvQuiet ==
    ASSUME IInv, UNCHANGED <<rows, events, used, worker, retry, batch, sends, unmarked>>
    PROVE  IInv'
  <1>1. FreshInv' /\ SubmitInv' /\ KindInv' /\ ParkedIsRetryable' /\ SentAtMostOnce'
       BY Zenon DEF IInv, FreshInv, SubmitInv, KindInv, ParkedIsRetryable, SentAtMostOnce
  <1>2. HeldInv' /\ UnsentInv' /\ BatchInv' /\ HeldNotReported'
       BY Zenon DEF IInv, HeldInv, UnsentInv, BatchInv, HeldNotReported, Held, RetryLogs
  <1>3. OpenInv' /\ LogInv' BY Zenon DEF IInv, OpenInv, LogInv, WorkerLogs, RetryLogs
  <1>4. FirstTerminalWins' /\ ReportedUndeliveredWasNotSent'
       BY DEF IInv, FirstTerminalWins, ReportedUndeliveredWasNotSent
  <1> QED BY <1>1, <1>2, <1>3, <1>4, Zenon DEF IInv

\* on_command_ack has that effect.
LEMMA AckEffects ==
    ASSUME TypeOK, on_command_ack
    PROVE  /\ \E c \in Cmd, s \in AckStatus, t \in EventTypes \ TerminalEvents :
                 AckEffect(c, s, t)
           /\ worker.pc = "idle" /\ UNCHANGED <<events, used, retry, batch, sends, unmarked>>
  <1> DEFINE m == Head(toServer)
  <1>1. m \in Message BY DEF TypeOK, WireType, on_command_ack
  <1>2. m.cmd \in Cmd /\ m.status \in AckStatus /\ rows[m.cmd].state \in RowStates
       BY <1>1, Zenon DEF Message, on_command_ack, TypeOK, StoreType
  <1>3. {"command_ack_received", "command_ack_ignored_terminal",
         "command_ack_rejected_invalid_transition"} \subseteq EventTypes \ TerminalEvents
       BY Zenon DEF EventTypes, TerminalEvents
  <1>4. AckStatus \subseteq RowStates BY Zenon DEF AckStatus, RowStates, OpenStates
  <1>5. \E t \in EventTypes \ TerminalEvents : AckEffect(m.cmd, m.status, t)
       BY <1>2, <1>3, <1>4, Zenon DEF on_command_ack, AckEffect, WriteState, WorkerAppends,
          update_state_if_not_terminal, is_terminal, RowStates,
          is_allowed_non_terminal_transition, AckStatus
  <1> QED BY <1>2, <1>5, Zenon DEF on_command_ack, WriteState

\* on_command_result has that effect.
LEMMA ResultEffects ==
    ASSUME TypeOK, on_command_result
    PROVE  /\ \E c \in Cmd, s \in ResultStatus : ResultEffect(c, s)
           /\ worker.pc = "idle" /\ UNCHANGED <<events, used, retry, batch, sends, unmarked>>
  <1> DEFINE m == Head(toServer)
  <1>1. m \in Message BY DEF TypeOK, WireType, on_command_result
  <1>2. m.cmd \in Cmd /\ m.status \in ResultStatus
       BY <1>1, Zenon DEF Message, on_command_result
  <1>3. ResultEffect(m.cmd, m.status)
       BY <1>2, Zenon DEF on_command_result, ResultEffect, WriteState, WorkerAppends,
          update_terminal_state_once
  <1> QED BY <1>2, <1>3, Zenon DEF on_command_result, WriteState

\* append_event adds nothing but the entry for an applied terminal state.
LEMMA AppendCases ==
    ASSUME NEW c \in Cmd, NEW t, NEW s, StoreType, AppendEvent(c, t, s)
    PROVE  /\ \A d \in Cmd : \A e : e \in events'[d] =>
                 e \in events[d] \/ (d = c /\ t \in TerminalEvents /\ e = <<t, s>>)
           /\ UNCHANGED <<rows, due>>
  BY Zenon DEF AppendEvent, StoreType

\* A submission takes a fresh id.
LEMMA InvSubmit ==
    ASSUME TypeOK, IInv, NEW c \in Cmd, NEW m \in 0..MaxRetry, Submit(c, m) PROVE IInv'
  <1>1. FreshInv' BY Zenon DEF TypeOK, IInv, FreshInv, StoreType, WorkerType, Submit
  <1>2. SubmitInv' BY Zenon DEF TypeOK, IInv, SubmitInv, FreshInv, StoreType, WorkerType, Submit
  <1>3. KindInv' BY Zenon DEF TypeOK, IInv, KindInv, Undelivered, TerminalEvents, WorkerType,
                    Submit
  <1>4. OpenInv' BY Zenon DEF TypeOK, IInv, OpenInv, WorkerLogs, RetryLogs, Undelivered,
                    is_terminal, StoreType, WorkerType, Submit
  <1>5. LogInv' BY Zenon DEF TypeOK, IInv, LogInv, WorkerLogs, RetryLogs, Undelivered,
                   StoreType, WorkerType, Submit
  <1>6. HeldInv' /\ UnsentInv' /\ BatchInv' /\ HeldNotReported' /\ ParkedIsRetryable'
       /\ SentAtMostOnce' /\ FirstTerminalWins' /\ ReportedUndeliveredWasNotSent'
    <2>1. UNCHANGED <<rows, events, retry, batch, sends, unmarked>> BY Zenon DEF Submit
    <2> QED BY <2>1 DEF IInv, HeldInv, UnsentInv, BatchInv, HeldNotReported,
            ParkedIsRetryable, SentAtMostOnce, FirstTerminalWins,
            ReportedUndeliveredWasNotSent, Held, RetryLogs
  <1> QED BY <1>1, <1>2, <1>3, <1>4, <1>5, <1>6, Zenon DEF IInv

\* Its dispatch sends a command that was never sent, or parks it.
LEMMA InvSubmitDispatch ==
    ASSUME TypeOK, IInv, SubmitDispatch PROVE IInv'
  <1>1. FreshInv' BY Zenon DEF TypeOK, IInv, FreshInv, SubmitInv, StoreType, WorkerType,
                     CountType, SubmitDispatch, SendCommand
  <1>2. SubmitInv' BY SMTT(60), Zenon DEF TypeOK, IInv, SubmitInv, StoreType, WorkerType,
                      CountType, SubmitDispatch, SendCommand
  <1>3. UnsentInv' BY SMTT(60), Zenon DEF TypeOK, IInv, UnsentInv, RetryLogs, Undelivered,
                      SubmitInv, HeldInv, Held, OpenInv, is_terminal,
                      TerminalStates, StoreType, WorkerType, RetryType,
                      CountType, SubmitDispatch, SendCommand
  <1>4. KindInv' BY DEF TypeOK, IInv, KindInv, Undelivered, TerminalEvents, WorkerType,
       SubmitDispatch, SendCommand
  <1>5. OpenInv' BY SMTT(60), Zenon DEF TypeOK, IInv, OpenInv, WorkerLogs, RetryLogs,
                    Undelivered, is_terminal, StoreType, WorkerType,
                    SubmitDispatch, SendCommand
  <1>6. LogInv' BY SMTT(60), Zenon DEF TypeOK, IInv, LogInv, WorkerLogs, RetryLogs, Undelivered,
                   StoreType, WorkerType, SubmitDispatch, SendCommand
  <1>7. SentAtMostOnce' BY SMTT(60), Zenon DEF TypeOK, IInv, SentAtMostOnce, SubmitInv,
                           WorkerType, CountType, SubmitDispatch,
                           SendCommand
  <1>8. ReportedUndeliveredWasNotSent' BY Zenon DEF TypeOK, IInv, ReportedUndeliveredWasNotSent,
                                          Undelivered,
                                          SubmitInv,
                                          OpenInv,
                                          is_terminal,
                                          TerminalStates,
                                          WorkerType,
                                          CountType,
                                          SubmitDispatch,
                                          SendCommand
  <1>9. HeldInv' /\ BatchInv' /\ HeldNotReported' /\ ParkedIsRetryable'
       /\ FirstTerminalWins'
    <2>1. UNCHANGED <<rows, events, retry, batch>> BY Zenon DEF SubmitDispatch
    <2> QED BY <2>1, SMTT(60) DEF IInv, HeldInv, BatchInv, HeldNotReported, ParkedIsRetryable,
            FirstTerminalWins, Held, RetryLogs
  <1> QED BY <1>1, <1>2, <1>3, <1>4, <1>5, <1>6, <1>7, <1>8, <1>9, Zenon DEF IInv

\* The insertion of its row.
LEMMA InvSubmitUpsert ==
    ASSUME TypeOK, IInv, SubmitUpsert PROVE IInv'
  <1>1. FreshInv' BY Zenon DEF TypeOK, IInv, FreshInv, SubmitInv, StoreType, WorkerType,
                     SubmitUpsert, upsert
  <1>2. SubmitInv' BY SMTT(60), Zenon DEF TypeOK, IInv, SubmitInv, StoreType, WorkerType,
                      SubmitUpsert, upsert
  <1>3. HeldInv' BY SMTT(60), Zenon DEF TypeOK, IInv, HeldInv, Held, SubmitInv, TerminalStates,
                    StoreType, WorkerType, RetryType, SubmitUpsert, upsert
  <1>4. UnsentInv' BY SMTT(60), Zenon DEF TypeOK, IInv, UnsentInv, RetryLogs, Undelivered,
                      SubmitInv, StoreType, WorkerType, RetryType, CountType,
                      SubmitUpsert, upsert
  <1>5. KindInv' BY DEF TypeOK, IInv, KindInv, Undelivered, TerminalEvents, WorkerType,
       SubmitUpsert, upsert
  <1>6. OpenInv' BY DEF TypeOK, IInv, OpenInv, WorkerLogs, RetryLogs, is_terminal, SubmitInv,
                    TerminalStates, StoreType, SubmitUpsert, upsert
  <1>7. LogInv' BY DEF TypeOK, IInv, LogInv, WorkerLogs, RetryLogs, SubmitInv, OpenInv,
                   is_terminal, TerminalStates, StoreType, SubmitUpsert, upsert
  <1>8. ParkedIsRetryable'
    <2>1. worker.cmd \in Cmd /\ worker.max \in Nat BY Zenon DEF SubmitUpsert, TypeOK, WorkerType
    <2>2. \/ rows' = rows
          \/ /\ worker.state = "RetryPending" => worker.max > 0
             /\ rows' = [rows EXCEPT ![worker.cmd] =
                             [state |-> worker.state, retry |-> 0, max |-> worker.max]]
         BY Zenon DEF SubmitUpsert, upsert, IInv, SubmitInv
    <2> QED BY <2>1, <2>2, SMTT(60), Zenon DEF IInv, ParkedIsRetryable, TypeOK, StoreType
  <1>9. FirstTerminalWins' BY DEF TypeOK, IInv, FirstTerminalWins, SubmitInv, OpenInv,
                              is_terminal, TerminalStates, StoreType,
                              SubmitUpsert, upsert
  <1>10. BatchInv' /\ HeldNotReported' /\ SentAtMostOnce' /\ ReportedUndeliveredWasNotSent'
    <2>1. UNCHANGED <<events, retry, batch, sends, unmarked>> BY Zenon DEF SubmitUpsert, upsert
    <2> QED BY <2>1, Zenon DEF IInv, BatchInv, HeldNotReported, SentAtMostOnce,
               ReportedUndeliveredWasNotSent, RetryLogs, Held
  <1> QED BY <1>1, <1>2, <1>3, <1>4, <1>5, <1>6, <1>7, <1>8, <1>9, <1>10, Zenon DEF IInv

\* The event that ends the worker's task: a result is logged with the state in the row.
LEMMA InvWorkerEvent ==
    ASSUME TypeOK, IInv, WorkerEvent PROVE IInv'
  <1>1. /\ worker.cmd \in Cmd
        /\ \A d \in Cmd : \A e : e \in events'[d] =>
              \/ e \in events[d]
              \/ d = worker.cmd /\ worker.type \in TerminalEvents
                 /\ e = <<worker.type, worker.state>>
        /\ UNCHANGED rows
       BY AppendCases DEF TypeOK, StoreType, WorkerType, WorkerEvent
  <1>2. SubmitInv' BY <1>1, Zenon DEF TypeOK, IInv, SubmitInv, WorkerType, WorkerEvent
  <1>3. KindInv' BY <1>1, Zenon DEF TypeOK, IInv, KindInv, Undelivered, TerminalEvents,
                    WorkerType, WorkerEvent
  <1>4. OpenInv' BY <1>1, Zenon DEF TypeOK, IInv, OpenInv, WorkerLogs, RetryLogs, Undelivered,
                    is_terminal, KindInv, WorkerType, WorkerEvent
  <1>5. LogInv' BY <1>1, Zenon DEF TypeOK, IInv, LogInv, WorkerLogs, RetryLogs, Undelivered,
                   KindInv, WorkerType, WorkerEvent
  <1>6. HeldNotReported' BY <1>1 DEF TypeOK, IInv, HeldNotReported, Held, Undelivered, KindInv,
                            RetryType, WorkerEvent
  <1>7. FirstTerminalWins' BY <1>1 DEF IInv, FirstTerminalWins, LogInv, KindInv, WorkerLogs,
                              WorkerEvent
  <1>8. ReportedUndeliveredWasNotSent' BY <1>1 DEF IInv, ReportedUndeliveredWasNotSent, KindInv,
                                          WorkerEvent
  <1>9. FreshInv' /\ HeldInv' /\ UnsentInv' /\ BatchInv' /\ ParkedIsRetryable'
       /\ SentAtMostOnce'
       BY <1>1, Zenon DEF IInv, FreshInv, HeldInv, UnsentInv, BatchInv, ParkedIsRetryable,
          SentAtMostOnce, Held, RetryLogs, Undelivered, WorkerEvent
  <1> QED BY <1>2, <1>3, <1>4, <1>5, <1>6, <1>7, <1>8, <1>9, Zenon DEF IInv

\* An ack moves an open row only, to an open state.
LEMMA InvAck ==
    ASSUME TypeOK, IInv, on_command_ack PROVE IInv'
  <1>1. PICK c \in Cmd, s \in AckStatus, t \in EventTypes \ TerminalEvents :
               AckEffect(c, s, t)
       BY AckEffects, Zenon
  <1>2. /\ worker.pc = "idle" /\ UNCHANGED <<events, used, retry, batch, sends, unmarked>>
        /\ rows[c].state \in RowStates
       BY AckEffects, Zenon DEF TypeOK, StoreType
  <1>3. FreshInv' BY <1>1, <1>2, Zenon DEF TypeOK, IInv, FreshInv, OpenStates, TerminalStates,
                     StoreType, AckStatus, TerminalEvents, is_terminal,
                     AckEffect
  <1>4. SubmitInv' BY <1>1, <1>2 DEF TypeOK, IInv, SubmitInv, StoreType, WorkerType,
       AckStatus, TerminalEvents, is_terminal, AckEffect
  <1>5. HeldInv' BY <1>1, <1>2 DEF TypeOK, IInv, HeldInv, Held, OpenStates, TerminalStates,
       StoreType, RetryType, AckStatus, TerminalEvents, is_terminal, AckEffect
  <1>6. UnsentInv'
    <2>1. \A d \in Cmd : rows'[d].state = "RetryPending" => rows[d].state = "RetryPending"
         BY <1>1, Zenon DEF AckEffect, AckStatus, TypeOK, StoreType
    <2> QED BY <1>2, <2>1, Zenon DEF IInv, UnsentInv, RetryLogs
  <1>7. KindInv' BY <1>1, <1>2 DEF IInv, KindInv, Undelivered, TerminalEvents, AckStatus,
       is_terminal, AckEffect
  <1>8. OpenInv' BY <1>1, <1>2 DEF TypeOK, IInv, OpenInv, WorkerLogs, RetryLogs,
       Undelivered, is_terminal, OpenStates, TerminalStates, StoreType, AckStatus,
       TerminalEvents, AckEffect
  <1>9. LogInv' BY <1>1, <1>2 DEF TypeOK, IInv, LogInv, WorkerLogs, RetryLogs, Undelivered,
       OpenInv, OpenStates, TerminalStates, StoreType, AckStatus, TerminalEvents,
       is_terminal, AckEffect
  <1>10. ParkedIsRetryable' BY <1>1, <1>2 DEF TypeOK, IInv, ParkedIsRetryable, StoreType,
       AckStatus, TerminalEvents, is_terminal, AckEffect
  <1>11. FirstTerminalWins' BY <1>1, <1>2 DEF TypeOK, IInv, FirstTerminalWins, OpenInv,
       OpenStates, TerminalStates, StoreType, AckStatus, TerminalEvents, is_terminal,
       AckEffect
  <1>12. BatchInv' /\ HeldNotReported' /\ SentAtMostOnce' /\ ReportedUndeliveredWasNotSent'
       BY <1>1, <1>2, Zenon DEF IInv, BatchInv, HeldNotReported, SentAtMostOnce,
          ReportedUndeliveredWasNotSent, RetryLogs, Undelivered, Held, AckStatus,
          TerminalEvents, is_terminal
  <1> QED BY <1>3, <1>4, <1>5, <1>6, <1>7, <1>8, <1>9, <1>10, <1>11, <1>12, Zenon DEF IInv

\* A result ends an open row only.
LEMMA InvResult ==
    ASSUME TypeOK, IInv, on_command_result PROVE IInv'
  <1>1. PICK c \in Cmd, s \in ResultStatus : ResultEffect(c, s)
       BY ResultEffects, Zenon
  <1>2. worker.pc = "idle" /\ UNCHANGED <<events, used, retry, batch, sends, unmarked>>
       BY ResultEffects, Zenon
  <1>3. FreshInv' BY <1>1, <1>2, Zenon DEF TypeOK, IInv, FreshInv, OpenStates, TerminalStates,
                     StoreType, ResultStatus, is_terminal, ResultEffect
  <1>4. SubmitInv' BY <1>1, <1>2 DEF TypeOK, IInv, SubmitInv, StoreType, WorkerType,
       ResultStatus, is_terminal, ResultEffect
  <1>5. HeldInv' BY <1>1, <1>2 DEF TypeOK, IInv, HeldInv, Held, OpenStates, TerminalStates,
       StoreType, RetryType, ResultStatus, is_terminal, ResultEffect
  <1>6. UnsentInv'
    <2>1. \A d \in Cmd : rows'[d].state = "RetryPending" => rows[d].state = "RetryPending"
         BY <1>1, Zenon DEF ResultEffect, ResultStatus, TypeOK, StoreType
    <2> QED BY <1>2, <2>1, Zenon DEF IInv, UnsentInv, RetryLogs
  <1>7. KindInv' BY <1>1, <1>2 DEF IInv, KindInv, Undelivered, TerminalEvents, ResultStatus,
       is_terminal, ResultEffect
  <1>8. OpenInv' BY <1>1, <1>2 DEF TypeOK, IInv, OpenInv, WorkerLogs, RetryLogs,
       Undelivered, is_terminal, OpenStates, TerminalStates, StoreType, ResultStatus,
       ResultEffect
  <1>9. LogInv' BY <1>1, <1>2 DEF TypeOK, IInv, LogInv, WorkerLogs, RetryLogs, Undelivered,
       OpenInv, OpenStates, TerminalStates, StoreType, ResultStatus, is_terminal,
       ResultEffect
  <1>10. ParkedIsRetryable' BY <1>1, <1>2, Zenon DEF TypeOK, IInv, ParkedIsRetryable, StoreType,
                               ResultStatus, is_terminal,
                               ResultEffect
  <1>11. FirstTerminalWins' BY <1>1, <1>2 DEF TypeOK, IInv, FirstTerminalWins, OpenInv,
       OpenStates, TerminalStates, StoreType, ResultStatus, is_terminal, ResultEffect
  <1>12. BatchInv' /\ HeldNotReported' /\ SentAtMostOnce' /\ ReportedUndeliveredWasNotSent'
       BY <1>1, <1>2, Zenon DEF IInv, BatchInv, HeldNotReported, SentAtMostOnce,
          ReportedUndeliveredWasNotSent, RetryLogs, Undelivered, Held, ResultStatus,
          is_terminal
  <1> QED BY <1>3, <1>4, <1>5, <1>6, <1>7, <1>8, <1>9, <1>10, <1>11, <1>12, Zenon DEF IInv

\* A tick lists parked rows only.
LEMMA InvRetryTick ==
    ASSUME TypeOK, IInv, RetryTick PROVE IInv'
  <1>1. HeldInv' BY Zenon DEF TypeOK, IInv, HeldInv, Held, StoreType, RetryType, RetryTick,
                    RetryUnchanged, list_retry_ready
  <1>2. UnsentInv' BY Zenon DEF TypeOK, IInv, UnsentInv, RetryLogs, Undelivered, StoreType,
                      RetryType, RetryTick, RetryUnchanged, list_retry_ready
  <1>3. BatchInv' BY Zenon DEF TypeOK, IInv, BatchInv, RetryLogs, Undelivered, RetryType,
                     RetryTick, RetryUnchanged, list_retry_ready
  <1>4. HeldNotReported'
    <2>1. /\ retry' = retry /\ retry.pc = "loop" /\ events' = events
          /\ \A d \in batch' : d \in Cmd /\ rows[d].state = "RetryPending"
         BY Zenon DEF RetryTick, list_retry_ready, TypeOK, StoreType
    <2>2. \A d \in batch' : events[d] = {}
         BY <2>1, Zenon DEF IInv, OpenInv, is_terminal, TerminalStates
    <2> QED BY <2>1, <2>2, Zenon DEF HeldNotReported, Held
  <1>5. FreshInv' /\ SubmitInv' /\ KindInv' /\ OpenInv' /\ LogInv' /\ ParkedIsRetryable'
       /\ SentAtMostOnce' /\ FirstTerminalWins' /\ ReportedUndeliveredWasNotSent'
    <2>1. UNCHANGED <<rows, events, used, worker, retry, sends, unmarked>> BY Zenon
                                                                              DEF RetryTick,
                                                                              RetryUnchanged
    <2>2. FreshInv' /\ SubmitInv' /\ KindInv' /\ ParkedIsRetryable' /\ SentAtMostOnce'
         BY <2>1, Zenon DEF IInv, FreshInv, SubmitInv, KindInv, ParkedIsRetryable,
            SentAtMostOnce
    <2>3. OpenInv' /\ LogInv' BY <2>1, Zenon DEF IInv, OpenInv, LogInv, WorkerLogs, RetryLogs
    <2>4. FirstTerminalWins' /\ ReportedUndeliveredWasNotSent'
         BY <2>1 DEF IInv, FirstTerminalWins, ReportedUndeliveredWasNotSent
    <2> QED BY <2>2, <2>3, <2>4, Zenon
  <1> QED BY <1>1, <1>2, <1>3, <1>4, <1>5, Zenon DEF IInv

\* An expired row is ended unless a result ended it first.
LEMMA InvRetryExpire ==
    ASSUME TypeOK, IInv, NEW c \in Cmd, RetryExpire(c) PROVE IInv'
  <1>1. FreshInv' BY Zenon DEF TypeOK, IInv, FreshInv, OpenStates, TerminalStates, StoreType,
                     RetryType, RetryExpire, RetryUnchanged, RetryThrows,
                     WriteState, update_terminal_state_once, is_terminal,
                     is_allowed_terminal_transition
  <1>2. SubmitInv' BY Zenon DEF TypeOK, IInv, SubmitInv, OpenStates, TerminalStates, StoreType,
                      WorkerType, RetryType, RetryExpire, RetryUnchanged,
                      RetryThrows, WriteState, update_terminal_state_once,
                      is_terminal, is_allowed_terminal_transition
  <1>3. HeldInv' BY DEF TypeOK, IInv, HeldInv, Held, OpenStates, TerminalStates, StoreType,
       RetryType, RetryExpire, RetryUnchanged, RetryThrows, WriteState,
       update_terminal_state_once, is_terminal, is_allowed_terminal_transition
  <1>4. UnsentInv' BY SMTT(60), Zenon DEF TypeOK, IInv, UnsentInv, RetryLogs, Undelivered, StoreType,
       RetryType, CountType, RetryExpire, RetryUnchanged, RetryThrows, WriteState,
       update_terminal_state_once, is_terminal, is_allowed_terminal_transition
  <1>5. BatchInv' BY DEF TypeOK, IInv, BatchInv, RetryLogs, Undelivered, RetryType,
       RetryExpire, RetryUnchanged, RetryThrows, WriteState, update_terminal_state_once,
       is_terminal, is_allowed_terminal_transition
  <1>6. KindInv' BY DEF TypeOK, IInv, KindInv, Undelivered, TerminalEvents, RetryType,
       RetryExpire, RetryUnchanged, RetryThrows, WriteState, update_terminal_state_once,
       is_terminal, is_allowed_terminal_transition
  <1>7. OpenInv' BY DEF TypeOK, IInv, OpenInv, WorkerLogs, RetryLogs, Undelivered,
       is_terminal, OpenStates, TerminalStates, StoreType, RetryType, RetryExpire,
       RetryUnchanged, RetryThrows, WriteState, update_terminal_state_once,
       is_allowed_terminal_transition
  <1>8. LogInv' BY DEF TypeOK, IInv, LogInv, WorkerLogs, RetryLogs, Undelivered, OpenInv,
       OpenStates, TerminalStates, StoreType, RetryType, RetryExpire, RetryUnchanged,
       RetryThrows, WriteState, update_terminal_state_once, is_terminal,
       is_allowed_terminal_transition
  <1>9. HeldNotReported' BY DEF TypeOK, IInv, HeldNotReported, Held, Undelivered,
       RetryType, RetryExpire, RetryUnchanged, RetryThrows, WriteState,
       update_terminal_state_once, is_terminal, is_allowed_terminal_transition
  <1>10. ParkedIsRetryable'
    <2> SUFFICES ASSUME NEW d \in Cmd, rows'[d].state = "RetryPending"
                 PROVE  rows'[d].retry < rows'[d].max
         BY Zenon DEF ParkedIsRetryable
    <2>1. rows' = rows \/ rows' = [rows EXCEPT ![c].state = "TimedOut"]
         BY Zenon DEF RetryExpire, WriteState
    <2> QED BY <2>1, Zenon DEF IInv, ParkedIsRetryable, TypeOK, StoreType
  <1>11. FirstTerminalWins' BY DEF TypeOK, IInv, FirstTerminalWins, OpenInv, OpenStates,
       TerminalStates, StoreType, RetryType, RetryExpire, RetryUnchanged, RetryThrows,
       WriteState, update_terminal_state_once, is_terminal, is_allowed_terminal_transition
  <1>12. SentAtMostOnce' /\ ReportedUndeliveredWasNotSent'
    <2>1. UNCHANGED <<events, sends, unmarked>> BY Zenon DEF RetryExpire, RetryUnchanged,
                                                   WriteState
    <2> QED BY <2>1, Zenon DEF IInv, SentAtMostOnce, ReportedUndeliveredWasNotSent
  <1> QED BY <1>1, <1>2, <1>3, <1>4, <1>5, <1>6, <1>7, <1>8, <1>9, <1>10, <1>11, <1>12, Zenon
             DEF IInv

\* A retry sends a parked command that was never recorded as sent.
LEMMA InvRetrySend ==
    ASSUME TypeOK, IInv, NEW c \in Cmd, RetrySend(c) PROVE IInv'
  <1>1. FreshInv' BY Zenon DEF TypeOK, IInv, FreshInv, HeldInv, Held, TerminalStates, StoreType,
                     RetryType, CountType, RetrySend, RetryUnchanged,
                     SendCommand
  <1>2. SubmitInv' BY Zenon DEF TypeOK, IInv, SubmitInv, HeldInv, Held, TerminalStates,
                      CountType, WorkerType, RetrySend, RetryUnchanged,
                      SendCommand
  <1>3. HeldInv' BY DEF IInv, HeldInv, Held, RetrySend
  <1>4. UnsentInv' BY SMTT(60), Zenon DEF TypeOK, IInv, UnsentInv, RetryLogs, CountType, RetrySend, SendCommand
  <1>5. BatchInv' BY DEF BatchInv, RetryLogs, RetrySend
  <1>6. KindInv' BY DEF IInv, KindInv, TerminalEvents, RetrySend, RetryUnchanged
  <1>7. OpenInv' BY DEF IInv, OpenInv, WorkerLogs, RetryLogs, RetrySend, RetryUnchanged
  <1>8. LogInv'
    <2>1. /\ UNCHANGED <<rows, events, worker>>
          /\ retry'.pc \in {"mark", "fail"}
         BY DEF RetrySend, RetryUnchanged
    <2> QED BY <2>1, Zenon DEF IInv, LogInv, WorkerLogs, RetryLogs
  <1>9. HeldNotReported'
    <2>1. /\ events' = events /\ batch' \subseteq batch /\ c \in batch
          /\ retry'.cmd = c
         BY DEF RetrySend
    <2> QED BY <2>1, Zenon DEF IInv, HeldNotReported, Held
  <1>10. SentAtMostOnce'
    <2>1. sends[c] <= unmarked[c] BY Zenon DEF RetrySend, IInv, UnsentInv
    <2> QED BY <2>1 DEF IInv, SentAtMostOnce, TypeOK, CountType, RetrySend, SendCommand
  <1>11. ReportedUndeliveredWasNotSent' BY Zenon DEF TypeOK, IInv,
                                           ReportedUndeliveredWasNotSent,
                                           Undelivered,
                                           HeldNotReported,
                                           Held,
                                           RetryType,
                                           CountType,
                                           RetrySend,
                                           RetryUnchanged,
                                           SendCommand
  <1>12. ParkedIsRetryable' /\ FirstTerminalWins'
    <2>1. UNCHANGED <<rows, events>> BY Zenon DEF RetrySend, RetryUnchanged
    <2> QED BY <2>1 DEF IInv, ParkedIsRetryable, FirstTerminalWins
  <1> QED BY <1>1, <1>2, <1>3, <1>4, <1>5, <1>6, <1>7, <1>8, <1>9, <1>10, <1>11, <1>12, Zenon
             DEF IInv

\* A sent command is recorded, or counted as unmarked.
LEMMA InvRetryMark ==
    ASSUME TypeOK, IInv, RetryMark PROVE IInv'
  <1> DEFINE c == retry.cmd
  <1>1. /\ c \in Cmd /\ c \notin batch /\ retry.pc = "mark" /\ batch \subseteq Cmd
        /\ UNCHANGED <<used, worker, events, sends>>
       BY Zenon DEF RetryMark, RetryUnchanged, WriteState, TypeOK, RetryType, IInv, BatchInv
  <1>2. \/ /\ retry' = Loop /\ batch' = {} /\ rows' = rows
           /\ unmarked' = [unmarked EXCEPT ![c] = @ + 1]
        \/ /\ retry' = Loop /\ batch' = batch /\ rows' = rows /\ unmarked' = unmarked
           /\ rows[c].state # "RetryPending"
        \/ /\ retry' = Step("event", c, "Dispatched", "command_retry_dispatched")
           /\ batch' = batch /\ unmarked' = unmarked /\ rows[c].state = "RetryPending"
           /\ rows' = [rows EXCEPT ![c].state = "Dispatched"]
       BY Zenon DEF RetryMark, RetryThrows, RetryAppends, WriteState,
          update_state_if_not_terminal, is_allowed_non_terminal_transition, is_terminal,
          TerminalStates
  <1>3. ASSUME NEW d \in Cmd
        PROVE  /\ \/ rows'[d] = rows[d]
                  \/ d = c /\ rows[c].state = "RetryPending" /\ rows'[c].state = "Dispatched"
               /\ d = c /\ rows'[c].state = "RetryPending" => unmarked'[c] = unmarked[c] + 1
               /\ sends[d] \in Nat /\ unmarked[d] \in Nat /\ unmarked'[d] \in Nat
               /\ unmarked[d] <= unmarked'[d]
       BY <1>1, <1>2, RowsTyped, CountsTyped
  <1>4. /\ retry'.pc \in {"loop", "event"} /\ batch' \subseteq batch /\ Held' \subseteq batch
        /\ retry'.type \notin TerminalEvents /\ \A d : ~RetryLogs(d)'
       BY <1>2 DEF Held, RetryLogs, Undelivered, TerminalEvents
  <1> HIDE DEF c
  <1>5. FreshInv' BY <1>1, <1>3, Zenon DEF IInv, FreshInv
  <1>6. SubmitInv'
    <2>1. worker.pc \in {"dispatch", "upsert"} => worker.cmd \in Cmd BY Zenon DEF TypeOK,
                                                                        WorkerType
    <2> QED BY <1>1, <1>3, <2>1, Zenon DEF IInv, SubmitInv
  <1>7. HeldInv' BY <1>1, <1>3, <1>4, Zenon DEF IInv, HeldInv, Held
  <1>8. UnsentInv'
    <2> SUFFICES ASSUME NEW d \in Cmd,
                        \/ rows'[d].state = "RetryPending" \/ d \in batch'
                 PROVE  sends'[d] <= unmarked'[d]
        BY <1>4, Zenon DEF UnsentInv
    <2>1. CASE d = c
      <3>1. rows'[c].state = "RetryPending" BY <1>1, <1>4, <2>1, Zenon
      <3>2. sends[d] <= 1 + unmarked[d] /\ unmarked'[d] = unmarked[d] + 1
           BY <1>3, <2>1, <3>1, Zenon DEF IInv, SentAtMostOnce
      <3> QED BY <1>1, <1>3, <3>2
    <2>2. CASE d # c
      <3>1. rows'[d] = rows[d] BY <1>3, <2>2, Zenon
      <3>2. sends[d] <= unmarked[d] BY <1>4, <2>2, <3>1, Zenon DEF IInv, UnsentInv, c
      <3> QED BY <1>1, <1>3, <3>2
    <2> QED BY <2>1, <2>2, Zenon
  <1>9. BatchInv' BY <1>4, Zenon DEF BatchInv
  <1>10. KindInv' BY <1>1, <1>4, Zenon DEF IInv, KindInv
  <1>11. OpenInv'
    <2>1. \A d \in Cmd : WorkerLogs(d)' <=> WorkerLogs(d) BY <1>1, Zenon DEF WorkerLogs
    <2>2. ~is_terminal("RetryPending") BY Zenon DEF is_terminal, TerminalStates
    <2> QED BY <1>1, <1>3, <1>4, <2>1, <2>2, Zenon DEF IInv, OpenInv
  <1>12. LogInv'
    <2>1. \A d \in Cmd : WorkerLogs(d)' <=> WorkerLogs(d) BY <1>1, Zenon DEF WorkerLogs
    <2>2. ~is_terminal("RetryPending") BY Zenon DEF is_terminal, TerminalStates
    <2> QED BY <1>1, <1>3, <1>4, <2>1, <2>2, Zenon DEF IInv, LogInv, OpenInv
  <1>13. HeldNotReported' BY <1>1, <1>4, Zenon DEF IInv, HeldNotReported, Held
  <1>14. ParkedIsRetryable' BY <1>3, Zenon DEF IInv, ParkedIsRetryable
  <1>15. SentAtMostOnce' BY <1>1, <1>3 DEF IInv, SentAtMostOnce
  <1>16. FirstTerminalWins'
    <2>1. rows[c].state = "RetryPending" => events[c] = {}
         BY <1>1, Zenon DEF IInv, OpenInv, is_terminal, TerminalStates
    <2> QED BY <1>1, <1>3, <2>1 DEF IInv, FirstTerminalWins
  <1>17. ReportedUndeliveredWasNotSent'
       BY <1>1, <1>3 DEF IInv, ReportedUndeliveredWasNotSent
  <1> QED BY <1>5, <1>6, <1>7, <1>8, <1>9, <1>10, <1>11, <1>12, <1>13, <1>14, <1>15, <1>16,
             <1>17, Zenon DEF IInv

\* An unsent command is given up, or parked one attempt later.
LEMMA InvRetryFail ==
    ASSUME TypeOK, IInv, RetryFail PROVE IInv'
  <1> DEFINE c == retry.cmd
  <1>1. /\ c \in Cmd /\ c \notin batch /\ retry.pc = "fail" /\ batch \subseteq Cmd
        /\ UNCHANGED <<used, worker, events, sends, unmarked>>
       BY Zenon DEF RetryFail, RetryUnchanged, WriteState, update_retry_state, TypeOK,
          RetryType, IInv, BatchInv
  <1>2. /\ batch' \subseteq batch
        /\ \/ retry' = Loop /\ rows' = rows
           \/ /\ retry' = Step("event", c, "Failed", "command_retry_exhausted")
              /\ rows[c].state \in OpenStates
              /\ rows' = [rows EXCEPT ![c].state = "Failed"]
           \/ /\ retry' = Step("event", c, "RetryPending", "command_retry_scheduled")
              /\ ~RetriesExhausted(c) /\ rows[c].state = "RetryPending"
              /\ rows' = [rows EXCEPT ![c].retry = @ + 1]
       BY Zenon DEF RetryFail, RetryThrows, RetryAppends, WriteState, update_retry_state,
          update_terminal_state_once
  <1>3. sends[c] <= unmarked[c] BY <1>1, Zenon DEF IInv, UnsentInv
  <1>4. ASSUME NEW d \in Cmd
        PROVE  \/ rows'[d].state = rows[d].state
               \/ d = c /\ rows[c].state \in OpenStates /\ rows'[c].state = "Failed"
       BY <1>1, <1>2, RowsTyped
  <1>5. /\ retry'.pc \in {"loop", "event"} /\ Held' \subseteq batch
        /\ retry'.type \in TerminalEvents => retry'.type \in Undelivered
       BY <1>2 DEF Held, Undelivered, TerminalEvents
  <1>6. ASSUME NEW d, RetryLogs(d)'
        PROVE  d = c /\ rows[c].state \in OpenStates /\ rows'[c].state = "Failed" /\ retry'.state = "Failed"
       BY <1>1, <1>2, <1>6, RowsTyped DEF RetryLogs, Undelivered
  <1>7. rows[c].state \in OpenStates => events[c] = {} /\ ~WorkerLogs(c)
       BY <1>1, Zenon DEF IInv, OpenInv, is_terminal, OpenStates, TerminalStates
  <1>8. \A d : WorkerLogs(d)' <=> WorkerLogs(d) BY <1>1, Zenon DEF WorkerLogs
  <1> HIDE DEF c
  <1>9. FreshInv' BY <1>1, <1>4, Zenon DEF IInv, FreshInv, OpenStates
  <1>10. SubmitInv'
    <2>1. worker.pc \in {"dispatch", "upsert"} => worker.cmd \in Cmd BY Zenon DEF TypeOK,
                                                                        WorkerType
    <2> QED BY <1>1, <1>4, <2>1, Zenon DEF IInv, SubmitInv, OpenStates
  <1>11. HeldInv' BY <1>1, <1>4, <1>5, Zenon DEF IInv, HeldInv, Held
  <1>12. UnsentInv' BY <1>1, <1>2, <1>3, <1>4, <1>5, <1>6, Zenon DEF IInv, UnsentInv
  <1>13. BatchInv' BY <1>1, <1>2, <1>5, <1>6, Zenon DEF IInv, BatchInv
  <1>14. KindInv' BY <1>1, <1>5, Zenon DEF IInv, KindInv
  <1>15. OpenInv'
    <2>1. is_terminal("Failed") BY Zenon DEF is_terminal, TerminalStates
    <2> QED BY <1>1, <1>4, <1>6, <1>8, <2>1, Zenon DEF IInv, OpenInv
  <1>16. LogInv' BY <1>1, <1>4, <1>6, <1>7, <1>8, Zenon DEF IInv, LogInv
  <1>17. HeldNotReported' BY <1>1, <1>5, Zenon DEF IInv, HeldNotReported, Held
  <1>18. ParkedIsRetryable'
    <2> SUFFICES ASSUME NEW d \in Cmd, rows'[d].state = "RetryPending"
                 PROVE  rows'[d].retry < rows'[d].max
         BY Zenon DEF ParkedIsRetryable
    <2>1. \/ rows' = rows \/ rows' = [rows EXCEPT ![c].state = "Failed"]
          \/ ~RetriesExhausted(c) /\ rows' = [rows EXCEPT ![c].retry = @ + 1]
         BY <1>2, Zenon
    <2> QED BY <1>1, <2>1, RowsTyped DEF IInv, ParkedIsRetryable, RetriesExhausted
  <1>19. FirstTerminalWins' BY <1>1, <1>4, <1>7 DEF IInv, FirstTerminalWins
  <1>20. SentAtMostOnce' /\ ReportedUndeliveredWasNotSent'
       BY <1>1, Zenon DEF IInv, SentAtMostOnce, ReportedUndeliveredWasNotSent
  <1> QED BY <1>9, <1>10, <1>11, <1>12, <1>13, <1>14, <1>15, <1>16, <1>17, <1>18, <1>19, <1>20,
             Zenon DEF IInv

\* The retry thread's report is logged with the state in the row.
LEMMA InvRetryEvent ==
    ASSUME TypeOK, IInv, RetryEvent PROVE IInv'
  <1>1. /\ retry.cmd \in Cmd /\ retry.pc = "event"
        /\ retry' = Loop /\ batch' \subseteq batch /\ batch \subseteq Cmd
        /\ UNCHANGED <<used, worker, sends, unmarked>>
        /\ UNCHANGED storeVars \/ AppendEvent(retry.cmd, retry.type, retry.state)
       BY Zenon DEF TypeOK, RetryType, RetryEvent, RetryThrows, RetryUnchanged
  <1>2. /\ \A d \in Cmd : \A e : e \in events'[d] =>
              \/ e \in events[d]
              \/ d = retry.cmd /\ retry.type \in TerminalEvents
                 /\ e = <<retry.type, retry.state>>
        /\ UNCHANGED rows
       BY <1>1, AppendCases DEF TypeOK
  <1>3. HeldInv' BY <1>1, <1>2, Zenon DEF TypeOK, IInv, HeldInv, Held, RetryType
  <1>4. UnsentInv' BY <1>1, <1>2, Zenon DEF TypeOK, IInv, UnsentInv, RetryLogs, Undelivered,
                      RetryType
  <1>5. BatchInv' BY <1>1, <1>2, Zenon DEF TypeOK, IInv, BatchInv, RetryLogs, Undelivered,
                     RetryType
  <1>6. KindInv' BY <1>1, <1>2, Zenon DEF TypeOK, IInv, KindInv, Undelivered, TerminalEvents,
                    RetryType
  <1>7. OpenInv' BY <1>1, <1>2, Zenon DEF TypeOK, IInv, OpenInv, WorkerLogs, RetryLogs,
                    Undelivered, is_terminal, KindInv, RetryType
  <1>8. LogInv' BY <1>1, <1>2, Zenon DEF TypeOK, IInv, LogInv, WorkerLogs, RetryLogs,
                   Undelivered, KindInv, RetryType
  <1>9. HeldNotReported' BY <1>1, <1>2, Zenon DEF TypeOK, IInv, HeldNotReported, Held,
                            Undelivered, KindInv, BatchInv, RetryLogs,
                            RetryType
  <1>10. FirstTerminalWins'
    <2>1. retry.type \in TerminalEvents =>
            events[retry.cmd] = {} /\ retry.state = rows[retry.cmd].state
         BY <1>1, Zenon DEF IInv, KindInv, LogInv, RetryLogs
    <2> QED BY <1>2, <2>1 DEF IInv, FirstTerminalWins
  <1>11. ReportedUndeliveredWasNotSent' BY <1>1, <1>2, Zenon DEF TypeOK, IInv,
                                           ReportedUndeliveredWasNotSent,
                                           Undelivered,
                                           KindInv,
                                           UnsentInv,
                                           RetryLogs,
                                           RetryType
  <1>12. FreshInv' /\ SubmitInv' /\ ParkedIsRetryable' /\ SentAtMostOnce'
       BY <1>1, <1>2, Zenon DEF IInv, FreshInv, SubmitInv, ParkedIsRetryable, SentAtMostOnce,
          is_terminal
  <1> QED BY <1>3, <1>4, <1>5, <1>6, <1>7, <1>8, <1>9, <1>10, <1>11, <1>12, Zenon DEF IInv

\* Recovery ends every open row; a boot without recovery keeps them.
LEMMA InvServerRestart ==
    ASSUME TypeOK, IInv, ServerRestart PROVE IInv'
  <1>1. (recover_inflight /\ UNCHANGED unmarked) \/ BootFails BY Zenon DEF ServerRestart,
                                                                 BootFails
  <1>2. \A d \in Cmd :
          \/ /\ rows[d].state \in OpenStates /\ rows'[d].state = "TimedOut"
             /\ events'[d] = events[d] \cup {<<"command_recovery_timeout", "TimedOut">>}
          \/ rows'[d] = rows[d] /\ events'[d] = events[d]
       BY <1>1 DEF BootFails, recover_inflight
  <1>3. /\ retry' = Loop /\ worker' = Idle /\ batch' = {} /\ UNCHANGED <<used, sends>>
       BY Zenon DEF ServerRestart
  <1>4. /\ \A c \in Cmd : unmarked[c] <= unmarked'[c]
        /\ sends \in [Cmd -> Nat] /\ unmarked \in [Cmd -> Nat] /\ unmarked' \in [Cmd -> Nat]
       BY <1>1 DEF BootFails, TypeOK, CountType, RetryType
  <1>5. FreshInv' BY <1>2, <1>3, <1>4, Zenon DEF IInv, FreshInv, OpenStates
  <1>6. SubmitInv' BY <1>2, <1>3, <1>4, Zenon DEF IInv, SubmitInv
  <1>7. HeldInv' BY <1>2, <1>3, <1>4, Zenon DEF IInv, HeldInv, Held
  <1>8. UnsentInv'
    <2>1. CASE recover_inflight
         BY <1>3, <2>1, Zenon DEF UnsentInv, RetryLogs, recover_inflight, OpenStates, TypeOK,
            StoreType
    <2>2. CASE BootFails
      <3> SUFFICES ASSUME NEW c \in Cmd, rows[c].state = "RetryPending"
                   PROVE  sends[c] <= unmarked'[c]
           BY <1>3, <2>2, Zenon DEF BootFails, UnsentInv, RetryLogs
      <3>1. CASE retry.pc = "mark" /\ retry.cmd = c
           BY <2>2, <3>1 DEF BootFails, IInv, SentAtMostOnce, TypeOK, CountType
      <3>2. CASE ~(retry.pc = "mark" /\ retry.cmd = c)
           BY <1>4, <3>2 DEF IInv, UnsentInv
      <3> QED BY <3>1, <3>2, Zenon
    <2> QED BY <1>1, <2>1, <2>2, Zenon
  <1>9. BatchInv' BY <1>2, <1>3, <1>4, Zenon DEF IInv, BatchInv, RetryLogs, Undelivered
  <1>10. KindInv' BY <1>2, <1>3, <1>4, Zenon DEF IInv, KindInv, Undelivered, TerminalEvents
  <1>11. OpenInv' BY <1>2, <1>3, <1>4, Zenon DEF IInv, OpenInv, WorkerLogs, RetryLogs,
                     Undelivered, is_terminal, OpenStates, TerminalStates
  <1>12. LogInv' BY <1>2, <1>3, <1>4, Zenon DEF IInv, LogInv, WorkerLogs, RetryLogs, Undelivered
  <1>13. HeldNotReported' BY <1>2, <1>3, <1>4, Zenon DEF IInv, HeldNotReported, Held,
                             Undelivered
  <1>14. ParkedIsRetryable' BY <1>2, <1>3, <1>4, Zenon DEF IInv, ParkedIsRetryable
  <1>15. SentAtMostOnce' BY <1>3, <1>4 DEF IInv, SentAtMostOnce
  <1>16. FirstTerminalWins'
    <2>1. \A d \in Cmd : rows[d].state \in OpenStates => events[d] = {}
         BY Zenon DEF IInv, OpenInv, is_terminal, OpenStates, TerminalStates
    <2> QED BY <1>2, <2>1 DEF IInv, FirstTerminalWins
  <1>17. ReportedUndeliveredWasNotSent'
    <2>1. \A c \in Cmd : \A e \in events'[c] :
             e \in events[c] \/ e = <<"command_recovery_timeout", "TimedOut">>
         BY <1>2, Zenon
    <2> QED BY <1>3, <1>4, <2>1 DEF IInv, ReportedUndeliveredWasNotSent
  <1> QED BY <1>5, <1>6, <1>7, <1>8, <1>9, <1>10, <1>11, <1>12, <1>13, <1>14, <1>15, <1>16,
             <1>17, Zenon DEF IInv

\* Steps that leave everything IInv is about alone.
LEMMA QuietSteps ==
    ASSUME \/ Connect \/ Disconnect \/ AgentRestart
           \/ StartExecution \/ FinishExecution \/ Write
           \/ \E c \in Cmd : HandleDispatch(c) \/ Expire(c) \/ BackoffElapses(c)
    PROVE  UNCHANGED <<rows, events, used, worker, retry, batch, sends, unmarked>>
  BY Zenon DEF Connect, Disconnect, AgentRestart, StartExecution, FinishExecution, Write,
     HandleDispatch, Expire, BackoffElapses, AgentUnchanged, TimeUnchanged

\* IInv is inductive relative to the types.
THEOREM Inductive == Spec => [](TypeOK /\ IInv)
  <1>1. ASSUME TypeOK, IInv, [Next]_vars PROVE IInv'
    <2>1. CASE UNCHANGED vars BY <1>1, <2>1, InvQuiet, Zenon DEF vars
    <2>2. CASE Next
         BY <1>1, <2>2, NextCases, InvSubmit, InvSubmitDispatch, InvSubmitUpsert,
            InvWorkerEvent, InvAck, InvResult, InvRetryTick, InvRetryExpire,
            InvRetrySend, InvRetryMark, InvRetryFail, InvRetryEvent, InvServerRestart,
            QuietSteps, InvQuiet, Zenon
    <2> QED BY <1>1, <2>1, <2>2, Zenon
  <1> QED BY <1>1, InvInit, TypeCorrect, PTL DEF Spec

\* Of all the terminal outcomes raced by the agent's result, the retry thread and
\* the recovery at boot, one is applied, and the row keeps it.
THEOREM FirstTerminalWinsHolds == Spec => []FirstTerminalWins
  <1>1. IInv => FirstTerminalWins BY Zenon DEF IInv
  <1> QED BY <1>1, Inductive, PTL

\* A parked row never becomes invisible to list_retry_ready.
THEOREM ParkedIsRetryableHolds == Spec => []ParkedIsRetryable
  <1>1. IInv => ParkedIsRetryable BY Zenon DEF IInv
  <1> QED BY <1>1, Inductive, PTL

\* submit and the retry thread send a command once between them, however their
\* steps interleave, store failures apart.
THEOREM SentAtMostOnceHolds == Spec => []SentAtMostOnce
  <1>1. IInv => SentAtMostOnce BY Zenon DEF IInv
  <1> QED BY <1>1, Inductive, PTL

\* What the retry thread reports as undelivered was not sent, store failures apart.
THEOREM ReportedUndeliveredWasNotSentHolds == Spec => []ReportedUndeliveredWasNotSent
  <1>1. IInv => ReportedUndeliveredWasNotSent BY Zenon DEF IInv
  <1> QED BY <1>1, Inductive, PTL

-----------------------------------------------------------------------------
(* Refinement of CommandLifecycle *)

States == [c \in Cmd |-> rows[c].state]

\* How a step of the service may change the table.
RowsStep ==
    \/ UNCHANGED rows
    \/ \E c \in Cmd, s \in {"Dispatched", "RetryPending"}, m \in Nat :
          /\ rows[c].state = Absent
          /\ rows' = [rows EXCEPT ![c] = [state |-> s, retry |-> 0, max |-> m]]
    \/ \E c \in Cmd, s \in OpenStates :
          /\ is_allowed_non_terminal_transition(rows[c].state, s)
          /\ rows' = [rows EXCEPT ![c].state = s]
    \/ \E c \in Cmd, s \in TerminalStates :
          rows[c].state \in OpenStates /\ rows' = [rows EXCEPT ![c].state = s]
    \/ \E c \in Cmd : rows' = [rows EXCEPT ![c].retry = @ + 1]
    \/ recover_inflight

\* The worker's and the retry thread's steps change it so.
LEMMA RowsSteps == ASSUME TypeOK, IInv, [Next]_vars PROVE RowsStep
  <1>1. CASE SubmitUpsert
    <2>1. /\ worker.cmd \in Cmd /\ worker.max \in Nat /\ rows[worker.cmd].state = Absent
          /\ worker.state \in {"Dispatched", "RetryPending"}
         BY <1>1, Zenon DEF SubmitUpsert, TypeOK, WorkerType, IInv, SubmitInv
    <2> QED BY <1>1, <2>1, Zenon DEF SubmitUpsert, upsert, RowsStep
  <1>2. CASE on_command_ack
    <2> DEFINE m == Head(toServer)
    <2>0. toServer # <<>> /\ toServer \in Seq(Message)
         BY <1>2, Zenon DEF TypeOK, WireType, on_command_ack
    <2>1. m \in Message BY <2>0
    <2>2. m.cmd \in Cmd /\ m.status \in AckStatus
         BY <1>2, <2>1, Zenon DEF Message, on_command_ack
    <2>3. m.status \in OpenStates BY <2>2, Zenon DEF AckStatus, OpenStates
    <2>4. \/ UNCHANGED rows
          \/ /\ is_allowed_non_terminal_transition(rows[m.cmd].state, m.status)
             /\ rows' = [rows EXCEPT ![m.cmd].state = m.status]
         BY <1>2, Zenon DEF on_command_ack, WriteState, update_state_if_not_terminal
    <2> HIDE DEF m
    <2> QED BY <2>2, <2>3, <2>4, Zenon DEF RowsStep
  <1>3. CASE on_command_result
    <2>1. PICK c \in Cmd, s \in ResultStatus : ResultEffect(c, s) BY <1>3, ResultEffects, Zenon
    <2>2. s \in TerminalStates BY Zenon DEF ResultStatus, TerminalStates
    <2> QED BY <2>1, <2>2, Zenon DEF ResultEffect, RowsStep
  <1>4. ASSUME NEW c \in Cmd, RetryExpire(c) PROVE RowsStep
    <2>1. "TimedOut" \in TerminalStates BY Zenon DEF TerminalStates
    <2> QED BY <1>4, <2>1, Zenon DEF RetryExpire, WriteState, update_terminal_state_once,
               RowsStep
  <1>5. CASE RetryMark
    <2>1. retry.cmd \in Cmd /\ "Dispatched" \in OpenStates
         BY <1>5, Zenon DEF RetryMark, TypeOK, RetryType, OpenStates
    <2> QED BY <1>5, <2>1, Zenon DEF RetryMark, WriteState, update_state_if_not_terminal,
               RowsStep
  <1>6. CASE RetryFail
    <2>1. retry.cmd \in Cmd /\ "Failed" \in TerminalStates
         BY <1>6, Zenon DEF RetryFail, TypeOK, RetryType, TerminalStates
    <2> QED BY <1>6, <2>1, Zenon DEF RetryFail, WriteState, update_retry_state,
               update_terminal_state_once, RowsStep
  <1>7. CASE ServerRestart BY <1>7, Zenon DEF ServerRestart, RowsStep
  <1>8. CASE \/ \E c \in Cmd, m \in 0..MaxRetry : Submit(c, m)
             \/ SubmitDispatch \/ WorkerEvent \/ RetryTick \/ RetryEvent
             \/ \E c \in Cmd : RetrySend(c)
    <2>1. UNCHANGED rows
         BY <1>8, Zenon DEF Submit, SubmitDispatch, WorkerEvent, AppendEvent, RetryTick,
            RetryEvent, RetrySend
    <2> QED BY <2>1, Zenon DEF RowsStep
  <1>9. CASE UNCHANGED rows BY <1>9, Zenon DEF RowsStep
  <1>10. CASE UNCHANGED vars BY <1>10, Zenon DEF RowsStep, vars
  <1> QED BY <1>1, <1>2, <1>3, <1>4, <1>5, <1>6, <1>7, <1>8, <1>9, <1>10, NextCases, QuietSteps,
             Zenon

\* Each such change is a step of the lifecycle, or none.
LEMMA RowsStepRefines ==
    ASSUME TypeOK, RowsStep PROVE [Lifecycle!Next]_States
  <1> USE DEF TypeOK, StoreType, States
  <1>1. CASE UNCHANGED rows BY <1>1, Zenon
  <1>2. ASSUME NEW c \in Cmd, NEW s \in {"Dispatched", "RetryPending"}, NEW m \in Nat,
               rows[c].state = Absent,
               rows' = [rows EXCEPT ![c] = [state |-> s, retry |-> 0, max |-> m]]
        PROVE  Lifecycle!Next
    <2>1. States[c] = Absent /\ States' = [States EXCEPT ![c] = s] BY <1>2, Zenon
    <2> QED BY <2>1, Zenon DEF Lifecycle!Next, Lifecycle!Record, Lifecycle!Absent
  <1>3. ASSUME NEW c \in Cmd, NEW s \in OpenStates,
               is_allowed_non_terminal_transition(rows[c].state, s),
               rows' = [rows EXCEPT ![c].state = s]
        PROVE  Lifecycle!Next
    <2>1. /\ is_allowed_non_terminal_transition(States[c], s)
          /\ States' = [States EXCEPT ![c] = s]
         BY <1>3, Zenon DEF is_allowed_non_terminal_transition
    <2> QED BY <2>1, Zenon DEF Lifecycle!Next, Lifecycle!Advance, OpenStates,
               Lifecycle!OpenStates, is_allowed_non_terminal_transition,
               Lifecycle!is_allowed_non_terminal_transition
  <1>4. ASSUME NEW c \in Cmd, NEW s \in TerminalStates, rows[c].state \in OpenStates,
               rows' = [rows EXCEPT ![c].state = s]
        PROVE  Lifecycle!Next
    <2>1. States[c] \in OpenStates /\ States' = [States EXCEPT ![c] = s] BY <1>4, Zenon
    <2> QED BY <2>1, Zenon DEF Lifecycle!Next, Lifecycle!Finish, OpenStates,
               Lifecycle!OpenStates, TerminalStates, Lifecycle!TerminalStates
  <1>5. ASSUME NEW c \in Cmd, rows' = [rows EXCEPT ![c].retry = @ + 1] PROVE States' = States
       BY <1>5, Zenon
  <1>6. CASE recover_inflight
       BY <1>6, Zenon DEF recover_inflight, Lifecycle!Next, Lifecycle!Recover, OpenStates,
          Lifecycle!OpenStates
  <1> QED BY <1>1, <1>2, <1>3, <1>4, <1>5, <1>6, Zenon DEF RowsStep

\* Every behaviour of the service, seen through the states of its rows, is a
\* behaviour of the lifecycle.
THEOREM ImplementsLifecycleHolds == Spec => ImplementsLifecycle
  <1>1. Init => Lifecycle!Init BY DEF Init, Lifecycle!Init, Lifecycle!Absent
  <1>2. TypeOK /\ IInv /\ [Next]_vars => [Lifecycle!Next]_States
       BY RowsSteps, RowsStepRefines, Zenon
  <1> QED BY <1>1, <1>2, Inductive, PTL DEF Spec, ImplementsLifecycle, Lifecycle!Spec, States

-----------------------------------------------------------------------------
(* What the agent executes *)

\* The command waits in the execution worker's queue.
Queued(c) == \E i \in 1..Len(queue) : queue[i] = c

\* The queue holds seen commands, each once.
QueueInv == /\ \A i \in 1..Len(queue) : queue[i] \in seen
            /\ \A i, j \in 1..Len(queue) : queue[i] = queue[j] => i = j

\* Each life of the agent executes a command once: what is queued, or not seen
\* yet in this life, was executed in earlier lives only.
LifeInv == \A c \in Cmd : /\ execs[c] <= 1 + restarts
                          /\ c \notin seen \/ Queued(c) => execs[c] <= restarts

\* Each send accounts for one dispatch on its way, queued or executed.
FlowInv == \A c \in Cmd : /\ toAgent[c] + execs[c] <= sends[c]
                          /\ Queued(c) => toAgent[c] + execs[c] < sends[c]

\* Success is claimed only of what was executed.
Honest(q, x) == \A i \in 1..Len(q) : q[i].status = "Succeeded" => x[q[i].cmd] > 0
TruthInv == /\ executing \in Cmd => execs[executing] > 0
            /\ Honest(outgoing, execs) /\ Honest(toServer, execs)
            /\ SuccessWasExecuted

ExecInv == QueueInv /\ LifeInv /\ FlowInv /\ TruthInv

\* Nothing is queued, sent or executed at the start.
LEMMA ExecInit == Init => ExecInv
  BY ConstantsAssumption
     DEF Init, ExecInv, QueueInv, LifeInv, FlowInv, TruthInv, Honest, Queued, SuccessWasExecuted

\* What TypeOK says of the agent, in the form the steps below use.
LEMMA AgentTyped ==
    ASSUME TypeOK
    PROVE  /\ seen \subseteq Cmd /\ queue \in Seq(Cmd) /\ executing \in Cmd \cup {NoCmd}
           /\ execs \in [Cmd -> Nat] /\ restarts \in Nat
           /\ toAgent \in [Cmd -> Nat] /\ sends \in [Cmd -> Nat]
  BY Zenon DEF TypeOK, AgentType, CountType, WireType

\* Only four actions move the agent's own state.
LEMMA AgentFrame ==
    ASSUME Next
    PROVE  \/ UNCHANGED <<seen, queue, executing, execs, restarts>>
           \/ AgentRestart \/ StartExecution \/ FinishExecution
           \/ \E c \in Cmd : HandleDispatch(c)
  <1> DEFINE Frame == UNCHANGED <<seen, queue, executing, execs, restarts>>
  <1>1. ASSUME NEW c \in Cmd, NEW m \in 0..MaxRetry, Submit(c, m) PROVE Frame BY <1>1, Zenon
                                                                                 DEF Submit
  <1>2. ASSUME SubmitDispatch \/ SubmitUpsert \/ WorkerEvent PROVE Frame
       BY <1>2, Zenon DEF SubmitDispatch, SubmitUpsert, WorkerEvent
  <1>3. ASSUME on_command_ack \/ on_command_result PROVE Frame BY <1>3, Zenon
                                                                  DEF on_command_ack,
                                                                  on_command_result
  <1>4. ASSUME RetryTick \/ RetryMark \/ RetryFail \/ RetryEvent PROVE Frame
       BY <1>4, Zenon DEF RetryTick, RetryMark, RetryFail, RetryEvent, RetryUnchanged
  <1>5. ASSUME NEW c \in Cmd, RetryExpire(c) \/ RetrySend(c) PROVE Frame
       BY <1>5, Zenon DEF RetryExpire, RetrySend, RetryUnchanged
  <1>6. ASSUME Connect \/ Disconnect \/ ServerRestart PROVE Frame BY <1>6, Zenon DEF Connect,
                                                                     Disconnect,
                                                                     ServerRestart
  <1>7. ASSUME Write PROVE Frame BY <1>7, Zenon DEF Write, AgentUnchanged
  <1>8. ASSUME NEW c \in Cmd, Expire(c) \/ BackoffElapses(c) PROVE Frame
       BY <1>8, Zenon DEF Expire, BackoffElapses, TimeUnchanged
  <1> HIDE DEF Frame
  <1>9. Frame \/ AgentRestart \/ StartExecution \/ FinishExecution \/ \E c \in Cmd : HandleDispatch(c)
       BY <1>1, <1>2, <1>3, <1>4, <1>5, <1>6, <1>7, <1>8, NextCases, Zenon
  <1> QED BY <1>9, Zenon DEF Frame

\* A dispatch the agent handles leaves the queue alone or appends a command it
\* had not seen.
LEMMA HandleEffect ==
    ASSUME TypeOK, NEW c \in Cmd, HandleDispatch(c)
    PROVE  /\ \/ UNCHANGED <<seen, queue>>
              \/ c \notin seen /\ seen' = seen \cup {c} /\ queue' \in {queue, Append(queue, c)}
           /\ toAgent[c] > 0 /\ toAgent' = [toAgent EXCEPT ![c] = @ - 1]
           /\ UNCHANGED <<executing, execs, restarts, sends>>
  BY Zenon DEF HandleDispatch, mark_command_seen, AgentUnchanged

\* The queue a handled dispatch leaves.
LEMMA AppendQueued ==
    ASSUME TypeOK, NEW c \in Cmd, queue' = Append(queue, c)
    PROVE  /\ Len(queue') = Len(queue) + 1 /\ queue'[Len(queue')] = c
           /\ \A i \in 1..Len(queue) : queue'[i] = queue[i]
           /\ \A d \in Cmd : Queued(d)' <=> (Queued(d) \/ d = c)
  <1>1. queue \in Seq(Cmd) BY AgentTyped, Zenon
  <1>2. Len(queue') = Len(queue) + 1 /\ queue'[Len(queue')] = c BY <1>1
  <1>3. \A i \in 1..Len(queue) : queue'[i] = queue[i] BY <1>1
  <1>4. Len(queue) \in Nat BY <1>1
  <1>5. \A d \in Cmd : Queued(d)' <=> (Queued(d) \/ d = c) BY <1>2, <1>3, <1>4 DEF Queued
  <1> QED BY <1>2, <1>3, <1>5, Zenon

\* The queue the start of an execution leaves.
LEMMA TailQueued ==
    ASSUME TypeOK, QueueInv, queue # <<>>, queue' = Tail(queue)
    PROVE  /\ Head(queue) \in Cmd /\ queue[1] = Head(queue) /\ Queued(Head(queue))
           /\ Len(queue') = Len(queue) - 1
           /\ \A i \in 1..Len(queue') : queue'[i] = queue[i + 1]
           /\ \A d \in Cmd : Queued(d)' <=> (Queued(d) /\ d # Head(queue))
  <1>1. queue \in Seq(Cmd) BY AgentTyped, Zenon
  <1>2. Head(queue) \in Cmd /\ queue[1] = Head(queue) /\ Len(queue) \in Nat \ {0} BY <1>1
  <1>3. Len(queue') = Len(queue) - 1 BY <1>1
  <1>4. \A i \in 1..Len(queue') : queue'[i] = queue[i + 1] BY <1>1, <1>3
  <1>5. Queued(Head(queue)) BY <1>2 DEF Queued
  <1>6. ASSUME NEW d \in Cmd, Queued(d)' PROVE Queued(d) /\ d # Head(queue)
    <2>1. PICK i \in 1..Len(queue') : queue'[i] = d BY <1>6, Zenon DEF Queued
    <2>2. i + 1 \in 1..Len(queue) /\ queue[i + 1] = d /\ i + 1 # 1 BY <1>2, <1>3, <1>4, <2>1
    <2> QED BY <1>2, <2>2 DEF Queued, QueueInv
  <1>7. ASSUME NEW d \in Cmd, Queued(d), d # Head(queue) PROVE Queued(d)'
    <2>1. PICK i \in 1..Len(queue) : queue[i] = d BY <1>7, Zenon DEF Queued
    <2>2. i # 1 BY <1>2, <1>7, <2>1, Zenon
    <2>3. i - 1 \in 1..Len(queue') /\ queue'[i - 1] = queue[(i - 1) + 1] /\ (i - 1) + 1 = i
         BY <1>2, <1>3, <1>4, <2>2
    <2>4. queue'[i - 1] = d BY <2>1, <2>3, Zenon
    <2> QED BY <2>3, <2>4, Zenon DEF Queued
  <1> QED BY <1>2, <1>3, <1>4, <1>5, <1>6, <1>7, Zenon

\* Each life of the agent: only handling, starting and restarting touch it.
LEMMA LifeStep ==
    ASSUME TypeOK, QueueInv, LifeInv, Next
    PROVE  QueueInv' /\ LifeInv'
  <1>1. ASSUME UNCHANGED <<seen, queue, execs, restarts>> PROVE QueueInv' /\ LifeInv'
       BY <1>1, Zenon DEF QueueInv, LifeInv, Queued
  <1>2. ASSUME AgentRestart PROVE QueueInv' /\ LifeInv'
    <2>1. queue' = <<>> /\ restarts' = restarts + 1 /\ execs' = execs BY <1>2, Zenon
                                                                         DEF AgentRestart
    <2>2. QueueInv' BY <2>1 DEF QueueInv
    <2>3. LifeInv' BY <2>1, AgentTyped DEF LifeInv, Queued
    <2> QED BY <2>2, <2>3, Zenon
  <1>3. ASSUME StartExecution PROVE QueueInv' /\ LifeInv'
    <2>1. /\ queue # <<>> /\ queue' = Tail(queue) /\ execs' = [execs EXCEPT ![Head(queue)] = @ + 1]
          /\ seen' = seen /\ restarts' = restarts
         BY <1>3, Zenon DEF StartExecution, AgentUnchanged
    <2>2. QueueInv'
      <3>1. ASSUME NEW i \in 1..Len(queue') PROVE i + 1 \in 1..Len(queue) /\ queue'[i] = queue[i + 1]
           BY <2>1, TailQueued, AgentTyped
      <3> QED BY <2>1, <3>1 DEF QueueInv
    <2>3. Head(queue) \in seen BY <2>1, TailQueued, Zenon DEF QueueInv, Queued
    <2>4. LifeInv'
      <3> SUFFICES ASSUME NEW c \in Cmd
                   PROVE  /\ execs'[c] <= 1 + restarts
                          /\ c \notin seen \/ Queued(c)' => execs'[c] <= restarts
           BY <2>1, Zenon DEF LifeInv
      <3>1. CASE c = Head(queue)
        <4>1. execs'[c] = execs[c] + 1 /\ ~Queued(c)' BY <2>1, <3>1, TailQueued, AgentTyped,
                                                         Zenon
        <4>2. execs[c] <= restarts BY <2>1, <3>1, TailQueued, Zenon DEF LifeInv
        <4> QED BY <2>3, <3>1, <4>1, <4>2, AgentTyped
      <3>2. CASE c # Head(queue)
        <4>1. execs'[c] = execs[c] /\ (Queued(c)' => Queued(c)) BY <2>1, <3>2, TailQueued,
                                                                   AgentTyped,
                                                                   Zenon
        <4> QED BY <4>1, Zenon DEF LifeInv
      <3> QED BY <3>1, <3>2, Zenon
    <2> QED BY <2>2, <2>4, Zenon
  <1>4. ASSUME NEW c \in Cmd, HandleDispatch(c) PROVE QueueInv' /\ LifeInv'
    <2>1. CASE UNCHANGED <<seen, queue>> BY <1>1, <1>4, <2>1, HandleEffect, Zenon
    <2>2. CASE c \notin seen /\ seen' = seen \cup {c} /\ queue' = queue
      <3>1. QueueInv' BY <2>2, Zenon DEF QueueInv
      <3>2. LifeInv' BY <1>4, <2>2, HandleEffect, Zenon DEF LifeInv, Queued
      <3> QED BY <3>1, <3>2, Zenon
    <2>3. CASE c \notin seen /\ seen' = seen \cup {c} /\ queue' = Append(queue, c)
      <3>1. ASSUME NEW i \in 1..Len(queue')
            PROVE  \/ i \in 1..Len(queue) /\ queue'[i] = queue[i]
                   \/ i = Len(queue') /\ queue'[i] = c
           BY <2>3, AppendQueued, AgentTyped
      <3>2. QueueInv' BY <2>3, <3>1 DEF QueueInv
      <3>3. LifeInv'
        <4>1. execs' = execs /\ restarts' = restarts BY <1>4, HandleEffect, Zenon
        <4>2. \A d \in Cmd : Queued(d)' => Queued(d) \/ d = c BY <2>3, AppendQueued, Zenon
        <4> QED BY <2>3, <4>1, <4>2, Zenon DEF LifeInv
      <3> QED BY <3>2, <3>3, Zenon
    <2> QED BY <1>4, <2>1, <2>2, <2>3, HandleEffect, Zenon
  <1>5. ASSUME FinishExecution PROVE UNCHANGED <<seen, queue, execs, restarts>>
       BY <1>5, Zenon DEF FinishExecution, AgentUnchanged
  <1> QED BY <1>1, <1>2, <1>3, <1>4, <1>5, AgentFrame, Zenon

\* What a step does to the dispatches on their way and to the count of sends.
LEMMA WireFrame ==
    ASSUME TypeOK, Next
    PROVE  \/ UNCHANGED <<toAgent, sends>>
           \/ sends' = sends /\ \A c \in Cmd : toAgent'[c] \in {0, toAgent[c]}
           \/ \E c \in Cmd : /\ SendCommand(c) /\ UNCHANGED <<queue, execs>>
           \/ \E c \in Cmd : HandleDispatch(c)
  <1> DEFINE Frame == UNCHANGED <<toAgent, sends>>
             Lost  == sends' = sends /\ \A c \in Cmd : toAgent'[c] \in {0, toAgent[c]}
             Sent  == \E c \in Cmd : /\ SendCommand(c) /\ UNCHANGED <<queue, execs>>
  <1>1. ASSUME NEW c \in Cmd, NEW m \in 0..MaxRetry, Submit(c, m) PROVE Frame BY <1>1, Zenon
                                                                                 DEF Submit
  <1>2. ASSUME SubmitUpsert \/ WorkerEvent PROVE Frame BY <1>2, Zenon DEF SubmitUpsert,
                                                          WorkerEvent
  <1>3. ASSUME on_command_ack \/ on_command_result PROVE Frame BY <1>3, Zenon
                                                                  DEF on_command_ack,
                                                                  on_command_result
  <1>4. ASSUME RetryTick \/ RetryMark \/ RetryFail \/ RetryEvent PROVE Frame
       BY <1>4, Zenon DEF RetryTick, RetryMark, RetryFail, RetryEvent
  <1>5. ASSUME NEW c \in Cmd, RetryExpire(c) PROVE Frame BY <1>5, Zenon DEF RetryExpire
  <1>6. ASSUME NEW c \in Cmd, RetrySend(c) PROVE Frame \/ Sent
       BY <1>6, Zenon DEF RetrySend, RetryUnchanged
  <1>7. ASSUME SubmitDispatch PROVE Frame \/ Sent
       BY <1>7, Zenon DEF SubmitDispatch, TypeOK, WorkerType
  <1>8. ASSUME Connect PROVE Frame BY <1>8, Zenon DEF Connect
  <1>9. ASSUME Disconnect \/ ServerRestart \/ AgentRestart PROVE Lost
       BY <1>9, Zenon DEF Disconnect, ServerRestart, AgentRestart, LinkLost
  <1>10. ASSUME Write \/ StartExecution \/ FinishExecution PROVE Frame
       BY <1>10, Zenon DEF Write, StartExecution, FinishExecution, AgentUnchanged
  <1>11. ASSUME NEW c \in Cmd, Expire(c) \/ BackoffElapses(c) PROVE Frame
       BY <1>11, Zenon DEF Expire, BackoffElapses, TimeUnchanged
  <1> HIDE DEF Frame, Lost, Sent
  <1>12. Frame \/ Lost \/ Sent \/ \E c \in Cmd : HandleDispatch(c)
       BY <1>1, <1>2, <1>3, <1>4, <1>5, <1>6, <1>7, <1>8, <1>9, <1>10, <1>11, NextCases, Zenon
  <1> QED BY <1>12, Zenon DEF Frame, Lost, Sent

\* Each dispatch the agent acts on was sent.
LEMMA FlowStep ==
    ASSUME TypeOK, QueueInv, FlowInv, Next
    PROVE  FlowInv'
  <1>0. \A c \in Cmd : toAgent[c] \in Nat /\ execs[c] \in Nat /\ sends[c] \in Nat BY AgentTyped,
                                                                                     Zenon
  <1>1. ASSUME NEW c \in Cmd, HandleDispatch(c) PROVE FlowInv'
    <2>1. \A d \in Cmd : Queued(d)' => Queued(d) \/ d = c
         BY <1>1, HandleEffect, AppendQueued, Zenon DEF Queued
    <2>2. /\ toAgent' = [toAgent EXCEPT ![c] = @ - 1] /\ toAgent[c] > 0
          /\ execs' = execs /\ sends' = sends
         BY <1>1, HandleEffect, Zenon
    <2>3. toAgent'[c] = toAgent[c] - 1 /\ \A d \in Cmd \ {c} : toAgent'[d] = toAgent[d]
         BY <2>2, AgentTyped, Zenon
    <2> QED BY <2>1, <2>2, <2>3, <1>0 DEF FlowInv
  <1>2. ASSUME StartExecution PROVE FlowInv'
    <2>1. /\ queue # <<>> /\ queue' = Tail(queue) /\ execs' = [execs EXCEPT ![Head(queue)] = @ + 1]
          /\ toAgent' = toAgent /\ sends' = sends
         BY <1>2, Zenon DEF StartExecution, AgentUnchanged
    <2>2. /\ Head(queue) \in Cmd /\ Queued(Head(queue))
          /\ \A d \in Cmd : Queued(d)' <=> (Queued(d) /\ d # Head(queue))
         BY <2>1, TailQueued, Zenon
    <2>3. /\ execs'[Head(queue)] = execs[Head(queue)] + 1
          /\ \A d \in Cmd \ {Head(queue)} : execs'[d] = execs[d]
         BY <2>1, <2>2, AgentTyped, Zenon
    <2> QED BY <2>1, <2>2, <2>3, <1>0 DEF FlowInv
  <1>3. ASSUME AgentRestart PROVE FlowInv'
    <2>1. /\ queue' = <<>> /\ execs' = execs /\ sends' = sends
          /\ \A d \in Cmd : toAgent'[d] = 0
         BY <1>3, Zenon DEF AgentRestart, LinkLost
    <2>2. \A d \in Cmd : ~Queued(d)' BY <2>1 DEF Queued
    <2> QED BY <2>1, <2>2, <1>0 DEF FlowInv
  <1>4. ASSUME FinishExecution PROVE FlowInv'
       BY <1>4, Zenon DEF FinishExecution, AgentUnchanged, FlowInv, Queued
  <1>5. ASSUME queue' = queue, execs' = execs, ~(\E c \in Cmd : HandleDispatch(c)) PROVE FlowInv'
    <2>1. \A d \in Cmd : Queued(d)' <=> Queued(d) BY <1>5, Zenon DEF Queued
    <2>2. CASE sends' = sends /\ \A c \in Cmd : toAgent'[c] \in {0, toAgent[c]}
         BY <1>5, <2>1, <2>2, <1>0 DEF FlowInv
    <2>3. ASSUME NEW c \in Cmd, SendCommand(c) PROVE FlowInv'
      <3>1. /\ toAgent'[c] = toAgent[c] + 1 /\ \A d \in Cmd \ {c} : toAgent'[d] = toAgent[d]
            /\ sends'[c] = sends[c] + 1 /\ \A d \in Cmd \ {c} : sends'[d] = sends[d]
           BY <2>3, AgentTyped, Zenon DEF SendCommand
      <3> QED BY <1>5, <2>1, <3>1, <1>0 DEF FlowInv
    <2> QED BY <1>5, <2>2, <2>3, WireFrame, Zenon
  <1>6. ASSUME UNCHANGED <<seen, queue, executing, execs, restarts>> PROVE FlowInv'
       BY <1>1, <1>5, <1>6, Zenon
  <1> QED BY <1>1, <1>2, <1>3, <1>4, <1>6, AgentFrame, Zenon

\* Executions are only added.
LEMMA ExecsGrow ==
    ASSUME TypeOK, Next
    PROVE  \A c \in Cmd : execs[c] <= execs'[c]
  <1>1. ASSUME StartExecution PROVE \A c \in Cmd : execs[c] <= execs'[c]
       BY <1>1, AgentTyped DEF StartExecution
  <1>2. ASSUME AgentRestart \/ FinishExecution \/ \E c \in Cmd : HandleDispatch(c)
        PROVE  execs' = execs
       BY <1>2, Zenon DEF AgentRestart, FinishExecution, HandleDispatch
  <1> QED BY <1>1, <1>2, AgentFrame, AgentTyped

\* An honest queue stays honest as executions are added.
LEMMA HonestGrow ==
    ASSUME TypeOK, TypeOK', \A c \in Cmd : execs[c] <= execs'[c],
           NEW q \in Seq(Message), Honest(q, execs)
    PROVE  Honest(q, execs')
  <1>1. ASSUME NEW i \in 1..Len(q) PROVE q[i].cmd \in Cmd
    <2>1. q[i] \in Message OBVIOUS
    <2> QED BY <2>1, Zenon DEF Message
  <1>2. \A c \in Cmd : execs[c] \in Nat /\ execs'[c] \in Nat BY AgentTyped, Zenon DEF TypeOK,
                                                                CountType
  <1> QED BY <1>1, <1>2 DEF Honest

\* Taking a message, adding an honest one, keeping a stretch.
LEMMA HonestTail ==
    ASSUME NEW x, NEW q \in Seq(Message), q # <<>>, Honest(q, x)
    PROVE  Honest(Tail(q), x) /\ Honest(<<>>, x)
           /\ (Head(q).status = "Succeeded" => x[Head(q).cmd] > 0)
  <1>1. \A i \in 1..Len(Tail(q)) : i + 1 \in 1..Len(q) /\ Tail(q)[i] = q[i + 1] OBVIOUS
  <1>2. 1 \in 1..Len(q) /\ q[1] = Head(q) OBVIOUS
  <1> QED BY <1>1, <1>2 DEF Honest
LEMMA HonestAppend ==
    ASSUME NEW x, NEW q \in Seq(Message), NEW m \in Message, Honest(q, x),
           m.status = "Succeeded" => x[m.cmd] > 0
    PROVE  Honest(Append(q, m), x) /\ Honest(Push(q, m), x)
  <1>1. \A i \in 1..Len(Append(q, m)) : \/ i \in 1..Len(q) /\ Append(q, m)[i] = q[i]
                                       \/ Append(q, m)[i] = m
       OBVIOUS
  <1>2. Honest(Append(q, m), x) BY <1>1, Zenon DEF Honest
  <1> QED BY <1>2, Zenon DEF Push
LEMMA HonestSub ==
    ASSUME NEW x, NEW q \in Seq(Message), Honest(q, x),
           NEW a \in Nat \ {0}, NEW b \in Nat, b <= Len(q)
    PROVE  Honest(SubSeq(q, a, b), x)
  <1>1. \A i \in 1..Len(SubSeq(q, a, b)) :
            a + i - 1 \in 1..Len(q) /\ SubSeq(q, a, b)[i] = q[a + i - 1]
       OBVIOUS
  <1> QED BY <1>1, Zenon DEF Honest

\* The next message for the server is a message.
LEMMA MessageTyped == TypeOK /\ toServer # <<>> => Head(toServer) \in Message
  BY DEF TypeOK, WireType

\* A row becomes Succeeded only through the agent's result.
LEMMA SuccessWritten ==
    ASSUME TypeOK, SubmitInv, Next, NEW c \in Cmd, rows'[c].state = "Succeeded"
    PROVE  \/ rows[c].state = "Succeeded"
           \/ toServer # <<>> /\ Head(toServer) = [cmd |-> c, status |-> "Succeeded"]
  <1> DEFINE Before == rows[c].state = "Succeeded"
             Told == toServer # <<>> /\ Head(toServer) = [cmd |-> c, status |-> "Succeeded"]
  <1>0. rows \in [Cmd -> [state : RowStates, retry : Nat, max : Nat]] BY Zenon DEF TypeOK,
                                                                         StoreType
  <1>1. ASSUME UNCHANGED rows PROVE Before BY <1>1, Zenon
  <1>2. ASSUME NEW d \in Cmd, NEW s, d # c \/ s # "Succeeded", WriteState(d, s) PROVE Before
       BY <1>0, <1>2, Zenon DEF WriteState
  <1>3. ASSUME SubmitUpsert PROVE Before
    <2>1. worker.cmd \in Cmd BY <1>3, Zenon DEF SubmitUpsert, TypeOK, WorkerType
    <2>2. worker.state # "Succeeded" BY <1>3, Zenon DEF SubmitUpsert, SubmitInv
    <2>3. UNCHANGED rows \/ upsert(worker.cmd, worker.state, worker.max) BY <1>3, Zenon
                                                                            DEF SubmitUpsert
    <2> QED BY <1>0, <2>1, <2>2, <2>3 DEF upsert
  <1>4. ASSUME on_command_ack PROVE Before
    <2>1. Head(toServer).cmd \in Cmd BY <1>4, MessageTyped, Zenon DEF on_command_ack, Message
    <2>2. Head(toServer).status # "Succeeded" BY <1>4, Zenon DEF on_command_ack, AckStatus
    <2> QED BY <1>2, <1>4, <2>1, <2>2, Zenon DEF on_command_ack
  <1>5. ASSUME on_command_result
        PROVE  Before \/ Told
    <2> DEFINE m == Head(toServer)
    <2>1. toServer # <<>> /\ (UNCHANGED rows \/ WriteState(m.cmd, m.status))
         BY <1>5, Zenon DEF on_command_result
    <2>2. m \in [cmd : Cmd, status : AckStatus \cup ResultStatus] BY <2>1, MessageTyped, Zenon
                                                                     DEF Message
    <2>3. CASE m.cmd = c /\ m.status = "Succeeded" BY <2>1, <2>2, <2>3, Zenon
    <2>4. CASE ~(m.cmd = c /\ m.status = "Succeeded")
         BY <1>1, <1>2, <2>1, <2>2, <2>4, Zenon
    <2> QED BY <2>3, <2>4, Zenon
  <1>6. ASSUME NEW d \in Cmd, RetryExpire(d) PROVE Before BY <1>1, <1>2, <1>6, Zenon
                                                           DEF RetryExpire
  <1>7. ASSUME RetryMark PROVE Before BY <1>1, <1>2, <1>7, Zenon DEF RetryMark, TypeOK, RetryType
  <1>8. ASSUME RetryFail PROVE Before
    <2>1. retry.cmd \in Cmd BY <1>8, Zenon DEF RetryFail, TypeOK, RetryType
    <2>2. UNCHANGED rows \/ WriteState(retry.cmd, "Failed") \/ update_retry_state(retry.cmd)
         BY <1>8, Zenon DEF RetryFail
    <2>3. CASE update_retry_state(retry.cmd) BY <1>0, <2>1, <2>3, Zenon DEF update_retry_state
    <2> QED BY <1>1, <1>2, <2>1, <2>2, <2>3, Zenon
  <1>9. ASSUME ServerRestart PROVE Before BY <1>0, <1>9 DEF ServerRestart, recover_inflight
  <1>10. ASSUME SubmitDispatch \/ WorkerEvent \/ RetryTick \/ RetryEvent PROVE UNCHANGED rows
       BY <1>10, Zenon DEF SubmitDispatch, WorkerEvent, RetryTick, RetryEvent, AppendEvent
  <1>11. ASSUME NEW d \in Cmd, RetrySend(d) PROVE UNCHANGED rows BY <1>11, Zenon DEF RetrySend
  <1>12. ASSUME NEW d \in Cmd, NEW n \in 0..MaxRetry, Submit(d, n) PROVE UNCHANGED rows
       BY <1>12, Zenon DEF Submit
  <1>13. ASSUME Connect \/ Disconnect \/ AgentRestart PROVE UNCHANGED rows
       BY <1>13, Zenon DEF Connect, Disconnect, AgentRestart
  <1>14. ASSUME Write \/ StartExecution \/ FinishExecution \/ \E d \in Cmd : HandleDispatch(d)
         PROVE  UNCHANGED rows
       BY <1>14, Zenon DEF Write, StartExecution, FinishExecution, HandleDispatch, AgentUnchanged
  <1>15. ASSUME NEW d \in Cmd, Expire(d) \/ BackoffElapses(d) PROVE UNCHANGED rows
       BY <1>15, Zenon DEF Expire, BackoffElapses, TimeUnchanged
  <1> HIDE DEF Before, Told
  <1>16. Before \/ Told
       BY <1>1, <1>3, <1>4, <1>5, <1>6, <1>7, <1>8, <1>9, <1>10, <1>11, <1>12, <1>13, <1>14,
          <1>15, NextCases, Zenon
  <1> QED BY <1>16, Zenon DEF Before, Told

\* What a step does to the agent's own messages.
LEMMA OutgoingHonest ==
    ASSUME TypeOK, TypeOK', TruthInv, Next
    PROVE  Honest(outgoing', execs')
  <1> DEFINE Old == outgoing' = outgoing \/ outgoing' = <<>>
  <1>1. outgoing \in Seq(Message) BY Zenon DEF TypeOK, WireType
  <1>2. Honest(outgoing, execs') BY <1>1, ExecsGrow, HonestGrow, Zenon DEF TruthInv
  <1>3. ASSUME Old PROVE Honest(outgoing', execs') BY <1>2, <1>3 DEF Honest
  <1>4. ASSUME NEW c \in Cmd, NEW s \in AckStatus \cup {"TimedOut", "Failed"}
        PROVE  [cmd |-> c, status |-> s] \in Message /\ s # "Succeeded"
       BY Zenon DEF Message, AckStatus, ResultStatus
  <1>5. ASSUME NEW c \in Cmd, HandleDispatch(c) PROVE Honest(outgoing', execs')
    <2> DEFINE acked == Push(outgoing, [cmd |-> c, status |-> "Acked"])
    <2>1. outgoing' \in {outgoing, acked, Push(acked, [cmd |-> c, status |-> "TimedOut"])}
         BY <1>5, Zenon DEF HandleDispatch, ExpiredStatus
    <2>2. Honest(acked, execs') BY <1>1, <1>2, <1>4, HonestAppend, Zenon DEF AckStatus
    <2>3. acked \in Seq(Message) BY <1>1, <1>4, PushType, Zenon DEF AckStatus
    <2> HIDE DEF acked
    <2>4. Honest(Push(acked, [cmd |-> c, status |-> "TimedOut"]), execs')
         BY <1>4, <2>2, <2>3, HonestAppend, Zenon
    <2> QED BY <1>2, <2>1, <2>2, <2>4, Zenon
  <1>6. ASSUME StartExecution PROVE Honest(outgoing', execs')
    <2>1. Head(queue) \in Cmd BY <1>6, AgentTyped DEF StartExecution
    <2> QED BY <1>1, <1>2, <1>4, <1>6, <2>1, HonestAppend, Zenon DEF StartExecution, AckStatus
  <1>7. ASSUME FinishExecution PROVE Honest(outgoing', execs')
    <2>1. PICK s \in {"Succeeded", "Failed"} :
              outgoing' = Push(outgoing, [cmd |-> executing, status |-> s])
         BY <1>7, Zenon DEF FinishExecution
    <2>2. executing \in Cmd /\ execs' = execs BY <1>7, AgentTyped, Zenon DEF FinishExecution
    <2>3. execs'[executing] > 0 BY <2>2, Zenon DEF TruthInv
    <2>4. [cmd |-> executing, status |-> s] \in Message BY <2>2, Zenon DEF Message, ResultStatus
    <2> QED BY <1>1, <1>2, <2>1, <2>3, <2>4, HonestAppend, Zenon
  <1>8. ASSUME Write PROVE Honest(outgoing', execs')
       BY <1>1, <1>2, <1>8, HonestTail, Zenon DEF Write
  <1>9. ASSUME Connect PROVE Honest(outgoing', execs')
    <2>1. PICK n \in 0..Len(outgoing) :
              outgoing' = SubSeq(outgoing, n + 1,
                                 IF n = 0 /\ Len(outgoing) >= OutCap
                                 THEN Len(outgoing) - 1 ELSE Len(outgoing))
         BY <1>9, Zenon DEF Connect
    <2>2. Len(outgoing) \in Nat /\ OutCap \in Nat \ {0} BY <1>1, ConstantsAssumption
    <2>3. PICK b \in Nat : b <= Len(outgoing) /\ outgoing' = SubSeq(outgoing, n + 1, b)
         BY <2>1, <2>2
    <2>4. n + 1 \in Nat \ {0} BY <2>1
    <2> QED BY <1>1, <1>2, <2>3, <2>4, HonestSub, Zenon
  <1>10. ASSUME AgentRestart \/ Disconnect \/ ServerRestart PROVE Old
       BY <1>10, Zenon DEF AgentRestart, Disconnect, ServerRestart
  <1>11. ASSUME SubmitDispatch \/ SubmitUpsert \/ WorkerEvent PROVE Old
       BY <1>11, Zenon DEF SubmitDispatch, SubmitUpsert, WorkerEvent
  <1>12. ASSUME on_command_ack \/ on_command_result PROVE Old
       BY <1>12, Zenon DEF on_command_ack, on_command_result
  <1>13. ASSUME RetryTick \/ RetryMark \/ RetryFail \/ RetryEvent PROVE Old
       BY <1>13, Zenon DEF RetryTick, RetryMark, RetryFail, RetryEvent, RetryUnchanged
  <1>14. ASSUME NEW c \in Cmd, RetryExpire(c) \/ RetrySend(c) \/ Expire(c) \/ BackoffElapses(c) PROVE Old
       BY <1>14, Zenon DEF RetryExpire, RetrySend, RetryUnchanged, Expire, BackoffElapses, TimeUnchanged
  <1>15. ASSUME NEW c \in Cmd, NEW n \in 0..MaxRetry, Submit(c, n) PROVE Old
       BY <1>15, Zenon DEF Submit
  <1> HIDE DEF Old
  <1> QED BY <1>3, <1>5, <1>6, <1>7, <1>8, <1>9, <1>10, <1>11, <1>12, <1>13, <1>14, <1>15, NextCases

\* What a step does to the messages on their way to the server.
LEMMA ToServerHonest ==
    ASSUME TypeOK, TypeOK', TruthInv, Next
    PROVE  Honest(toServer', execs')
  <1> DEFINE Old == toServer' = toServer \/ toServer' = <<>>
  <1>1. toServer \in Seq(Message) /\ outgoing \in Seq(Message) BY Zenon DEF TypeOK, WireType
  <1>2. Honest(toServer, execs') /\ Honest(outgoing, execs')
       BY <1>1, ExecsGrow, HonestGrow, Zenon DEF TruthInv
  <1>3. ASSUME Old PROVE Honest(toServer', execs') BY <1>2, <1>3 DEF Honest
  <1>4. ASSUME Write PROVE Honest(toServer', execs')
    <2>1. outgoing # <<>> /\ toServer' = Append(toServer, Head(outgoing)) BY <1>4, Zenon
                                                                             DEF Write
    <2>2. Head(outgoing) \in Message BY <1>1, <2>1
    <2>3. Head(outgoing).status = "Succeeded" => execs'[Head(outgoing).cmd] > 0
         BY <1>1, <1>2, <2>1, HonestTail, Zenon
    <2> QED BY <1>1, <1>2, <2>1, <2>2, <2>3, HonestAppend, Zenon
  <1>5. ASSUME on_command_ack \/ on_command_result PROVE Honest(toServer', execs')
    <2>1. toServer # <<>> /\ toServer' = Tail(toServer)
         BY <1>5, Zenon DEF on_command_ack, on_command_result
    <2> QED BY <1>1, <1>2, <2>1, HonestTail, Zenon
  <1>6. ASSUME AgentRestart \/ Disconnect \/ ServerRestart PROVE Old
       BY <1>6, Zenon DEF AgentRestart, Disconnect, ServerRestart, LinkLost
  <1>7. ASSUME Connect \/ SubmitDispatch \/ SubmitUpsert \/ WorkerEvent PROVE Old
       BY <1>7, Zenon DEF Connect, SubmitDispatch, SubmitUpsert, WorkerEvent
  <1>8. ASSUME RetryTick \/ RetryMark \/ RetryFail \/ RetryEvent PROVE Old
       BY <1>8, Zenon DEF RetryTick, RetryMark, RetryFail, RetryEvent, RetryUnchanged
  <1>9. ASSUME NEW c \in Cmd, RetryExpire(c) \/ RetrySend(c) \/ Expire(c) \/ BackoffElapses(c) PROVE Old
       BY <1>9, Zenon DEF RetryExpire, RetrySend, RetryUnchanged, Expire, BackoffElapses, TimeUnchanged
  <1>10. ASSUME NEW c \in Cmd, NEW n \in 0..MaxRetry, Submit(c, n) PROVE Old
       BY <1>10, Zenon DEF Submit
  <1>11. ASSUME StartExecution \/ FinishExecution \/ \E c \in Cmd : HandleDispatch(c) PROVE Old
       BY <1>11, Zenon DEF StartExecution, FinishExecution, HandleDispatch
  <1> HIDE DEF Old
  <1> QED BY <1>3, <1>4, <1>5, <1>6, <1>7, <1>8, <1>9, <1>10, <1>11, NextCases, Zenon

\* Success stays a claim about an execution.
LEMMA TruthStep ==
    ASSUME TypeOK, TypeOK', SubmitInv, TruthInv, Next
    PROVE  TruthInv'
  <1>1. \A c \in Cmd : execs[c] \in Nat /\ execs'[c] \in Nat /\ execs[c] <= execs'[c]
       BY ExecsGrow, Zenon DEF TypeOK, CountType
  <1>2. executing' \in Cmd => execs'[executing'] > 0
    <2>1. ASSUME StartExecution PROVE execs'[executing'] > 0
      <3>1. /\ Head(queue) \in Cmd /\ executing' = Head(queue)
            /\ execs' = [execs EXCEPT ![Head(queue)] = @ + 1]
           BY <2>1, AgentTyped DEF StartExecution
      <3>2. execs'[executing'] = execs[executing'] + 1 BY <3>1, AgentTyped, Zenon
      <3> QED BY <1>1, <3>1, <3>2
    <2>2. ASSUME AgentRestart \/ FinishExecution PROVE executing' \notin Cmd
         BY <2>2, ConstantsAssumption, Zenon DEF AgentRestart, FinishExecution
    <2>3. ASSUME executing' = executing, executing \in Cmd PROVE execs'[executing'] > 0
         BY <1>1, <2>3 DEF TruthInv
    <2>4. ASSUME NEW c \in Cmd, HandleDispatch(c) PROVE executing' = executing
         BY <2>4, Zenon DEF HandleDispatch
    <2> QED BY <2>1, <2>2, <2>3, <2>4, AgentFrame, Zenon
  <1>3. SuccessWasExecuted'
    <2> SUFFICES ASSUME NEW c \in Cmd, rows'[c].state = "Succeeded" PROVE execs'[c] > 0
         BY Zenon DEF SuccessWasExecuted
    <2>1. CASE rows[c].state = "Succeeded" BY <1>1, <2>1 DEF TruthInv, SuccessWasExecuted
    <2>2. CASE toServer # <<>> /\ Head(toServer) = [cmd |-> c, status |-> "Succeeded"]
      <3>1. toServer \in Seq(Message) BY Zenon DEF TypeOK, WireType
      <3>2. Head(toServer).status = "Succeeded" => execs[Head(toServer).cmd] > 0
           BY <2>2, <3>1, HonestTail, Zenon DEF TruthInv
      <3>3. Head(toServer).status = "Succeeded" /\ Head(toServer).cmd = c BY <2>2
      <3> QED BY <1>1, <3>2, <3>3
    <2> QED BY <2>1, <2>2, SuccessWritten, Zenon
  <1> QED BY <1>2, <1>3, OutgoingHonest, ToServerHonest, Zenon DEF TruthInv

\* Every step keeps ExecInv.
LEMMA ExecStep ==
    ASSUME TypeOK, TypeOK', SubmitInv, ExecInv, [Next]_vars
    PROVE  ExecInv'
  <1>1. CASE Next BY <1>1, LifeStep, FlowStep, TruthStep, Zenon DEF ExecInv
  <1>2. CASE UNCHANGED vars
       BY <1>2, Zenon DEF vars, ExecInv, QueueInv, LifeInv, FlowInv, TruthInv, Honest, Queued,
          SuccessWasExecuted
  <1> QED BY <1>1, <1>2, Zenon

\* ExecInv holds of every reachable state.
LEMMA ExecInvariant == Spec => []ExecInv
  <1>1. TypeOK /\ TypeOK' /\ IInv /\ ExecInv /\ [Next]_vars => ExecInv' BY ExecStep, Zenon
                                                                           DEF IInv
  <1> QED BY <1>1, ExecInit, Inductive, PTL DEF Spec

\* The agent executes a command at most once per life, whatever is sent twice,
\* and at most once more than the store failed to record a dispatch.
THEOREM ExecutedAtMostOnceHolds == Spec => []ExecutedAtMostOnce
  <1>1. TypeOK /\ IInv /\ ExecInv => ExecutedAtMostOnce
    <2> SUFFICES ASSUME TypeOK, IInv, ExecInv, NEW c \in Cmd
                 PROVE  execs[c] <= 1 + restarts /\ execs[c] <= 1 + unmarked[c]
         BY Zenon DEF ExecutedAtMostOnce
    <2>1. toAgent[c] + execs[c] <= sends[c] /\ sends[c] <= 1 + unmarked[c]
         BY Zenon DEF ExecInv, FlowInv, IInv, SentAtMostOnce
    <2>2. /\ toAgent[c] \in Nat /\ execs[c] \in Nat /\ sends[c] \in Nat /\ unmarked[c] \in Nat
         BY Zenon DEF TypeOK, CountType, WireType
    <2> QED BY <2>1, <2>2 DEF ExecInv, LifeInv
  <1> QED BY <1>1, ExecInvariant, Inductive, PTL

\* The table says Succeeded only of commands the agent executed.
THEOREM SuccessWasExecutedHolds == Spec => []SuccessWasExecuted
  <1>1. ExecInv => SuccessWasExecuted BY Zenon DEF ExecInv, TruthInv
  <1> QED BY <1>1, ExecInvariant, PTL
=============================================================================
