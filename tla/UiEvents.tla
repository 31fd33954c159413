------------------------------ MODULE UiEvents ------------------------------
(***************************************************************************)
(* What owt-net tells its browser sessions.  Agent messages, UI actions    *)
(* and the retry thread publish: one task per subscribed session is posted *)
(* to the partitioned scheduler, whose workers run the tasks of a session  *)
(* in order; a task reads the registry and puts a message into the         *)
(* session's bounded queue, which the session's writer sends.  Sessions    *)
(* open, switch the agent they observe, overflow and close, and the server *)
(* shuts down.                                                             *)
(***************************************************************************)
EXTENDS Integers, Sequences, FiniteSets, Functions

CONSTANTS
    Session, Agent, Worker,
    PickWorker,     \* the worker of a session's or an agent's partition
    Nobody,         \* no agent
    Capacity,       \* queue_capacity of a worker
    LowPct,         \* low_priority_drop_threshold_pct
    QueueLimit,     \* queue_limit of a UI session
    MaxVersion,     \* bound: changes of the agents' states
    MaxSwitches,    \* bound: session.subscribe actions of a session
    MaxEvents       \* bound: command events of the retry thread

ASSUME UiEventsAssumption ==
    /\ PickWorker \in [Session \cup Agent -> Worker]
    /\ Session \cap Agent = {} /\ Nobody \notin Agent
    /\ {"none", "all"} \cap Agent = {} /\ "retry" \notin Worker
    /\ Capacity \in Nat \ {0} /\ LowPct \in 1 .. 100 /\ QueueLimit \in Nat \ {0}
    /\ MaxVersion \in Nat /\ MaxSwitches \in Nat /\ MaxEvents \in Nat

VARIABLES
    version,    \* per agent: the version of its state in the registry
    told,       \* per agent: the version that was published last
    sub,        \* per session: "none", "all" or the agent it observes
    conn,       \* per session: how far on_ui_open got, or "gone"
    shut,       \* the sessions whose connection takes nothing any more
    queue,      \* per worker: its tasks
    todo,       \* per publisher: the posts it still has to make
    box,        \* per session: the messages its writer has not sent
    seen,       \* per session and agent: the version the browser shows
    switched,   \* per session: the agent of the last switch the browser knows of
    heard,      \* per session: command events the browser got
    missed,     \* per session: was a post or a message for it refused?
    stage,      \* "up", "joining", "draining", "cleared"
    switches, events

sched == <<queue, todo>>
link == <<conn, shut>>
browser == <<seen, switched, heard>>
vars == <<version, told, sub, link, sched, box, browser, missed, stage, switches, events>>

Publisher == Worker \cup {"retry"}
Version == 0 .. MaxVersion
Event == 1 .. MaxEvents
Scope == {"none", "all"} \cup Agent
Task ==
    [kind : {"heartbeat", "register"}, agent : Agent]
    \cup [kind : {"snapshot"}, session : Session]
    \cup [kind : {"agent", "overview", "subscribe", "push"}, session : Session, agent : Agent]
    \cup [kind : {"event"}, session : Session, agent : Agent, event : Event]
Message ==
    [kind : {"snapshot"}, versions : [Agent -> Version]]
    \cup [kind : {"update", "push"}, agent : Agent, version : Version]
    \cup [kind : {"result"}, agent : Agent]
    \cup [kind : {"event"}, event : Event]

\* Every variable keeps its type and every queue its limit.
TypeOK ==
    /\ version \in [Agent -> Version] /\ told \in [Agent -> Version]
    /\ sub \in [Session -> Scope]
    /\ conn \in [Session -> {"new", "subscribed", "added", "open", "gone"}]
    /\ shut \in SUBSET Session
    /\ queue \in [Worker -> Seq(Task)] /\ \A w \in Worker : Len(queue[w]) <= Capacity
    /\ todo \in [Publisher -> SUBSET Task]
    /\ box \in [Session -> Seq(Message)] /\ \A s \in Session : Len(box[s]) <= QueueLimit
    /\ seen \in [Session -> [Agent -> Version]]
    /\ switched \in [Session -> Agent \cup {Nobody}]
    /\ heard \in [Session -> SUBSET Event] /\ missed \in [Session -> BOOLEAN]
    /\ stage \in {"up", "joining", "draining", "cleared"}
    /\ switches \in [Session -> 0 .. MaxSwitches] /\ events \in 0 .. MaxEvents

Init ==
    /\ version = [a \in Agent |-> 0] /\ told = [a \in Agent |-> 0]
    /\ sub = [s \in Session |-> "none"]
    /\ conn = [s \in Session |-> "new"] /\ shut = {}
    /\ queue = [w \in Worker |-> <<>>] /\ todo = [p \in Publisher |-> {}]
    /\ box = [s \in Session |-> <<>>] /\ seen = [s \in Session |-> [a \in Agent |-> 0]]
    /\ switched = [s \in Session |-> Nobody] /\ heard = [s \in Session |-> {}]
    /\ missed = [s \in Session |-> FALSE] /\ stage = "up"
    /\ switches = [s \in Session |-> 0] /\ events = 0

-----------------------------------------------------------------------------
(* PartitionedScheduler. *)

Low(task) == task.kind \in {"snapshot", "overview"}
FromAgent(task) == task.kind \in {"heartbeat", "register"}
Key(task) == IF FromAgent(task) THEN task.agent ELSE task.session
WorkerOf(task) == PickWorker[Key(task)]

\* post: a full queue refuses, a filling one refuses what has low priority.
Accepts(task) ==
    LET size == Len(queue[WorkerOf(task)])
    IN  /\ stage \in {"up", "joining"} /\ size < Capacity
        /\ Low(task) => (size * 100) \div Capacity < LowPct

Refused(task) ==
    missed' = [s \in Session |-> missed[s] \/
        (~FromAgent(task) /\ task.session = s /\ conn[s] # "gone")]

Post(task) ==
    IF Accepts(task)
    THEN queue' = [queue EXCEPT ![WorkerOf(task)] = Append(@, task)] /\ UNCHANGED missed
    ELSE Refused(task) /\ UNCHANGED queue

\* A publisher makes the posts of the rows it read from the subscriptions.
PublishOne(p) ==
    \E task \in todo[p] :
        /\ Post(task)
        /\ todo' = [todo EXCEPT ![p] = @ \ {task}]
        /\ UNCHANGED <<version, told, sub, link, box, browser, stage, switches, events>>

Subscribed == {s \in Session : sub[s] # "none"}
publish_agent(a) == {[kind |-> "agent", session |-> s, agent |-> a] : s \in Subscribed}
publish_snapshot(a) == {[kind |-> "overview", session |-> s, agent |-> a] : s \in Subscribed}
publish_command_event(a, n) ==
    {[kind |-> "event", session |-> s, agent |-> a, event |-> n] : s \in Subscribed}

-----------------------------------------------------------------------------
(* UiSessionRegistry. *)

Registered(s) == conn[s] \in {"added", "open"}
Connected(s) == conn[s] \in {"subscribed", "added", "open"} /\ s \notin shut

\* enqueue: a message for a session that is not there is dropped; one for a
\* full session shuts its connection.
Enqueue(s, msg) ==
    /\ UNCHANGED <<conn, missed>>
    /\ IF ~Registered(s) THEN UNCHANGED <<box, shut>>
       ELSE IF Len(box[s]) < QueueLimit
       THEN box' = [box EXCEPT ![s] = Append(@, msg)] /\ UNCHANGED shut
       ELSE shut' = shut \cup {s} /\ UNCHANGED box

Snapshot == [kind |-> "snapshot", versions |-> version]

\* Mutant: the message carries what was published, not what the registry has.
UpdateAsTold(a, kind) == [kind |-> kind, agent |-> a, version |-> told[a]]

Update(a, kind) == [kind |-> kind, agent |-> a, version |-> version[a]]

\* session_writer_loop: what a closed connection cannot take is thrown away.
WriterSends(s) ==
    /\ box[s] # <<>>
    /\ box' = [box EXCEPT ![s] = Tail(@)]
    /\ LET msg == Head(box[s])
       IN  IF ~Connected(s) THEN UNCHANGED browser
           ELSE /\ seen' = [seen EXCEPT ![s] =
                        IF msg.kind = "snapshot" THEN msg.versions
                        ELSE IF msg.kind \in {"update", "push"}
                        THEN [@ EXCEPT ![msg.agent] = msg.version] ELSE @]
                /\ switched' = [switched EXCEPT ![s] =
                        IF msg.kind = "result" THEN msg.agent ELSE @]
                /\ heard' = [heard EXCEPT ![s] =
                        IF msg.kind = "event" THEN @ \cup {msg.event} ELSE @]
    /\ UNCHANGED <<version, told, sub, link, sched, missed, stage, switches, events>>

-----------------------------------------------------------------------------
(* Tasks, each run by its worker.  A worker that still publishes is busy. *)

Runs(w, task) ==
    /\ todo[w] = {} /\ queue[w] # <<>> /\ Head(queue[w]) = task
    /\ UNCHANGED <<browser, stage, switches, events>>

Done(w) == queue' = [queue EXCEPT ![w] = Tail(@)]

\* An agent message: the registry changes, then it is published; a
\* registration is published to both kinds of subscription.
RunHeartbeat(w, task) ==
    /\ FromAgent(task) /\ Runs(w, task) /\ Done(w)
    /\ version' = [version EXCEPT ![task.agent] = @ + 1]
    /\ told' = [told EXCEPT ![task.agent] = version[task.agent] + 1]
    /\ todo' = [todo EXCEPT ![w] = publish_agent(task.agent) \cup
            IF task.kind = "register" THEN publish_snapshot(task.agent) ELSE {}]
    /\ UNCHANGED <<sub, link, box, missed>>

\* push_snapshot_to_session when a session has opened.
RunSnapshot(w, task) ==
    /\ task.kind = "snapshot" /\ Runs(w, task) /\ Done(w)
    /\ Enqueue(task.session, Snapshot)
    /\ UNCHANGED <<version, told, sub, todo>>

\* Mutant: the task does not ask for the subscription.
RunAgentUnasked(w, task) ==
    /\ task.kind = "agent" /\ Runs(w, task) /\ Done(w)
    /\ Enqueue(task.session, Update(task.agent, "update"))
    /\ UNCHANGED <<version, told, sub, todo>>

\* Mutant: sessions that observe all agents are forgotten.
RunAgentExact(w, task) ==
    /\ task.kind = "agent" /\ Runs(w, task) /\ Done(w)
    /\ IF sub[task.session] = task.agent
       THEN Enqueue(task.session, Update(task.agent, "update"))
       ELSE UNCHANGED <<box, link, missed>>
    /\ UNCHANGED <<version, told, sub, todo>>

\* The task of publish_agent asks for the subscription when it runs.
RunAgent(w, task) ==
    /\ task.kind = "agent" /\ Runs(w, task) /\ Done(w)
    /\ IF sub[task.session] \in {"all", task.agent}
       THEN Enqueue(task.session, Update(task.agent, "update"))
       ELSE UNCHANGED <<box, link, missed>>
    /\ UNCHANGED <<version, told, sub, todo>>

\* So does that of publish_snapshot, which depends on the scope.
RunOverview(w, task) ==
    /\ task.kind = "overview" /\ Runs(w, task) /\ Done(w)
    /\ CASE sub[task.session] = "all" -> Enqueue(task.session, Snapshot)
         [] sub[task.session] = task.agent ->
                Enqueue(task.session, Update(task.agent, "update"))
         [] OTHER -> UNCHANGED <<box, link, missed>>
    /\ UNCHANGED <<version, told, sub, todo>>

RunEvent(w, task) ==
    /\ task.kind = "event" /\ Runs(w, task) /\ Done(w)
    /\ IF sub[task.session] \in {"all", task.agent}
       THEN Enqueue(task.session, [kind |-> "event", event |-> task.event])
       ELSE UNCHANGED <<box, link, missed>>
    /\ UNCHANGED <<version, told, sub, todo>>

\* handle_session_subscribe: the new scope, a post of the agent's state to the
\* session's own partition, and the result.
RunSubscribe(w, task) ==
    /\ task.kind = "subscribe" /\ Runs(w, task) /\ Done(w)
    /\ sub' = [sub EXCEPT ![task.session] = task.agent]
    /\ todo' = [todo EXCEPT ![w] =
            {[kind |-> "push", session |-> task.session, agent |-> task.agent]}]
    /\ Enqueue(task.session, [kind |-> "result", agent |-> task.agent])
    /\ UNCHANGED <<version, told>>

\* push_agent_to_session does not ask for the subscription.
RunPush(w, task) ==
    /\ task.kind = "push" /\ Runs(w, task) /\ Done(w)
    /\ Enqueue(task.session, Update(task.agent, "push"))
    /\ UNCHANGED <<version, told, sub, todo>>

\* Mutant: a worker that is told to stop leaves its queue as it is.
RunTaskWhileUp(w) ==
    /\ queue[w] # <<>> /\ stage # "draining"
    /\ LET task == Head(queue[w])
       IN  \/ RunHeartbeat(w, task) \/ RunSnapshot(w, task) \/ RunAgent(w, task)
           \/ RunOverview(w, task) \/ RunEvent(w, task) \/ RunSubscribe(w, task)
           \/ RunPush(w, task)

RunTask(w) ==
    /\ queue[w] # <<>>
    /\ LET task == Head(queue[w])
       IN  \/ RunHeartbeat(w, task) \/ RunSnapshot(w, task) \/ RunAgent(w, task)
           \/ RunOverview(w, task) \/ RunEvent(w, task) \/ RunSubscribe(w, task)
           \/ RunPush(w, task)

-----------------------------------------------------------------------------
(* The IO threads: sessions open, ask and close, agents talk and leave. *)

\* on_ui_open, in three steps.
OpenSubscribes(s) ==
    /\ stage = "up" /\ conn[s] = "new"
    /\ conn' = [conn EXCEPT ![s] = "subscribed"] /\ sub' = [sub EXCEPT ![s] = "all"]
    /\ UNCHANGED <<version, told, shut, sched, box, browser, missed, stage, switches, events>>

OpenAdds(s) ==
    /\ conn[s] = "subscribed" /\ conn' = [conn EXCEPT ![s] = "added"]
    /\ UNCHANGED <<version, told, sub, shut, sched, box, browser, missed, stage, switches, events>>

OpenPosts(s) ==
    /\ conn[s] = "added" /\ conn' = [conn EXCEPT ![s] = "open"]
    /\ Post([kind |-> "snapshot", session |-> s])
    /\ UNCHANGED <<version, told, sub, shut, todo, box, browser, stage, switches, events>>

\* on_ui_message with session.subscribe; a refused one is answered "busy".
AskSwitch(s, a) ==
    /\ stage = "up" /\ conn[s] = "open" /\ switches[s] < MaxSwitches
    /\ switches' = [switches EXCEPT ![s] = @ + 1]
    /\ LET task == [kind |-> "subscribe", session |-> s, agent |-> a]
       IN  queue' = IF Accepts(task)
                    THEN [queue EXCEPT ![WorkerOf(task)] = Append(@, task)] ELSE queue
    /\ UNCHANGED <<version, told, sub, link, todo, box, browser, missed, stage, events>>

\* The browsers of ended sessions show nothing any more.
Forget(ended) ==
    /\ seen' = [s \in Session |-> IF s \in ended THEN [a \in Agent |-> 0] ELSE seen[s]]
    /\ switched' = [s \in Session |-> IF s \in ended THEN Nobody ELSE switched[s]]
    /\ heard' = [s \in Session |-> IF s \in ended THEN {} ELSE heard[s]]
    /\ missed' = [s \in Session |-> missed[s] /\ s \notin ended]

\* on_ui_close, when the browser leaves or after shutdown_session.
Close(s) ==
    /\ stage = "up" /\ conn[s] = "open"
    /\ conn' = [conn EXCEPT ![s] = "gone"] /\ sub' = [sub EXCEPT ![s] = "none"]
    /\ box' = [box EXCEPT ![s] = <<>>] /\ shut' = shut \ {s} /\ Forget({s})
    /\ UNCHANGED <<version, told, sched, stage, switches, events>>

\* on_agent_message; the bound counts the changes that are still queued.
Changes ==
    Cardinality({x \in Worker \X (1 .. Capacity) :
        x[2] <= Len(queue[x[1]]) /\ FromAgent(queue[x[1]][x[2]])})
    + FoldFunction(+, 0, version)

AgentTalks(a, kind) ==
    LET task == [kind |-> kind, agent |-> a]
    IN  /\ stage = "up" /\ Changes < MaxVersion /\ Accepts(task)
        /\ queue' = [queue EXCEPT ![WorkerOf(task)] = Append(@, task)]
        /\ UNCHANGED <<version, told, sub, link, todo, box, browser, missed, stage,
                       switches, events>>

\* on_agent_close marks the agent offline and publishes nothing.
AgentLeaves(a) ==
    /\ stage = "up" /\ Changes < MaxVersion
    /\ version' = [version EXCEPT ![a] = @ + 1]
    /\ UNCHANGED <<told, sub, link, sched, box, browser, missed, stage, switches, events>>

-----------------------------------------------------------------------------
(* The retry thread, and the end of the program. *)

RetryPublishes(a) ==
    /\ stage = "up" /\ todo["retry"] = {} /\ events < MaxEvents
    /\ events' = events + 1
    /\ todo' = [todo EXCEPT !["retry"] =
            publish_command_event(a, events + 1) \cup publish_snapshot(a)]
    /\ UNCHANGED <<version, told, sub, link, queue, box, browser, missed, stage, switches>>

\* run() returns when no IO thread is inside a callback, and nothing reaches a
\* browser from then on; lifecycle.stop joins the retry thread, the scheduler's
\* stop refuses posts and joins the workers, which empty their queues first,
\* and close_all ends the sessions.
LifecycleStop ==
    /\ stage = "up" /\ \A s \in Session : conn[s] \notin {"subscribed", "added"}
    /\ stage' = "joining"
    /\ shut' = Session /\ Forget(Session)
    /\ UNCHANGED <<version, told, sub, conn, sched, box, switches, events>>

\* Mutant: the scheduler is stopped before the retry thread is joined.
SchedulerStopFirst ==
    /\ stage = "joining" /\ stage' = "draining"
    /\ UNCHANGED <<version, told, sub, link, sched, box, browser, missed, switches, events>>

SchedulerStop ==
    /\ stage = "joining" /\ todo["retry"] = {} /\ stage' = "draining"
    /\ UNCHANGED <<version, told, sub, link, sched, box, browser, missed, switches, events>>

ClearWorkers ==
    /\ stage = "draining" /\ \A w \in Worker : queue[w] = <<>> /\ todo[w] = {}
    /\ stage' = "cleared"
    /\ conn' = [s \in Session |-> "gone"] /\ box' = [s \in Session |-> <<>>]
    /\ UNCHANGED <<version, told, sub, shut, sched, browser, missed, switches, events>>

Next ==
    \/ \E w \in Worker : RunTask(w)
    \/ \E p \in Publisher : PublishOne(p)
    \/ \E s \in Session :
        \/ WriterSends(s) \/ OpenSubscribes(s) \/ OpenAdds(s) \/ OpenPosts(s) \/ Close(s)
        \/ \E a \in Agent : AskSwitch(s, a)
    \/ \E a \in Agent :
        \/ AgentLeaves(a) \/ RetryPublishes(a)
        \/ \E kind \in {"heartbeat", "register"} : AgentTalks(a, kind)
    \/ LifecycleStop \/ SchedulerStop \/ ClearWorkers

Spec == Init /\ [][Next]_vars

\* Threads that can go on do, and a connection that was shut down closes.
Fairness ==
    /\ \A w \in Worker : WF_vars(RunTask(w))
    /\ \A p \in Publisher : WF_vars(PublishOne(p))
    /\ \A s \in Session :
        WF_vars(WriterSends(s)) /\ WF_vars(OpenAdds(s)) /\ WF_vars(OpenPosts(s))
    /\ \A s \in Session : WF_vars(s \in shut /\ Close(s))
    /\ WF_vars(SchedulerStop) /\ WF_vars(ClearWorkers)

FairSpec == Spec /\ Fairness

-----------------------------------------------------------------------------
(* What the browser may rely on. *)

\* The session is open and its connection up.
Open(s) == conn[s] = "open" /\ s \notin shut

\* A browser never falls back to an older state of an agent, although agent
\* messages, UI actions and the retry thread publish at the same time: the
\* tasks of a session share a worker and read the registry when they run.
NeverOlder ==
    [][\A s \in Session, a \in Agent :
        Open(s)' => seen'[s][a] >= seen[s][a]]_vars

\* Once a switch to another agent was answered, only the state that an
\* earlier switch asked for may still arrive of any other agent: updates and
\* snapshots that were on their way are filtered by their tasks.
StraysArePushes ==
    [][\A s \in Session :
        Open(s)' /\ box[s] # <<>> /\ box'[s] = Tail(box[s]) /\ switched[s] # Nobody =>
            LET msg == Head(box[s])
            IN  /\ msg.kind # "snapshot"
                /\ msg.kind = "update" => msg.agent = switched[s]]_vars

\* What was published of an agent reaches every open session that observes
\* it, however publishing, opening and switching interleave, unless a bounded
\* queue refused something for that session or the program ends.
PublishedIsSeen ==
    \A s \in Session, a \in Agent, v \in 1 .. MaxVersion :
        Open(s) /\ sub[s] \in {"all", a} /\ told[a] >= v
            ~> (\/ seen[s][a] >= v \/ missed[s] \/ ~Open(s)
                \/ sub[s] \notin {"all", a})

\* An event that was posted for an open session is shown by its browser,
\* under the same reservations.
EventsAreHeard ==
    \A s \in Session, a \in Agent, n \in Event :
        (Open(s) /\ \E w \in Worker : \E i \in DOMAIN queue[w] :
                queue[w][i] = [kind |-> "event", session |-> s, agent |-> a, event |-> n])
            ~> (\/ n \in heard[s] \/ missed[s] \/ ~Open(s)
                \/ sub[s] \notin {"all", a})

\* The workers are only thrown away when nobody can post to them any more.
ClearedIsUnused == stage = "cleared" => \A p \in Publisher : todo[p] = {}

\* Shutting down ends: nobody waits for a thread that waits for somebody.
StopEnds == stage = "joining" ~> stage = "cleared"
=============================================================================
