--------------------------- MODULE UiEventsProofs ---------------------------
(***************************************************************************)
(* The safety properties of UiEvents, for every set of sessions, agents    *)
(* and workers and every limit of the queues: what the browsers show never *)
(* goes back, a switch of the observed agent is obeyed by all that is      *)
(* filtered, and the workers are not thrown away under a publisher.        *)
(***************************************************************************)
EXTENDS UiEvents, TLAPS

\* What a message says of an agent's state.
Carries(m, a) == m.kind = "snapshot" \/ (m.kind \in {"update", "push"} /\ m.agent = a)
Value(m, a) == IF m.kind = "snapshot" THEN m.versions[a] ELSE m.version

\* Along what the browser shows, its waiting messages and the registry, the
\* versions of each agent never go back.
Ordered(q, shown, current) ==
    \A a \in Agent :
        /\ shown[a] <= current[a]
        /\ \A i \in 1..Len(q) : Carries(q[i], a) =>
              /\ shown[a] <= Value(q[i], a) /\ Value(q[i], a) <= current[a]
              /\ \A j \in 1..i : Carries(q[j], a) => Value(q[j], a) <= Value(q[i], a)

OrderInv == \A s \in Session : Ordered(box[s], seen[s], version)

\* The agent a switch is answered for at place j of the messages q, place 0
\* being what the browser knows already.
Answer(q, known, j) ==
    IF j = 0 THEN known ELSE IF q[j].kind = "result" THEN q[j].agent ELSE Nobody

\* Behind the answer to a switch there is no snapshot, and no update but of the
\* agent answered last, which is the agent the session observes now.
Settled(q, known, scope) ==
    \A j \in 0..Len(q) : Answer(q, known, j) # Nobody =>
        /\ scope \in Agent
        /\ \A i \in j+1..Len(q) : q[i].kind # "snapshot"
        /\ \A i \in j+1..Len(q) :
              q[i].kind = "update" /\ (\A k \in j+1..i-1 : Answer(q, known, k) = Nobody)
                  => q[i].agent = Answer(q, known, j)
        /\ (\A k \in j+1..Len(q) : Answer(q, known, k) = Nobody)
               => scope = Answer(q, known, j)

\* Messages are still put into the session's box.
Live(s) == Registered(s) /\ s \notin shut
SettledInv ==
    \A s \in Session :
        /\ Live(s) => Settled(box[s], switched[s], sub[s])
        /\ conn[s] \in {"new", "subscribed"} => box[s] = <<>> /\ switched[s] = Nobody

\* The tasks publishers post.
Published == {"agent", "overview", "event", "push"}

\* The tasks that open and switch a session: the snapshot is posted once, before
\* any switch can be asked for, and runs before it on the same worker.
Opens(task, s) == task.kind = "snapshot" /\ task.session = s
Switches(task, s) == task.kind = "subscribe" /\ task.session = s
Opened == {"open", "gone"}

RouteInv == \A w \in Worker : \A i \in 1..Len(queue[w]) : WorkerOf(queue[w][i]) = w
TodoInv == \A p \in Publisher : \A task \in todo[p] : task.kind \in Published
SwitchInv ==
    \A s \in Session, w \in Worker : \A i \in 1..Len(queue[w]) : Switches(queue[w][i], s) =>
        /\ conn[s] \in Opened
        /\ \A j \in 1..Len(queue[w]) : Opens(queue[w][j], s) => j < i
OpenInv ==
    \A s \in Session, w \in Worker : \A i \in 1..Len(queue[w]) : Opens(queue[w][i], s) =>
        conn[s] \in Opened /\ sub[s] \notin Agent
ScopeInv == \A s \in Session : sub[s] \in Agent => conn[s] \in Opened

TaskInv == RouteInv /\ SwitchInv /\ OpenInv /\ ScopeInv

\* Once the scheduler is stopped the retry thread is joined; once the workers
\* are cleared they are done.
StopInv ==
    /\ stage \in {"draining", "cleared"} => todo["retry"] = {}
    /\ stage = "cleared" => \A w \in Worker : queue[w] = <<>> /\ todo[w] = {}

-----------------------------------------------------------------------------
(* Types.  The bound on the versions rests on a sum over the agents and is  *)
(* left to TLC; here a version is any natural number.                       *)

Note ==
    [kind : {"snapshot"}, versions : [Agent -> Nat]]
    \cup [kind : {"update", "push"}, agent : Agent, version : Nat]
    \cup [kind : {"result"}, agent : Agent]
    \cup [kind : {"event"}, event : Event]

RegistryType == /\ version \in [Agent -> Nat]
                /\ sub \in [Session -> Scope]
ConnType == /\ conn \in [Session -> {"new", "subscribed", "added", "open", "gone"}]
            /\ shut \subseteq Session
TasksType == queue \in [Worker -> Seq(Task)] /\ todo \in [Publisher -> SUBSET Task]
BoxType == box \in [Session -> Seq(Note)]
ShownType == /\ seen \in [Session -> [Agent -> Nat]]
             /\ switched \in [Session -> Agent \cup {Nobody}]
CountsType == events \in 0..MaxEvents

Types == RegistryType /\ ConnType /\ TasksType /\ BoxType /\ ShownType /\ CountsType

\* The parts of a task.
LEMMA TaskFacts ==
    ASSUME NEW task \in Task
    PROVE  /\ FromAgent(task) => task.agent \in Agent
           /\ ~FromAgent(task) => task.session \in Session
           /\ task.kind \in {"agent", "overview", "subscribe", "push", "event"} => task.agent \in Agent
           /\ task.kind = "event" => task.event \in Event
           /\ task.kind \in {"heartbeat", "register", "snapshot", "agent", "overview", "subscribe",
                             "push", "event"}
  BY Zenon DEF Task, FromAgent

\* The tasks the program posts.
LEMMA TaskMade ==
    ASSUME NEW s \in Session, NEW a \in Agent
    PROVE  /\ [kind |-> "snapshot", session |-> s] \in Task
           /\ \A k \in {"agent", "overview", "subscribe", "push"} :
                 [kind |-> k, session |-> s, agent |-> a] \in Task
           /\ \A k \in {"heartbeat", "register"} : [kind |-> k, agent |-> a] \in Task
           /\ \A n \in Event : [kind |-> "event", session |-> s, agent |-> a, event |-> n] \in Task
  BY Zenon DEF Task

\* A task goes to a worker.
LEMMA TaskWorker ==
    ASSUME NEW task \in Task
    PROVE  WorkerOf(task) \in Worker
  <1>1. Key(task) \in Session \cup Agent BY TaskFacts, Zenon DEF Key
  <1> QED BY <1>1, UiEventsAssumption, Zenon DEF WorkerOf

\* A post leaves every queue alone but one, to which it may append the task.
LEMMA PostEffect ==
    ASSUME TasksType, NEW task \in Task, Post(task)
    PROVE  queue' \in {queue, [queue EXCEPT ![WorkerOf(task)] = Append(@, task)]}
  BY Zenon DEF Post

\* What is appended is a task.
LEMMA AppendTyped ==
    ASSUME TasksType, NEW task \in Task,
           queue' \in {queue, [queue EXCEPT ![WorkerOf(task)] = Append(@, task)]}
    PROVE  queue' \in [Worker -> Seq(Task)]
  <1> DEFINE w == WorkerOf(task)
  <1>1. w \in Worker /\ queue[w] \in Seq(Task) BY TaskWorker, Zenon DEF TasksType
  <1>2. Append(queue[w], task) \in Seq(Task) BY <1>1
  <1> HIDE DEF w
  <1> QED BY <1>1, <1>2, Zenon DEF TasksType, w

\* A message that says what the registry says now.
Current(m) == m \in Note /\ \A a \in Agent : Carries(m, a) => Value(m, a) = version[a]

\* The messages a task may put into a box of a session that observes scope.
Allowed(m, scope) ==
    /\ m.kind = "snapshot" => scope \notin Agent
    /\ m.kind = "update" => scope \in {"all", m.agent}
    /\ m.kind = "result" => scope = m.agent

\* A message reaches the session's box, is dropped or shuts the session.
Delivers(s, m) ==
    /\ UNCHANGED conn
    /\ \/ box' = [box EXCEPT ![s] = Append(@, m)] /\ UNCHANGED shut /\ Registered(s)
       \/ UNCHANGED <<box, shut>> /\ ~Registered(s)
       \/ UNCHANGED box /\ shut' = shut \cup {s}

\* enqueue does one of the three.
LEMMA EnqueueDelivers ==
    ASSUME NEW s, NEW m, Enqueue(s, m) PROVE Delivers(s, m)
  BY Zenon DEF Enqueue, Delivers

\* The messages made from the registry are current.
LEMMA CurrentMade ==
    ASSUME RegistryType, NEW a \in Agent
    PROVE  /\ Current(Snapshot) /\ Current(Update(a, "update")) /\ Current(Update(a, "push"))
           /\ Current([kind |-> "result", agent |-> a])
           /\ \A n \in Event : Current([kind |-> "event", event |-> n])
  <1>1. version \in [Agent -> Nat] BY Zenon DEF RegistryType
  <1>2. Current(Snapshot) BY <1>1, Zenon DEF Current, Snapshot, Note, Carries, Value
  <1>3. ASSUME NEW k \in {"update", "push"} PROVE Current(Update(a, k))
       BY <1>1, <1>3, Zenon DEF Current, Update, Note, Carries, Value
  <1>4. Current([kind |-> "result", agent |-> a]) BY Zenon DEF Current, Note, Carries
  <1>5. ASSUME NEW n \in Event PROVE Current([kind |-> "event", event |-> n])
       BY Zenon DEF Current, Note, Carries
  <1> QED BY <1>2, <1>3, <1>4, <1>5, Zenon

\* What a worker's task may do besides leaving its queue: change the registry,
\* or deliver one message to its session.
Quiet == UNCHANGED <<box, conn, shut>>
TaskEffect(w, task) ==
    \/ /\ FromAgent(task) /\ Quiet /\ UNCHANGED sub
       /\ version' = [version EXCEPT ![task.agent] = @ + 1]
    \/ /\ ~FromAgent(task) /\ UNCHANGED version
       /\ \/ Quiet /\ UNCHANGED sub
          \/ \E m : /\ Current(m) /\ Delivers(task.session, m)
                    /\ \/ UNCHANGED sub /\ m.kind # "result"
                          /\ (Allowed(m, sub[task.session]) \/ task.kind = m.kind)
                       \/ /\ task.kind = "subscribe" /\ m.kind = "result" /\ m.agent = task.agent
                          /\ sub' = [sub EXCEPT ![task.session] = task.agent]
Works(w, task) ==
    /\ w \in Worker /\ task \in Task
    /\ queue[w] # <<>> /\ Head(queue[w]) = task /\ todo[w] = {}
    /\ queue' = [queue EXCEPT ![w] = Tail(@)]
    /\ \E posts : /\ todo' = [todo EXCEPT ![w] = posts]
                  /\ \A t \in posts : t \in Task /\ t.kind \in Published
    /\ UNCHANGED <<seen, switched, stage, events>>
    /\ TaskEffect(w, task)

\* A task that delivers a current message.
LEMMA DeliversEffect ==
    ASSUME NEW w, NEW task, NEW m, ~FromAgent(task), UNCHANGED <<version, sub>>,
           Enqueue(task.session, m), Current(m), m.kind # "result",
           Allowed(m, sub[task.session]) \/ task.kind = m.kind
    PROVE  TaskEffect(w, task)
  <1>1. Delivers(task.session, m) BY EnqueueDelivers, Zenon
  <1> QED BY <1>1, Zenon DEF TaskEffect

\* A task whose session is not concerned.
LEMMA SkipEffect ==
    ASSUME NEW w, NEW task, ~FromAgent(task), UNCHANGED <<version, sub, box, link>>
    PROVE  TaskEffect(w, task)
  BY Zenon DEF TaskEffect, Quiet, link

\* Each task has one of the effects.
LEMMA TaskEffects ==
    ASSUME Types, NEW w \in Worker, NEW task \in Task,
           \/ RunHeartbeat(w, task) \/ RunSnapshot(w, task) \/ RunAgent(w, task)
           \/ RunOverview(w, task) \/ RunEvent(w, task) \/ RunSubscribe(w, task)
           \/ RunPush(w, task)
    PROVE  TaskEffect(w, task)
  <1>0. RegistryType BY Zenon DEF Types
  <1>1. CASE RunHeartbeat(w, task) BY <1>1, Zenon DEF RunHeartbeat, TaskEffect, Quiet, link
  <1>2. CASE RunSnapshot(w, task)
    <2>1. ~FromAgent(task) /\ task.kind = "snapshot" /\ Enqueue(task.session, Snapshot)
          /\ UNCHANGED <<version, sub>>
         BY <1>2, Zenon DEF RunSnapshot, FromAgent
    <2>2. Snapshot.kind = "snapshot" BY Zenon DEF Snapshot
    <2>3. Current(Snapshot) BY <1>0, Zenon DEF Current, Snapshot, Note, Carries, Value,
                               RegistryType
    <2> QED BY <2>1, <2>2, <2>3, DeliversEffect, Zenon
  <1>3. CASE RunAgent(w, task)
    <2> DEFINE m == Update(task.agent, "update")
    <2>1. /\ ~FromAgent(task) /\ task.agent \in Agent /\ UNCHANGED <<version, sub>>
          /\ \/ Enqueue(task.session, m) /\ sub[task.session] \in {"all", task.agent}
             \/ UNCHANGED <<box, link>>
         BY <1>3, TaskFacts, Zenon DEF RunAgent, FromAgent
    <2>2. m.kind = "update" /\ m.agent = task.agent BY Zenon DEF Update
    <2>3. Current(m) BY <1>0, <2>1, CurrentMade, Zenon
    <2> HIDE DEF m
    <2> QED BY <2>1, <2>2, <2>3, DeliversEffect, SkipEffect, Zenon DEF Allowed
  <1>4. CASE RunOverview(w, task)
    <2> DEFINE m == Update(task.agent, "update")
    <2>1. /\ ~FromAgent(task) /\ task.agent \in Agent /\ UNCHANGED <<version, sub>>
          /\ \/ Enqueue(task.session, Snapshot) /\ sub[task.session] = "all"
             \/ Enqueue(task.session, m) /\ sub[task.session] = task.agent
             \/ UNCHANGED <<box, link>>
         BY <1>4, TaskFacts, Zenon DEF RunOverview, FromAgent
    <2>2. m.kind = "update" /\ m.agent = task.agent BY Zenon DEF Update
    <2>3. Snapshot.kind = "snapshot" BY Zenon DEF Snapshot
    <2>4. Current(m) /\ Current(Snapshot) BY <1>0, <2>1, CurrentMade, Zenon
    <2> HIDE DEF m
    <2>5. CASE Enqueue(task.session, Snapshot) /\ sub[task.session] = "all"
      <3>1. Allowed(Snapshot, sub[task.session]) BY <2>3, <2>5, UiEventsAssumption, Zenon
                                                    DEF Allowed
      <3> QED BY <2>1, <2>3, <2>4, <2>5, <3>1, DeliversEffect, Zenon
    <2>6. CASE Enqueue(task.session, m) /\ sub[task.session] = task.agent
         BY <2>1, <2>2, <2>4, <2>6, DeliversEffect, Zenon DEF Allowed
    <2> QED BY <2>1, <2>5, <2>6, SkipEffect, Zenon
  <1>5. CASE RunEvent(w, task)
    <2> DEFINE m == [kind |-> "event", event |-> task.event]
    <2>1. /\ ~FromAgent(task) /\ task.event \in Event /\ task.agent \in Agent
          /\ UNCHANGED <<version, sub>> /\ (Enqueue(task.session, m) \/ UNCHANGED <<box, link>>)
         BY <1>5, TaskFacts, Zenon DEF RunEvent, FromAgent
    <2>2. m.kind = "event" BY Zenon
    <2>3. Current(m) BY <1>0, <2>1, CurrentMade, Zenon
    <2> HIDE DEF m
    <2> QED BY <2>1, <2>2, <2>3, DeliversEffect, SkipEffect, Zenon DEF Allowed
  <1>6. CASE RunSubscribe(w, task)
    <2> DEFINE m == [kind |-> "result", agent |-> task.agent]
    <2>1. /\ ~FromAgent(task) /\ task.kind = "subscribe" /\ task.agent \in Agent
          /\ UNCHANGED version /\ Enqueue(task.session, m)
          /\ sub' = [sub EXCEPT ![task.session] = task.agent]
         BY <1>6, TaskFacts, Zenon DEF RunSubscribe, FromAgent
    <2>2. m.kind = "result" /\ m.agent = task.agent BY Zenon
    <2>3. Current(m) BY <1>0, <2>1, CurrentMade, Zenon
    <2> HIDE DEF m
    <2>4. Delivers(task.session, m) BY <2>1, EnqueueDelivers, Zenon
    <2> QED BY <2>1, <2>2, <2>3, <2>4, Zenon DEF TaskEffect
  <1>7. CASE RunPush(w, task)
    <2> DEFINE m == Update(task.agent, "push")
    <2>1. /\ ~FromAgent(task) /\ task.agent \in Agent /\ UNCHANGED <<version, sub>>
          /\ Enqueue(task.session, m)
         BY <1>7, TaskFacts, Zenon DEF RunPush, FromAgent
    <2>2. m.kind = "push" BY Zenon DEF Update
    <2>3. Current(m) BY <1>0, <2>1, CurrentMade, Zenon
    <2> HIDE DEF m
    <2> QED BY <2>1, <2>2, <2>3, DeliversEffect, Zenon DEF Allowed
  <1> QED BY <1>1, <1>2, <1>3, <1>4, <1>5, <1>6, <1>7, Zenon

\* The posts a task leaves to its worker, and those of the retry thread.
LEMMA PublishMade ==
    ASSUME NEW a \in Agent
    PROVE  \A t \in publish_agent(a) \cup publish_snapshot(a) : t \in Task /\ t.kind \in Published
  <1>1. ASSUME NEW t \in publish_agent(a) PROVE t \in Task /\ t.kind \in Published
    <2>1. PICK s \in Session : t = [kind |-> "agent", session |-> s, agent |-> a]
         BY Zenon DEF publish_agent, Subscribed
    <2>2. [kind |-> "agent", session |-> s, agent |-> a] \in Task BY TaskMade, Zenon
    <2> QED BY <2>1, <2>2, Zenon DEF Published
  <1>2. ASSUME NEW t \in publish_snapshot(a) PROVE t \in Task /\ t.kind \in Published
    <2>1. PICK s \in Session : t = [kind |-> "overview", session |-> s, agent |-> a]
         BY Zenon DEF publish_snapshot, Subscribed
    <2>2. [kind |-> "overview", session |-> s, agent |-> a] \in Task BY TaskMade, Zenon
    <2> QED BY <2>1, <2>2, Zenon DEF Published
  <1> QED BY <1>1, <1>2, Zenon
LEMMA EventMade ==
    ASSUME NEW a \in Agent, NEW n \in Event
    PROVE  \A t \in publish_command_event(a, n) : t \in Task /\ t.kind \in Published
  <1> TAKE t \in publish_command_event(a, n)
  <1>1. PICK s \in Session : t = [kind |-> "event", session |-> s, agent |-> a, event |-> n]
       BY Zenon DEF publish_command_event, Subscribed
  <1>2. [kind |-> "event", session |-> s, agent |-> a, event |-> n] \in Task BY TaskMade, Zenon
  <1> QED BY <1>1, <1>2, Zenon DEF Published

\* A worker's step is one of the effects above.
LEMMA RunTaskWorks ==
    ASSUME Types, NEW w \in Worker, RunTask(w)
    PROVE  Works(w, Head(queue[w]))
  <1> DEFINE task == Head(queue[w])
             Posts(ts) == /\ todo' = [todo EXCEPT ![w] = ts]
                          /\ \A t \in ts : t \in Task /\ t.kind \in Published
  <1>1. queue[w] # <<>> BY Zenon DEF RunTask
  <1>2. queue \in [Worker -> Seq(Task)] /\ todo \in [Publisher -> SUBSET Task]
       BY Zenon DEF Types, TasksType
  <1>3. task \in Task /\ w \in Publisher BY <1>1, <1>2 DEF Publisher
  <1>4. \/ RunHeartbeat(w, task) \/ RunSnapshot(w, task) \/ RunAgent(w, task)
        \/ RunOverview(w, task) \/ RunEvent(w, task) \/ RunSubscribe(w, task)
        \/ RunPush(w, task)
       BY Zenon DEF RunTask
  <1> HIDE DEF task
  <1>5. TaskEffect(w, task) BY <1>3, <1>4, TaskEffects, Zenon
  <1>6. /\ queue' = [queue EXCEPT ![w] = Tail(@)] /\ todo[w] = {} /\ Head(queue[w]) = task
        /\ UNCHANGED <<seen, switched, stage, events>>
       BY <1>4, Zenon DEF RunHeartbeat, RunSnapshot, RunAgent, RunOverview, RunEvent,
          RunSubscribe, RunPush, Runs, Done, browser
  <1>7. PICK ts : Posts(ts)
    <2>1. CASE RunHeartbeat(w, task)
      <3> DEFINE made == publish_agent(task.agent) \cup
                  IF task.kind = "register" THEN publish_snapshot(task.agent) ELSE {}
      <3>1. task.agent \in Agent BY <1>3, <2>1, TaskFacts, Zenon DEF RunHeartbeat
      <3>2. \A t \in made : t \in Task /\ t.kind \in Published BY <3>1, PublishMade, Zenon
      <3>3. todo' = [todo EXCEPT ![w] = made] BY <2>1, Zenon DEF RunHeartbeat
      <3> HIDE DEF made
      <3>4. Posts(made) BY <3>2, <3>3, Zenon
      <3> HIDE DEF Posts
      <3> QED BY <3>4, Zenon
    <2>2. CASE RunSubscribe(w, task)
      <3> DEFINE push == [kind |-> "push", session |-> task.session, agent |-> task.agent]
      <3>1. task.session \in Session /\ task.agent \in Agent
           BY <1>3, <2>2, TaskFacts, Zenon DEF RunSubscribe, FromAgent
      <3>2. push \in Task BY <3>1, TaskMade, Zenon
      <3>3. push.kind \in Published BY Zenon DEF Published
      <3>4. todo' = [todo EXCEPT ![w] = {push}] BY <2>2, Zenon DEF RunSubscribe
      <3> HIDE DEF push
      <3>5. Posts({push}) BY <3>2, <3>3, <3>4, Zenon
      <3> HIDE DEF Posts
      <3> QED BY <3>5, Zenon
    <2>3. CASE \/ RunSnapshot(w, task) \/ RunAgent(w, task) \/ RunOverview(w, task)
               \/ RunEvent(w, task) \/ RunPush(w, task)
      <3>1. todo' = todo
           BY <2>3, Zenon DEF RunSnapshot, RunAgent, RunOverview, RunEvent, RunPush
      <3>2. todo' = [todo EXCEPT ![w] = {}] BY <1>2, <1>3, <1>6, <3>1, Zenon
      <3>3. Posts({}) BY <3>2, Zenon
      <3> HIDE DEF Posts
      <3> QED BY <3>3, Zenon
    <2> QED BY <1>4, <2>1, <2>2, <2>3, Zenon
  <1>8. Works(w, task) BY <1>1, <1>3, <1>5, <1>6, <1>7, Zenon DEF Works
  <1> QED BY <1>8, Zenon DEF task

-----------------------------------------------------------------------------
(* Types are kept. *)

LEMMA TypesInit == Init => Types
  BY UiEventsAssumption
     DEF Init, Types, RegistryType, ConnType, TasksType, BoxType, ShownType, CountsType, Scope, Event

\* What a browser shows after a message.
Shown(shown, m) ==
    IF m.kind = "snapshot" THEN m.versions
    ELSE IF m.kind \in {"update", "push"} THEN [shown EXCEPT ![m.agent] = m.version] ELSE shown

\* The parts of a message.
LEMMA NoteFacts ==
    ASSUME NEW m \in Note
    PROVE  /\ m.kind \in {"snapshot", "update", "push", "result", "event"}
           /\ m.kind = "snapshot" => m.versions \in [Agent -> Nat]
           /\ m.kind \in {"update", "push"} => m.agent \in Agent /\ m.version \in Nat
           /\ m.kind = "result" => m.agent \in Agent
           /\ \A shown \in [Agent -> Nat] : Shown(shown, m) \in [Agent -> Nat]
           /\ \A a \in Agent : Carries(m, a) => Value(m, a) \in Nat
  <1>1. /\ m.kind \in {"snapshot", "update", "push", "result", "event"}
        /\ m.kind = "snapshot" => m.versions \in [Agent -> Nat]
        /\ m.kind \in {"update", "push"} => m.agent \in Agent /\ m.version \in Nat
        /\ m.kind = "result" => m.agent \in Agent
       BY Zenon DEF Note
  <1>2. \A shown \in [Agent -> Nat] : Shown(shown, m) \in [Agent -> Nat] BY <1>1, Zenon
                                                                            DEF Shown
  <1>3. \A a \in Agent : Carries(m, a) => Value(m, a) \in Nat BY <1>1, Zenon DEF Carries, Value
  <1> QED BY <1>1, <1>2, <1>3, Zenon

\* A writer shows the first message, or throws it away.
LEMMA WriterEffect ==
    ASSUME Types, NEW s \in Session, WriterSends(s)
    PROVE  /\ box[s] # <<>> /\ box' = [box EXCEPT ![s] = Tail(@)]
           /\ \/ UNCHANGED <<seen, switched>> /\ ~Connected(s)
              \/ /\ Connected(s)
                 /\ seen' = [seen EXCEPT ![s] = Shown(seen[s], Head(box[s]))]
                 /\ switched' = [switched EXCEPT ![s] =
                        IF Head(box[s]).kind = "result" THEN Head(box[s]).agent ELSE switched[s]]
           /\ UNCHANGED <<version, sub, conn, shut, queue, todo, stage, events>>
  BY Zenon DEF WriterSends, Shown, browser, link, sched

\* The steps that touch neither the boxes nor what the browsers show.
Outside ==
    \/ \E p \in Publisher : PublishOne(p)
    \/ \E s \in Session : OpenSubscribes(s) \/ OpenAdds(s) \/ OpenPosts(s)
    \/ \E s \in Session, a \in Agent : AskSwitch(s, a)
    \/ \E a \in Agent, kind \in {"heartbeat", "register"} : AgentTalks(a, kind)
    \/ \E a \in Agent : RetryPublishes(a)
    \/ SchedulerStop

\* The kinds of steps the proofs tell apart.
LEMMA NextCases ==
    ASSUME Types, Next
    PROVE  \/ \E w \in Worker : Works(w, Head(queue[w]))
           \/ Outside
           \/ \E s \in Session : WriterSends(s) \/ Close(s)
           \/ \E a \in Agent : AgentLeaves(a)
           \/ LifecycleStop \/ ClearWorkers
  BY RunTaskWorks, Zenon DEF Next, Outside

\* They leave them alone indeed.
LEMMA OutsideFrame ==
    ASSUME Outside
    PROVE  UNCHANGED <<version, box, seen, switched, shut>>
  <1>1. ASSUME NEW p \in Publisher, PublishOne(p) PROVE UNCHANGED <<version, box, seen, switched, shut>>
       BY <1>1, Zenon DEF PublishOne, browser, link
  <1>2. ASSUME NEW s \in Session, OpenSubscribes(s) \/ OpenAdds(s) \/ OpenPosts(s)
        PROVE  UNCHANGED <<version, box, seen, switched, shut>>
       BY <1>2, Zenon DEF OpenSubscribes, OpenAdds, OpenPosts, browser
  <1>3. ASSUME NEW s \in Session, NEW a \in Agent, AskSwitch(s, a)
        PROVE  UNCHANGED <<version, box, seen, switched, shut>>
       BY <1>3, Zenon DEF AskSwitch, browser, link
  <1>4. ASSUME NEW a \in Agent, NEW kind \in {"heartbeat", "register"}, AgentTalks(a, kind)
        PROVE  UNCHANGED <<version, box, seen, switched, shut>>
       BY <1>4, Zenon DEF AgentTalks, browser, link
  <1>5. ASSUME NEW a \in Agent, RetryPublishes(a)
        PROVE  UNCHANGED <<version, box, seen, switched, shut>>
       BY <1>5, Zenon DEF RetryPublishes, browser, link
  <1>6. ASSUME SchedulerStop PROVE UNCHANGED <<version, box, seen, switched, shut>>
       BY <1>6, Zenon DEF SchedulerStop, browser, link
  <1> QED BY <1>1, <1>2, <1>3, <1>4, <1>5, <1>6, Zenon DEF Outside

\* The effect of the steps outside on the tasks, the sessions and the scopes.
LEMMA OutsideTyped ==
    ASSUME Types, Outside
    PROVE  Types'
  <1>0. UNCHANGED <<version, box, seen, switched, shut>> BY OutsideFrame, Zenon
  <1>1. TasksType /\ conn \in [Session -> {"new", "subscribed", "added", "open", "gone"}]
        /\ sub \in [Session -> Scope] /\ events \in 0..MaxEvents
       BY Zenon DEF Types, ConnType, RegistryType, CountsType
  <1> DEFINE Goal == /\ TasksType'
                     /\ conn' \in [Session -> {"new", "subscribed", "added", "open", "gone"}]
                     /\ sub' \in [Session -> Scope] /\ events' \in 0..MaxEvents
  <1>2. Goal
    <2>1. ASSUME NEW p \in Publisher, PublishOne(p) PROVE Goal
      <3>1. PICK task \in todo[p] : Post(task) /\ todo' = [todo EXCEPT ![p] = @ \ {task}]
           BY <2>1, Zenon DEF PublishOne
      <3>2. task \in Task /\ todo' \in [Publisher -> SUBSET Task] BY <1>1, <3>1, Zenon
                                                                     DEF TasksType
      <3>3. queue' \in [Worker -> Seq(Task)] BY <1>1, <3>1, <3>2, PostEffect, AppendTyped, Zenon
      <3>4. UNCHANGED <<conn, sub, events>> BY <2>1, Zenon DEF PublishOne, link
      <3> QED BY <1>1, <3>2, <3>3, <3>4, Zenon DEF TasksType
    <2>2. ASSUME NEW s \in Session, OpenSubscribes(s) PROVE Goal
         BY <1>1, <2>2, Zenon DEF OpenSubscribes, sched, Scope, TasksType
    <2>3. ASSUME NEW s \in Session, OpenAdds(s) PROVE Goal
         BY <1>1, <2>3, Zenon DEF OpenAdds, sched, TasksType
    <2>4. ASSUME NEW s \in Session, OpenPosts(s) PROVE Goal
      <3> DEFINE task == [kind |-> "snapshot", session |-> s]
      <3>1. task \in Task BY Zenon DEF Task
      <3>2. Post(task) /\ UNCHANGED <<sub, todo, events>> /\ conn' = [conn EXCEPT ![s] = "open"]
           BY <2>4, Zenon DEF OpenPosts
      <3> HIDE DEF task
      <3>3. queue' \in [Worker -> Seq(Task)] BY <1>1, <3>1, <3>2, PostEffect, AppendTyped, Zenon
      <3> QED BY <1>1, <3>2, <3>3, Zenon DEF TasksType
    <2>5. ASSUME NEW s \in Session, NEW a \in Agent, AskSwitch(s, a) PROVE Goal
      <3> DEFINE task == [kind |-> "subscribe", session |-> s, agent |-> a]
      <3>1. task \in Task BY Zenon DEF Task
      <3>2. /\ queue' \in {queue, [queue EXCEPT ![WorkerOf(task)] = Append(@, task)]}
            /\ UNCHANGED <<sub, todo, conn, events>>
           BY <2>5, Zenon DEF AskSwitch, link
      <3> HIDE DEF task
      <3>3. queue' \in [Worker -> Seq(Task)] BY <1>1, <3>1, <3>2, AppendTyped, Zenon
      <3> QED BY <1>1, <3>2, <3>3, Zenon DEF TasksType
    <2>6. ASSUME NEW a \in Agent, NEW kind \in {"heartbeat", "register"}, AgentTalks(a, kind)
          PROVE Goal
      <3> DEFINE task == [kind |-> kind, agent |-> a]
      <3>1. task \in Task BY Zenon DEF Task
      <3>2. /\ queue' \in {queue, [queue EXCEPT ![WorkerOf(task)] = Append(@, task)]}
            /\ UNCHANGED <<sub, todo, conn, events>>
           BY <2>6, Zenon DEF AgentTalks, link
      <3> HIDE DEF task
      <3>3. queue' \in [Worker -> Seq(Task)] BY <1>1, <3>1, <3>2, AppendTyped, Zenon
      <3> QED BY <1>1, <3>2, <3>3, Zenon DEF TasksType
    <2>7. ASSUME NEW a \in Agent, RetryPublishes(a) PROVE Goal
      <3> DEFINE made == publish_command_event(a, events + 1) \cup publish_snapshot(a)
      <3>1. todo' = [todo EXCEPT !["retry"] = made] /\ events < MaxEvents /\ events' = events + 1
            /\ UNCHANGED <<sub, queue, conn>>
           BY <2>7, Zenon DEF RetryPublishes, link
      <3>2. events + 1 \in Event /\ events' \in 0..MaxEvents BY <1>1, <3>1, UiEventsAssumption DEF Event
      <3>3. made \subseteq Task BY <3>2, EventMade, PublishMade, Zenon
      <3> HIDE DEF made
      <3>4. todo' \in [Publisher -> SUBSET Task] BY <1>1, <3>1, <3>3, Zenon DEF TasksType
      <3> QED BY <1>1, <3>1, <3>2, <3>4, Zenon DEF TasksType
    <2>8. ASSUME SchedulerStop PROVE Goal
         BY <1>1, <2>8, Zenon DEF SchedulerStop, link, sched, TasksType
    <2> HIDE DEF Goal
    <2> QED BY <2>1, <2>2, <2>3, <2>4, <2>5, <2>6, <2>7, <2>8, Zenon DEF Outside
  <1> QED BY <1>0, <1>2, Zenon DEF Types, RegistryType, ConnType, BoxType, ShownType, CountsType

\* A delivery keeps the types of the session's side.
LEMMA DeliversTyped ==
    ASSUME ConnType, BoxType, NEW s \in Session, NEW m \in Note, Delivers(s, m)
    PROVE  ConnType' /\ BoxType'
  <1>1. ConnType' BY Zenon DEF ConnType, Delivers
  <1>2. box[s] \in Seq(Note) /\ Append(box[s], m) \in Seq(Note) BY DEF BoxType
  <1>3. BoxType' BY <1>2, Zenon DEF BoxType, Delivers
  <1> QED BY <1>1, <1>3, Zenon

LEMMA WorksTyped ==
    ASSUME Types, NEW w \in Worker, NEW task, Works(w, task)
    PROVE  Types'
  <1>1. /\ RegistryType /\ ConnType /\ TasksType /\ BoxType /\ ShownType /\ CountsType
       BY Zenon DEF Types
  <1>2. /\ task \in Task /\ queue' = [queue EXCEPT ![w] = Tail(@)] /\ queue[w] # <<>>
        /\ TaskEffect(w, task) /\ UNCHANGED <<seen, switched, events>>
       BY Zenon DEF Works
  <1>3. TasksType'
    <2>1. PICK posts : /\ todo' = [todo EXCEPT ![w] = posts]
                       /\ \A t \in posts : t \in Task /\ t.kind \in Published
         BY Zenon DEF Works
    <2>2. todo' \in [Publisher -> SUBSET Task] BY <1>1, <2>1, Zenon DEF TasksType
    <2>3. Tail(queue[w]) \in Seq(Task) BY <1>1, <1>2 DEF TasksType
    <2>4. queue' \in [Worker -> Seq(Task)] BY <1>1, <1>2, <2>3, Zenon DEF TasksType
    <2> QED BY <2>2, <2>4, Zenon DEF TasksType
  <1>4. ShownType' /\ CountsType' BY <1>1, <1>2, Zenon DEF ShownType, CountsType
  <1>5. RegistryType' /\ ConnType' /\ BoxType'
    <2>0. version \in [Agent -> Nat] /\ sub \in [Session -> Scope] BY <1>1, Zenon
                                                                      DEF RegistryType
    <2>1. CASE FromAgent(task)
      <3>1. task.agent \in Agent BY <1>2, <2>1, TaskFacts, Zenon
      <3>2. Quiet /\ UNCHANGED sub /\ version' = [version EXCEPT ![task.agent] = @ + 1]
           BY <1>2, <2>1, Zenon DEF TaskEffect
      <3>3. RegistryType' BY <2>0, <3>1, <3>2 DEF RegistryType
      <3> QED BY <1>1, <3>2, <3>3, Zenon DEF Quiet, ConnType, BoxType
    <2>2. CASE ~FromAgent(task) /\ Quiet /\ UNCHANGED <<version, sub>>
         BY <1>1, <2>2, Zenon DEF Quiet, RegistryType, ConnType, BoxType
    <2>3. CASE ~FromAgent(task) /\ \E m : Current(m) /\ Delivers(task.session, m) /\ UNCHANGED version
                 /\ \/ UNCHANGED sub
                    \/ task.kind = "subscribe" /\ sub' = [sub EXCEPT ![task.session] = task.agent]
      <3>1. PICK m : Current(m) /\ Delivers(task.session, m) /\ UNCHANGED version
                 /\ \/ UNCHANGED sub
                    \/ task.kind = "subscribe" /\ sub' = [sub EXCEPT ![task.session] = task.agent]
           BY <2>3, Zenon
      <3>2. task.session \in Session /\ m \in Note /\ (task.kind = "subscribe" => task.agent \in Agent)
           BY <1>2, <2>3, <3>1, TaskFacts, Zenon DEF Current
      <3>3. ConnType' /\ BoxType' BY <1>1, <3>1, <3>2, DeliversTyped, Zenon
      <3>4. RegistryType' BY <2>0, <3>1, <3>2, Zenon DEF RegistryType, Scope
      <3> QED BY <3>3, <3>4, Zenon
    <2> QED BY <1>2, <2>1, <2>2, <2>3, Zenon DEF TaskEffect
  <1> QED BY <1>3, <1>4, <1>5, Zenon DEF Types

LEMMA WriterTyped ==
    ASSUME Types, NEW s \in Session, WriterSends(s)
    PROVE  Types'
  <1>1. BoxType /\ ShownType BY Zenon DEF Types
  <1>2. box[s] # <<>> /\ box' = [box EXCEPT ![s] = Tail(@)] /\ Head(box[s]) \in Note
       BY <1>1, WriterEffect DEF BoxType
  <1>3. BoxType' BY <1>1, <1>2 DEF BoxType
  <1>4. seen[s] \in [Agent -> Nat] BY <1>1, Zenon DEF ShownType
  <1>5. Shown(seen[s], Head(box[s])) \in [Agent -> Nat] BY <1>2, <1>4, NoteFacts, Zenon
  <1>6. Head(box[s]).kind = "result" => Head(box[s]).agent \in Agent BY <1>2, NoteFacts, Zenon
  <1>7. ShownType' BY <1>1, <1>5, <1>6, WriterEffect, Zenon DEF ShownType
  <1>8. UNCHANGED <<version, sub, conn, shut, queue, todo, events>> BY WriterEffect, Zenon
  <1> QED BY <1>3, <1>7, <1>8, Zenon DEF Types, RegistryType, ConnType, TasksType, CountsType

LEMMA ForgetTyped ==
    ASSUME ShownType, NEW ended, Forget(ended)
    PROVE  ShownType'
  BY Zenon DEF ShownType, Forget

LEMMA TypesStep == Types /\ [Next]_vars => Types'
  <1> SUFFICES ASSUME Types, [Next]_vars PROVE Types'
    BY Zenon
  <1>1. CASE UNCHANGED vars
       BY <1>1, Zenon DEF vars, link, sched, browser, Types, RegistryType, ConnType, TasksType,
          BoxType, ShownType, CountsType
  <1>2. ASSUME NEW s \in Session, Close(s) PROVE Types'
    <2>1. ShownType' BY <1>2, ForgetTyped, Zenon DEF Types, Close
    <2> QED BY <1>2, <2>1 DEF Close, sched, Types, RegistryType, Scope, ConnType, TasksType, BoxType,
          CountsType
  <1>3. ASSUME NEW a \in Agent, AgentLeaves(a) PROVE Types'
       BY <1>3 DEF AgentLeaves, link, sched, browser, Types, RegistryType, ConnType, TasksType,
          BoxType, ShownType, CountsType
  <1>4. ASSUME LifecycleStop PROVE Types'
    <2>1. ShownType' BY <1>4, ForgetTyped, Zenon DEF Types, LifecycleStop
    <2> QED BY <1>4, <2>1, Zenon DEF LifecycleStop, sched, Types, RegistryType, ConnType,
               TasksType, BoxType, CountsType
  <1>5. ASSUME ClearWorkers PROVE Types'
       BY <1>5 DEF ClearWorkers, sched, browser, Types, RegistryType, ConnType, TasksType, BoxType,
          ShownType, CountsType
  <1> QED BY <1>1, <1>2, <1>3, <1>4, <1>5, NextCases, OutsideTyped, WorksTyped, WriterTyped,
             Zenon

-----------------------------------------------------------------------------
(* The versions a session is told of never go back. *)

\* The registry's versions may grow.
LEMMA OrderedGrow ==
    ASSUME NEW q \in Seq(Note), NEW shown \in [Agent -> Nat], NEW c \in [Agent -> Nat],
           NEW d \in [Agent -> Nat], \A a \in Agent : c[a] <= d[a], Ordered(q, shown, c)
    PROVE  Ordered(q, shown, d)
  <1>1. ASSUME NEW a \in Agent PROVE shown[a] <= d[a] BY <1>1 DEF Ordered
  <1>2. ASSUME NEW a \in Agent, NEW i \in 1..Len(q), Carries(q[i], a)
        PROVE  /\ shown[a] <= Value(q[i], a) /\ Value(q[i], a) <= d[a]
               /\ \A j \in 1..i : Carries(q[j], a) => Value(q[j], a) <= Value(q[i], a)
    <2>1. /\ shown[a] <= Value(q[i], a) /\ Value(q[i], a) <= c[a]
          /\ \A j \in 1..i : Carries(q[j], a) => Value(q[j], a) <= Value(q[i], a)
         BY <1>2, Zenon DEF Ordered
    <2>2. Value(q[i], a) \in Nat BY <1>2, NoteFacts
    <2> QED BY <2>1, <2>2
  <1> QED BY <1>1, <1>2, Zenon DEF Ordered

\* A message that says what the registry says may be appended.
LEMMA OrderedAppend ==
    ASSUME RegistryType, NEW q \in Seq(Note), NEW shown \in [Agent -> Nat], NEW m, Current(m),
           Ordered(q, shown, version)
    PROVE  Ordered(Append(q, m), shown, version)
  <1> DEFINE r == Append(q, m)
  <1>0. m \in Note BY Zenon DEF Current
  <1>1. Len(r) = Len(q) + 1 /\ r[Len(r)] = m /\ (\A i \in 1..Len(q) : r[i] = q[i]) /\ Len(q) \in Nat
       BY <1>0
  <1> HIDE DEF r
  <1>2. ASSUME NEW a \in Agent
        PROVE  /\ shown[a] <= version[a]
               /\ \A i \in 1..Len(r) : Carries(r[i], a) =>
                     /\ shown[a] <= Value(r[i], a) /\ Value(r[i], a) <= version[a]
                     /\ \A j \in 1..i : Carries(r[j], a) => Value(r[j], a) <= Value(r[i], a)
    <2>1. version[a] \in Nat /\ shown[a] <= version[a] BY Zenon DEF Ordered, RegistryType
    <2>2. Carries(m, a) => Value(m, a) = version[a] BY Zenon DEF Current
    <2>3. \A i \in 1..Len(q) : Carries(q[i], a) =>
              /\ shown[a] <= Value(q[i], a) /\ Value(q[i], a) <= version[a]
              /\ \A j \in 1..i : Carries(q[j], a) => Value(q[j], a) <= Value(q[i], a)
         BY Zenon DEF Ordered
    <2>4. ASSUME NEW i \in 1..Len(r), Carries(r[i], a)
          PROVE  /\ shown[a] <= Value(r[i], a) /\ Value(r[i], a) <= version[a]
                 /\ \A j \in 1..i : Carries(r[j], a) => Value(r[j], a) <= Value(r[i], a)
      <3>1. CASE i \in 1..Len(q) BY <1>1, <2>3, <2>4, <3>1
      <3>2. CASE i = Len(r)
        <4>1. Value(r[i], a) = version[a] BY <1>1, <2>2, <2>4, <3>2, Zenon
        <4>2. ASSUME NEW j \in 1..i, Carries(r[j], a) PROVE Value(r[j], a) <= version[a]
             BY <1>1, <2>1, <2>2, <2>3, <3>2, <4>2
        <4> QED BY <2>1, <4>1, <4>2
      <3> QED BY <1>1, <3>1, <3>2
    <2> QED BY <2>1, <2>4, Zenon
  <1> QED BY <1>2, Zenon DEF Ordered, r

\* The first message may be shown or thrown away, and what is shown grows.
LEMMA OrderedTail ==
    ASSUME NEW q \in Seq(Note), q # <<>>, NEW shown \in [Agent -> Nat], NEW c \in [Agent -> Nat],
           Ordered(q, shown, c)
    PROVE  /\ Ordered(Tail(q), shown, c) /\ Ordered(Tail(q), Shown(shown, Head(q)), c)
           /\ \A a \in Agent : shown[a] <= Shown(shown, Head(q))[a]
  <1> DEFINE r == Tail(q)
             next == Shown(shown, Head(q))
  <1>1. /\ Len(r) = Len(q) - 1 /\ (\A i \in 1..Len(r) : r[i] = q[i + 1]) /\ Len(q) \in Nat \ {0}
        /\ Head(q) = q[1] /\ q[1] \in Note
       OBVIOUS
  <1>2. \A a \in Agent : next[a] = IF Carries(q[1], a) THEN Value(q[1], a) ELSE shown[a]
       BY <1>1, NoteFacts, Zenon DEF Shown, Carries, Value
  <1> HIDE DEF r, next
  <1>3. ASSUME NEW a \in Agent
        PROVE  /\ shown[a] <= next[a] /\ shown[a] <= c[a] /\ next[a] <= c[a]
               /\ \A i \in 1..Len(r) : Carries(r[i], a) =>
                     /\ shown[a] <= Value(r[i], a) /\ next[a] <= Value(r[i], a)
                     /\ Value(r[i], a) <= c[a]
                     /\ \A j \in 1..i : Carries(r[j], a) => Value(r[j], a) <= Value(r[i], a)
    <2>1. shown[a] \in Nat /\ c[a] \in Nat BY Zenon
    <2>2. /\ shown[a] <= c[a]
          /\ \A i \in 1..Len(q) : Carries(q[i], a) =>
              /\ shown[a] <= Value(q[i], a) /\ Value(q[i], a) <= c[a]
              /\ \A j \in 1..i : Carries(q[j], a) => Value(q[j], a) <= Value(q[i], a)
         BY Zenon DEF Ordered
    <2>3. 1 \in 1..Len(q) BY <1>1
    <2>4. shown[a] <= next[a] /\ next[a] <= c[a] BY <1>2, <2>1, <2>2, <2>3
    <2>5. ASSUME NEW i \in 1..Len(r), Carries(r[i], a)
          PROVE  /\ shown[a] <= Value(r[i], a) /\ next[a] <= Value(r[i], a)
                 /\ Value(r[i], a) <= c[a]
                 /\ \A j \in 1..i : Carries(r[j], a) => Value(r[j], a) <= Value(r[i], a)
      <3>1. r[i] = q[i + 1] /\ i + 1 \in 1..Len(q) /\ 1 \in 1..i + 1 BY <1>1
      <3>2. /\ shown[a] <= Value(r[i], a) /\ Value(r[i], a) <= c[a]
            /\ \A j \in 1..i + 1 : Carries(q[j], a) => Value(q[j], a) <= Value(r[i], a)
           BY <2>2, <2>5, <3>1, Zenon
      <3>3. next[a] <= Value(r[i], a) BY <1>2, <3>1, <3>2, Zenon
      <3>4. ASSUME NEW j \in 1..i, Carries(r[j], a) PROVE Value(r[j], a) <= Value(r[i], a)
        <4>1. r[j] = q[j + 1] /\ j + 1 \in 1..i + 1 BY <1>1
        <4> QED BY <3>2, <3>4, <4>1, Zenon
      <3> QED BY <3>2, <3>3, <3>4, Zenon
    <2> QED BY <2>2, <2>4, <2>5, Zenon
  <1>4. Ordered(r, shown, c) BY <1>3, Zenon DEF Ordered
  <1>5. Ordered(r, next, c) BY <1>3, Zenon DEF Ordered
  <1> QED BY <1>3, <1>4, <1>5, Zenon DEF r, next

\* A browser may forget all it shows.
LEMMA OrderedForget ==
    ASSUME NEW q \in Seq(Note), NEW shown \in [Agent -> Nat], NEW c \in [Agent -> Nat],
           Ordered(q, shown, c)
    PROVE  Ordered(q, [a \in Agent |-> 0], c)
  <1> DEFINE zero == [a \in Agent |-> 0]
  <1>1. \A a \in Agent : zero[a] = 0 BY Zenon
  <1> HIDE DEF zero
  <1>2. ASSUME NEW a \in Agent PROVE zero[a] <= c[a] BY <1>1
  <1>3. ASSUME NEW a \in Agent, NEW i \in 1..Len(q), Carries(q[i], a)
        PROVE  /\ zero[a] <= Value(q[i], a) /\ Value(q[i], a) <= c[a]
               /\ \A j \in 1..i : Carries(q[j], a) => Value(q[j], a) <= Value(q[i], a)
    <2>1. /\ Value(q[i], a) <= c[a]
          /\ \A j \in 1..i : Carries(q[j], a) => Value(q[j], a) <= Value(q[i], a)
         BY <1>3, Zenon DEF Ordered
    <2>2. Value(q[i], a) \in Nat BY <1>3, NoteFacts
    <2> QED BY <1>1, <2>1, <2>2
  <1>4. Ordered(q, zero, c) BY <1>2, <1>3, Zenon DEF Ordered
  <1> QED BY <1>4, Zenon DEF zero

\* What the versions, the boxes and the browsers are.
LEMMA OrderTyped ==
    ASSUME Types
    PROVE  /\ version \in [Agent -> Nat] /\ RegistryType
           /\ box \in [Session -> Seq(Note)] /\ seen \in [Session -> [Agent -> Nat]]
           /\ \A s \in Session : box[s] \in Seq(Note) /\ seen[s] \in [Agent -> Nat]
  BY Zenon DEF Types, RegistryType, BoxType, ShownType

\* An agent's state changes, and nothing else a browser sees.
LEMMA OrderChange ==
    ASSUME Types, OrderInv, NEW a \in Agent, version' = [version EXCEPT ![a] = @ + 1],
           UNCHANGED <<box, seen>>
    PROVE  OrderInv'
  <1>1. version \in [Agent -> Nat] BY OrderTyped, Zenon
  <1>2. version' \in [Agent -> Nat] /\ \A b \in Agent : version[b] <= version'[b] BY <1>1
  <1> SUFFICES ASSUME NEW s \in Session PROVE Ordered(box[s], seen[s], version')
       BY Zenon DEF OrderInv
  <1>3. box[s] \in Seq(Note) /\ seen[s] \in [Agent -> Nat] /\ Ordered(box[s], seen[s], version)
       BY OrderTyped, Zenon DEF OrderInv
  <1> QED BY <1>1, <1>2, <1>3, OrderedGrow, Zenon

\* A message is delivered to a session.
LEMMA OrderDelivers ==
    ASSUME Types, OrderInv, NEW s \in Session, NEW m, Current(m), Delivers(s, m),
           UNCHANGED <<version, seen>>
    PROVE  OrderInv'
  <1>1. box' = [box EXCEPT ![s] = Append(@, m)] \/ UNCHANGED box BY Zenon DEF Delivers
  <1>2. box \in [Session -> Seq(Note)] BY OrderTyped, Zenon
  <1>3. Ordered(Append(box[s], m), seen[s], version) BY OrderTyped, OrderedAppend, Zenon DEF OrderInv
  <1>4. ASSUME NEW z \in Session PROVE Ordered(box'[z], seen[z], version)
    <2>1. Ordered(box[z], seen[z], version) BY Zenon DEF OrderInv
    <2> QED BY <1>1, <1>2, <1>3, <2>1, Zenon
  <1> QED BY <1>4, Zenon DEF OrderInv

\* A writer takes the first message.
LEMMA OrderWriter ==
    ASSUME Types, OrderInv, NEW s \in Session, WriterSends(s)
    PROVE  /\ OrderInv'
           /\ \A z \in Session, a \in Agent : seen[z][a] <= seen'[z][a]
  <1> DEFINE next == Shown(seen[s], Head(box[s]))
  <1>1. box[s] # <<>> /\ box' = [box EXCEPT ![s] = Tail(@)] /\ UNCHANGED version
        /\ (UNCHANGED seen \/ seen' = [seen EXCEPT ![s] = next])
       BY WriterEffect, Zenon
  <1>2. version \in [Agent -> Nat] /\ box[s] \in Seq(Note) /\ seen[s] \in [Agent -> Nat]
        /\ box \in [Session -> Seq(Note)] /\ seen \in [Session -> [Agent -> Nat]]
       BY OrderTyped, Zenon
  <1>3. /\ Ordered(Tail(box[s]), seen[s], version) /\ Ordered(Tail(box[s]), next, version)
        /\ \A a \in Agent : seen[s][a] <= next[a]
       BY <1>1, <1>2, OrderedTail, Zenon DEF OrderInv
  <1> HIDE DEF next
  <1>4. ASSUME NEW z \in Session
        PROVE  Ordered(box'[z], seen'[z], version) /\ \A a \in Agent : seen[z][a] <= seen'[z][a]
    <2>1. Ordered(box[z], seen[z], version) BY Zenon DEF OrderInv
    <2>2. CASE z = s
      <3>1. box'[z] = Tail(box[s]) BY <1>1, <1>2, <2>2, Zenon
      <3>2. seen'[z] = seen[s] \/ seen'[z] = next BY <1>1, <1>2, <2>2, Zenon
      <3> QED BY <1>2, <1>3, <2>2, <3>1, <3>2
    <2>3. CASE z # s
      <3>1. box'[z] = box[z] /\ seen'[z] = seen[z] BY <1>1, <1>2, <2>3, Zenon
      <3>2. seen[z] \in [Agent -> Nat] BY OrderTyped, Zenon
      <3> QED BY <2>1, <3>1, <3>2
    <2> QED BY <2>2, <2>3, Zenon
  <1> QED BY <1>1, <1>4, Zenon DEF OrderInv

\* Sessions end: what they show is forgotten, and their boxes may be emptied.
LEMMA OrderForget ==
    ASSUME Types, OrderInv, NEW ended, Forget(ended), UNCHANGED version,
           \A s \in Session : box'[s] = box[s] \/ (s \in ended /\ box'[s] = <<>>)
    PROVE  OrderInv'
  <1> SUFFICES ASSUME NEW s \in Session PROVE Ordered(box'[s], seen'[s], version)
       BY Zenon DEF OrderInv
  <1>1. version \in [Agent -> Nat] /\ box[s] \in Seq(Note) /\ seen[s] \in [Agent -> Nat]
       BY OrderTyped, Zenon
  <1>2. Ordered(box[s], seen[s], version) BY Zenon DEF OrderInv
  <1>3. Ordered(box[s], [a \in Agent |-> 0], version) BY <1>1, <1>2, OrderedForget, Zenon
  <1>4. Ordered(<<>>, [a \in Agent |-> 0], version) BY <1>1 DEF Ordered
  <1>5. seen'[s] = IF s \in ended THEN [a \in Agent |-> 0] ELSE seen[s] BY Zenon DEF Forget
  <1> QED BY <1>2, <1>3, <1>4, <1>5, Zenon

LEMMA OrderInit == Init => OrderInv
  BY DEF Init, OrderInv, Ordered

\* OrderInv is kept, and no open session's browser goes back.
LEMMA OrderStep ==
    ASSUME Types, OrderInv, [Next]_vars
    PROVE  /\ OrderInv'
           /\ \A s \in Session, a \in Agent : Open(s)' => seen[s][a] <= seen'[s][a]
  <1> DEFINE Kept == /\ OrderInv'
                     /\ \A s \in Session, a \in Agent : Open(s)' => seen[s][a] <= seen'[s][a]
  <1>0. \A s \in Session, a \in Agent : seen[s][a] \in Nat BY OrderTyped, Zenon
  <1>1. ASSUME UNCHANGED vars PROVE Kept BY <1>0, <1>1 DEF vars, browser, OrderInv
  <1>2. ASSUME NEW w \in Worker, NEW task, Works(w, task) PROVE Kept
    <2>1. UNCHANGED seen /\ task \in Task /\ TaskEffect(w, task) BY <1>2, Zenon DEF Works
    <2>2. OrderInv'
      <3>1. CASE FromAgent(task)
        <4>1. task.agent \in Agent BY <2>1, <3>1, TaskFacts, Zenon
        <4>2. version' = [version EXCEPT ![task.agent] = @ + 1] /\ UNCHANGED box
             BY <2>1, <3>1, Zenon DEF TaskEffect, Quiet
        <4> QED BY <2>1, <4>1, <4>2, OrderChange, Zenon
      <3>2. CASE ~FromAgent(task) /\ UNCHANGED <<version, box>> BY <2>1, <3>2, Zenon
                                                                   DEF OrderInv
      <3>3. CASE ~FromAgent(task) /\ UNCHANGED version /\ \E m : Current(m) /\ Delivers(task.session, m)
        <4>1. task.session \in Session BY <2>1, <3>3, TaskFacts, Zenon
        <4> QED BY <2>1, <3>3, <4>1, OrderDelivers, Zenon
      <3> QED BY <2>1, <3>1, <3>2, <3>3, Zenon DEF TaskEffect, Quiet
    <2> QED BY <1>0, <2>1, <2>2
  <1>3. ASSUME Outside PROVE Kept
       BY <1>0, <1>3, OutsideFrame DEF OrderInv
  <1>4. ASSUME NEW s \in Session, WriterSends(s) PROVE Kept BY <1>4, OrderWriter, Zenon
  <1>5. ASSUME NEW s \in Session, Close(s) PROVE Kept
    <2>1. /\ box' = [box EXCEPT ![s] = <<>>] /\ conn' = [conn EXCEPT ![s] = "gone"]
          /\ Forget({s}) /\ UNCHANGED version
         BY <1>5, Zenon DEF Close
    <2>2. \A z \in Session : box'[z] = box[z] \/ (z \in {s} /\ box'[z] = <<>>)
         BY <2>1, OrderTyped, Zenon
    <2>3. OrderInv' BY <2>1, <2>2, OrderForget, Zenon
    <2>4. conn'[s] = "gone" BY <2>1, Zenon DEF Types, ConnType
    <2>5. \A z \in Session : z # s => seen'[z] = seen[z] BY <2>1, Zenon DEF Forget
    <2> QED BY <1>0, <2>3, <2>4, <2>5 DEF Open
  <1>6. ASSUME NEW a \in Agent, AgentLeaves(a) PROVE Kept
    <2>1. version' = [version EXCEPT ![a] = @ + 1] /\ UNCHANGED <<box, seen>>
         BY <1>6, Zenon DEF AgentLeaves, browser
    <2>2. OrderInv' BY <2>1, OrderChange, Zenon
    <2> QED BY <1>0, <2>1, <2>2
  <1>7. ASSUME LifecycleStop PROVE Kept
    <2>1. Forget(Session) /\ UNCHANGED <<version, box>> /\ shut' = Session BY <1>7, Zenon
                                                                              DEF LifecycleStop
    <2> QED BY <2>1, OrderForget, Zenon DEF Open
  <1>8. ASSUME ClearWorkers PROVE Kept
    <2>1. box' = [s \in Session |-> <<>>] /\ UNCHANGED <<version, seen>>
         BY <1>8, Zenon DEF ClearWorkers, browser
    <2>2. ASSUME NEW s \in Session PROVE Ordered(<<>>, seen[s], version) BY DEF OrderInv, Ordered
    <2>3. OrderInv' BY <2>1, <2>2, Zenon DEF OrderInv
    <2> QED BY <1>0, <2>1, <2>3
  <1> HIDE DEF Kept
  <1>9. Kept BY <1>1, <1>2, <1>3, <1>4, <1>5, <1>6, <1>7, <1>8, NextCases, Zenon
  <1> QED BY <1>9, Zenon DEF Kept

\* The types and the order of the versions are invariants.
LEMMA OrderInvariant == Spec => [](Types /\ OrderInv)
  <1>1. Init => Types /\ OrderInv BY TypesInit, OrderInit, Zenon
  <1>2. Types /\ OrderInv /\ [Next]_vars => (Types /\ OrderInv)' BY TypesStep, OrderStep, Zenon
  <1> QED BY <1>1, <1>2, PTL DEF Spec

\* A browser never falls back to an older state of an agent: for any number of
\* sessions, agents and workers, although the registry's publishers, the
\* workers and the writers of the session queues interleave at will.
THEOREM NeverOlderHolds == Spec => NeverOlder
  <1>1. Types /\ OrderInv /\ [Next]_vars
            => [\A s \in Session, a \in Agent : Open(s)' => seen'[s][a] >= seen[s][a]]_vars
    <2> SUFFICES ASSUME Types, OrderInv, [Next]_vars, NEW s \in Session, NEW a \in Agent, Open(s)'
                 PROVE  seen'[s][a] >= seen[s][a]
      BY Zenon
    <2>1. seen[s][a] <= seen'[s][a] BY OrderStep, Zenon
    <2>2. seen[s][a] \in Nat /\ seen'[s][a] \in Nat BY TypesStep, Zenon DEF Types, ShownType
    <2> QED BY <2>1, <2>2, Zenon
  <1> QED BY <1>1, OrderInvariant, PTL DEF Spec, NeverOlder

-----------------------------------------------------------------------------
(* The snapshot of a session runs before its switches. *)

\* The places of the queues after an append, and after a task has run.
LEMMA AppendPlaces ==
    ASSUME TasksType, NEW task \in Task,
           queue' = [queue EXCEPT ![WorkerOf(task)] = Append(@, task)],
           NEW w \in Worker, NEW i \in 1..Len(queue'[w])
    PROVE  \/ i \in 1..Len(queue[w]) /\ queue'[w][i] = queue[w][i]
           \/ w = WorkerOf(task) /\ i = Len(queue[w]) + 1 /\ queue'[w][i] = task
  <1>1. queue \in [Worker -> Seq(Task)] /\ queue[w] \in Seq(Task) BY Zenon DEF TasksType
  <1>2. CASE w = WorkerOf(task)
    <2>1. queue'[w] = Append(queue[w], task) BY <1>1, <1>2, TaskWorker, Zenon
    <2>2. i \in 1..Len(Append(queue[w], task)) BY <2>1, Zenon
    <2> QED BY <1>1, <1>2, <2>1, <2>2
  <1>3. CASE w # WorkerOf(task) BY <1>1, <1>3, Zenon
  <1> QED BY <1>2, <1>3, Zenon

LEMMA TailPlaces ==
    ASSUME TasksType, NEW v \in Worker, queue[v] # <<>>, queue' = [queue EXCEPT ![v] = Tail(@)],
           NEW w \in Worker, NEW i \in 1..Len(queue'[w])
    PROVE  \/ w = v /\ i + 1 \in 1..Len(queue[w]) /\ queue'[w][i] = queue[w][i + 1]
           \/ w # v /\ i \in 1..Len(queue[w]) /\ queue'[w][i] = queue[w][i]
  <1>1. queue \in [Worker -> Seq(Task)] /\ queue[w] \in Seq(Task) BY Zenon DEF TasksType
  <1>2. CASE w = v
    <2>1. queue'[w] = Tail(queue[w]) BY <1>1, <1>2, Zenon
    <2>2. i \in 1..Len(Tail(queue[w])) BY <2>1, Zenon
    <2> QED BY <1>1, <1>2, <2>1, <2>2
  <1>3. CASE w # v BY <1>1, <1>3, Zenon
  <1> QED BY <1>2, <1>3, Zenon

\* What a step that leaves the queues alone has to keep.
Forward ==
    \A s \in Session : /\ conn[s] \in Opened => conn'[s] \in Opened
                       /\ sub'[s] \in Agent => sub[s] \in Agent

LEMMA TaskSame ==
    ASSUME TaskInv, Forward, UNCHANGED queue
    PROVE  TaskInv'
  BY Zenon DEF TaskInv, RouteInv, SwitchInv, OpenInv, ScopeInv, Forward

\* A task is appended.
LEMMA TaskAppend ==
    ASSUME TasksType, TaskInv, Forward, NEW task \in Task,
           queue' = [queue EXCEPT ![WorkerOf(task)] = Append(@, task)],
           \A s \in Session : Switches(task, s) => conn'[s] \in Opened,
           \A s \in Session : Opens(task, s) => conn[s] \notin Opened /\ conn'[s] \in Opened
    PROVE  TaskInv'
  <1> DEFINE Old(w, i) == i \in 1..Len(queue[w]) /\ queue'[w][i] = queue[w][i]
             New(w, i) == w = WorkerOf(task) /\ i = Len(queue[w]) + 1 /\ queue'[w][i] = task
  <1>1. \A w \in Worker : \A i \in 1..Len(queue'[w]) : Old(w, i) \/ New(w, i)
       BY AppendPlaces, Zenon
  <1>2. RouteInv'
    <2>1. ASSUME NEW w \in Worker, NEW i \in 1..Len(queue'[w]) PROVE WorkerOf(queue'[w][i]) = w
      <3>1. CASE Old(w, i) BY <3>1, Zenon DEF TaskInv, RouteInv
      <3>2. CASE New(w, i) BY <3>2, Zenon
      <3> QED BY <1>1, <3>1, <3>2, Zenon
    <2> QED BY <2>1, Zenon DEF RouteInv, WorkerOf, Key, FromAgent
  <1>3. ScopeInv' BY Zenon DEF TaskInv, ScopeInv, Forward
  <1>4. ASSUME NEW s \in Session, NEW w \in Worker, NEW i \in 1..Len(queue'[w]),
               Switches(queue'[w][i], s)
        PROVE  conn'[s] \in Opened /\ \A j \in 1..Len(queue'[w]) : Opens(queue'[w][j], s) => j < i
    <2>1. conn'[s] \in Opened
         BY <1>1, <1>4, Zenon DEF TaskInv, SwitchInv, Forward
    <2>2. ASSUME NEW j \in 1..Len(queue'[w]), Opens(queue'[w][j], s) PROVE j < i
      <3>1. CASE Old(w, i) /\ Old(w, j) BY <1>4, <2>2, <3>1, Zenon DEF TaskInv, SwitchInv
      <3>2. CASE New(w, i) /\ Old(w, j) BY <3>2 DEF TasksType
      <3>3. CASE Old(w, i) /\ New(w, j)
        <4>1. conn[s] \in Opened BY <1>4, <3>3, Zenon DEF TaskInv, SwitchInv
        <4>2. conn[s] \notin Opened BY <2>2, <3>3, Zenon
        <4> QED BY <4>1, <4>2, Zenon
      <3>4. CASE New(w, i) /\ New(w, j) BY <1>4, <2>2, <3>4, Zenon DEF Switches, Opens
      <3> QED BY <1>1, <3>1, <3>2, <3>3, <3>4, Zenon
    <2> QED BY <2>1, <2>2, Zenon
  <1>5. ASSUME NEW s \in Session, NEW w \in Worker, NEW i \in 1..Len(queue'[w]), Opens(queue'[w][i], s)
        PROVE  conn'[s] \in Opened /\ sub'[s] \notin Agent
    <2>1. CASE Old(w, i) BY <1>5, <2>1, Zenon DEF TaskInv, OpenInv, Forward
    <2>2. CASE New(w, i) BY <1>5, <2>2, Zenon DEF TaskInv, ScopeInv, Forward
    <2> QED BY <1>1, <2>1, <2>2, Zenon
  <1>6. SwitchInv' BY <1>4, Zenon DEF SwitchInv
  <1>7. OpenInv' BY <1>5, Zenon DEF OpenInv
  <1> QED BY <1>2, <1>3, <1>6, <1>7, Zenon DEF TaskInv

\* A task has run; if it has switched its session, no snapshot is behind it.
LEMMA TaskTail ==
    ASSUME TasksType, TaskInv, NEW v \in Worker, queue[v] # <<>>,
           queue' = [queue EXCEPT ![v] = Tail(@)], UNCHANGED conn,
           \A s \in Session : sub'[s] \in Agent => sub[s] \in Agent \/ Switches(Head(queue[v]), s)
    PROVE  TaskInv'
  <1> DEFINE Moved(w, i) == w = v /\ i + 1 \in 1..Len(queue[w]) /\ queue'[w][i] = queue[w][i + 1]
             Same(w, i) == w # v /\ i \in 1..Len(queue[w]) /\ queue'[w][i] = queue[w][i]
  <1>1. \A w \in Worker : \A i \in 1..Len(queue'[w]) : Moved(w, i) \/ Same(w, i)
       BY TailPlaces, Zenon
  <1>2. RouteInv' BY <1>1 DEF TaskInv, RouteInv, WorkerOf, Key, FromAgent
  <1>3. queue[v] \in Seq(Task) /\ 1 \in 1..Len(queue[v]) /\ Head(queue[v]) = queue[v][1]
       BY DEF TasksType
  <1>4. ScopeInv' BY <1>3, Zenon DEF TaskInv, ScopeInv, SwitchInv
  <1>5. ASSUME NEW s \in Session, NEW w \in Worker, NEW i \in 1..Len(queue'[w]),
               Switches(queue'[w][i], s)
        PROVE  conn'[s] \in Opened /\ \A j \in 1..Len(queue'[w]) : Opens(queue'[w][j], s) => j < i
    <2>1. CASE Same(w, i) BY <1>1, <1>5, <2>1, Zenon DEF TaskInv, SwitchInv
    <2>2. CASE Moved(w, i)
      <3>1. /\ conn[s] \in Opened
            /\ \A j \in 1..Len(queue[w]) : Opens(queue[w][j], s) => j < i + 1
           BY <1>5, <2>2, Zenon DEF TaskInv, SwitchInv
      <3>2. ASSUME NEW j \in 1..Len(queue'[w]), Opens(queue'[w][j], s) PROVE j < i
        <4>1. Moved(w, j) BY <1>1, <2>2, Zenon
        <4>2. j + 1 < i + 1 BY <3>1, <3>2, <4>1, Zenon
        <4> QED BY <4>2
      <3> QED BY <3>1, <3>2, Zenon
    <2> QED BY <1>1, <2>1, <2>2, Zenon
  <1>6. ASSUME NEW s \in Session, NEW w \in Worker, NEW i \in 1..Len(queue'[w]), Opens(queue'[w][i], s)
        PROVE  conn'[s] \in Opened /\ sub'[s] \notin Agent
    <2>1. conn[s] \in Opened /\ sub[s] \notin Agent BY <1>1, <1>6, Zenon DEF TaskInv, OpenInv
    <2>2. ASSUME Switches(Head(queue[v]), s) PROVE FALSE
      <3>1. WorkerOf(queue[v][1]) = v BY <1>3, Zenon DEF TaskInv, RouteInv
      <3>2. WorkerOf(queue[v][1]) = PickWorker[s]
           BY <1>3, <2>2, Zenon DEF WorkerOf, Key, FromAgent, Switches
      <3>3. WorkerOf(queue'[w][i]) = w BY <1>2, Zenon DEF RouteInv, WorkerOf, Key, FromAgent
      <3>4. WorkerOf(queue'[w][i]) = PickWorker[s] BY <1>6, Zenon DEF WorkerOf, Key, FromAgent,
                                                      Opens
      <3>5. Moved(w, i) BY <1>1, <3>1, <3>2, <3>3, <3>4
      <3>6. i + 1 < 1 BY <1>3, <1>6, <2>2, <3>5, Zenon DEF TaskInv, SwitchInv
      <3> QED BY <3>6
    <2> QED BY <2>1, <2>2, Zenon
  <1>7. SwitchInv' BY <1>5, Zenon DEF SwitchInv
  <1>8. OpenInv' BY <1>6, Zenon DEF OpenInv
  <1> QED BY <1>2, <1>4, <1>7, <1>8, Zenon DEF TaskInv

\* The steps outside append what they may, and publishers publish.
LEMMA TaskOutside ==
    ASSUME Types, TaskInv, TodoInv, Outside
    PROVE  TaskInv' /\ TodoInv'
  <1> DEFINE Kept == TaskInv' /\ TodoInv'
  <1>0. TasksType /\ conn \in [Session -> {"new", "subscribed", "added", "open", "gone"}]
        /\ sub \in [Session -> Scope] /\ events \in 0..MaxEvents
        /\ queue \in [Worker -> Seq(Task)] /\ todo \in [Publisher -> SUBSET Task]
       BY Zenon DEF Types, ConnType, RegistryType, CountsType, TasksType
  <1>1. ASSUME UNCHANGED todo PROVE TodoInv' BY <1>1, Zenon DEF TodoInv
  <1>2. ASSUME UNCHANGED <<conn, sub>> PROVE Forward BY <1>2, Zenon DEF Forward
  <1>3. ASSUME NEW p \in Publisher, PublishOne(p) PROVE Kept
    <2>1. PICK task \in todo[p] : Post(task) /\ todo' = [todo EXCEPT ![p] = @ \ {task}]
         BY <1>3, Zenon DEF PublishOne
    <2>2. task \in Task /\ task.kind \in Published BY <1>0, <2>1, Zenon DEF TodoInv
    <2>3. queue' \in {queue, [queue EXCEPT ![WorkerOf(task)] = Append(@, task)]}
         BY <1>0, <2>1, <2>2, PostEffect, Zenon
    <2>4. UNCHANGED <<conn, sub>> BY <1>3, Zenon DEF PublishOne, link
    <2>5. \A s \in Session : ~Switches(task, s) /\ ~Opens(task, s)
         BY <2>2, Zenon DEF Switches, Opens, Published
    <2>6. TaskInv' BY <1>0, <1>2, <2>2, <2>3, <2>4, <2>5, TaskSame, TaskAppend, Zenon
    <2>7. TodoInv' BY <1>0, <2>1, Zenon DEF TodoInv
    <2> QED BY <2>6, <2>7, Zenon
  <1>4. ASSUME NEW s \in Session, OpenSubscribes(s) PROVE Kept
    <2>1. /\ conn' = [conn EXCEPT ![s] = "subscribed"] /\ conn[s] = "new"
          /\ sub' = [sub EXCEPT ![s] = "all"] /\ UNCHANGED <<queue, todo>>
         BY <1>4, Zenon DEF OpenSubscribes, sched
    <2>2. Forward BY <1>0, <2>1, UiEventsAssumption, Zenon DEF Forward, Opened
    <2> QED BY <1>1, <2>1, <2>2, TaskSame, Zenon
  <1>5. ASSUME NEW s \in Session, OpenAdds(s) PROVE Kept
    <2>1. /\ conn' = [conn EXCEPT ![s] = "added"] /\ conn[s] = "subscribed"
          /\ UNCHANGED <<sub, queue, todo>>
         BY <1>5, Zenon DEF OpenAdds, sched
    <2>2. Forward BY <1>0, <2>1, Zenon DEF Forward, Opened
    <2> QED BY <1>1, <2>1, <2>2, TaskSame, Zenon
  <1>6. ASSUME NEW s \in Session, OpenPosts(s) PROVE Kept
    <2> DEFINE task == [kind |-> "snapshot", session |-> s]
    <2>1. /\ task \in Task
          /\ \A z \in Session : ~Switches(task, z) /\ (Opens(task, z) => z = s)
         BY Zenon DEF Task, Switches, Opens
    <2>2. /\ Post(task) /\ UNCHANGED <<sub, todo>> /\ conn[s] = "added"
          /\ conn' = [conn EXCEPT ![s] = "open"]
         BY <1>6, Zenon DEF OpenPosts
    <2> HIDE DEF task
    <2>3. queue' \in {queue, [queue EXCEPT ![WorkerOf(task)] = Append(@, task)]}
         BY <1>0, <2>1, <2>2, PostEffect, Zenon
    <2>4. Forward /\ conn[s] \notin Opened /\ conn'[s] \in Opened BY <1>0, <2>2, Zenon
                                                                     DEF Forward,
                                                                     Opened
    <2>5. TaskInv' BY <1>0, <2>1, <2>3, <2>4, TaskSame, TaskAppend, Zenon
    <2> QED BY <1>1, <2>2, <2>5, Zenon
  <1>7. ASSUME NEW s \in Session, NEW a \in Agent, AskSwitch(s, a) PROVE Kept
    <2> DEFINE task == [kind |-> "subscribe", session |-> s, agent |-> a]
    <2>1. /\ task \in Task
          /\ \A z \in Session : ~Opens(task, z) /\ (Switches(task, z) => z = s)
         BY Zenon DEF Task, Switches, Opens
    <2>2. /\ queue' \in {queue, [queue EXCEPT ![WorkerOf(task)] = Append(@, task)]}
          /\ UNCHANGED <<sub, todo, conn>> /\ conn[s] = "open"
         BY <1>7, Zenon DEF AskSwitch, link
    <2> HIDE DEF task
    <2>3. Forward /\ conn'[s] \in Opened BY <1>2, <2>2, Zenon DEF Opened
    <2>4. TaskInv' BY <1>0, <2>1, <2>2, <2>3, TaskSame, TaskAppend, Zenon
    <2> QED BY <1>1, <2>2, <2>4, Zenon
  <1>8. ASSUME NEW a \in Agent, NEW kind \in {"heartbeat", "register"}, AgentTalks(a, kind) PROVE Kept
    <2> DEFINE task == [kind |-> kind, agent |-> a]
    <2>1. task \in Task /\ \A z \in Session : ~Opens(task, z) /\ ~Switches(task, z)
         BY Zenon DEF Task, Switches, Opens
    <2>2. /\ queue' \in {queue, [queue EXCEPT ![WorkerOf(task)] = Append(@, task)]}
          /\ UNCHANGED <<sub, todo, conn>>
         BY <1>8, Zenon DEF AgentTalks, link
    <2> HIDE DEF task
    <2>3. TaskInv' BY <1>0, <1>2, <2>1, <2>2, TaskSame, TaskAppend, Zenon
    <2> QED BY <1>1, <2>2, <2>3, Zenon
  <1>9. ASSUME NEW a \in Agent, RetryPublishes(a) PROVE Kept
    <2> DEFINE made == publish_command_event(a, events + 1) \cup publish_snapshot(a)
    <2>1. todo' = [todo EXCEPT !["retry"] = made] /\ events < MaxEvents /\ UNCHANGED <<sub, queue, conn>>
         BY <1>9, Zenon DEF RetryPublishes, link
    <2>2. events + 1 \in Event BY <1>0, <2>1, UiEventsAssumption DEF Event
    <2>3. \A t \in made : t.kind \in Published BY <2>2, EventMade, PublishMade, Zenon
    <2> HIDE DEF made
    <2>4. TodoInv' BY <1>0, <2>1, <2>3, Zenon DEF TodoInv
    <2> QED BY <1>2, <2>1, <2>4, TaskSame, Zenon
  <1>10. ASSUME SchedulerStop PROVE Kept
    <2>1. UNCHANGED <<conn, sub, queue, todo>> BY <1>10, Zenon DEF SchedulerStop, link, sched
    <2> QED BY <1>1, <1>2, <2>1, TaskSame, Zenon
  <1> HIDE DEF Kept
  <1>11. Kept BY <1>3, <1>4, <1>5, <1>6, <1>7, <1>8, <1>9, <1>10, Zenon DEF Outside
  <1> QED BY <1>11, Zenon DEF Kept

\* A worker runs a task, and publishes what it may.
LEMMA TaskWorks ==
    ASSUME Types, TaskInv, TodoInv, NEW w \in Worker, NEW task, Works(w, task)
    PROVE  TaskInv' /\ TodoInv'
  <1>1. TasksType /\ todo \in [Publisher -> SUBSET Task] /\ sub \in [Session -> Scope]
       BY Zenon DEF Types, TasksType, RegistryType
  <1>2. /\ queue[w] # <<>> /\ Head(queue[w]) = task /\ queue' = [queue EXCEPT ![w] = Tail(@)]
        /\ TaskEffect(w, task) /\ task \in Task
       BY Zenon DEF Works
  <1>3. UNCHANGED conn BY <1>2, Zenon DEF TaskEffect, Quiet, Delivers
  <1>4. UNCHANGED sub \/ (task.kind = "subscribe" /\ sub' = [sub EXCEPT ![task.session] = task.agent])
       BY <1>2, Zenon DEF TaskEffect
  <1>5. \A s \in Session : sub'[s] \in Agent => sub[s] \in Agent \/ Switches(Head(queue[w]), s)
       BY <1>1, <1>2, <1>4, Zenon DEF Switches
  <1>6. TaskInv' BY <1>1, <1>2, <1>3, <1>5, TaskTail, Zenon
  <1>7. PICK posts : /\ todo' = [todo EXCEPT ![w] = posts]
                     /\ \A t \in posts : t \in Task /\ t.kind \in Published
       BY Zenon DEF Works
  <1>8. TodoInv' BY <1>1, <1>7, Zenon DEF TodoInv
  <1> QED BY <1>6, <1>8, Zenon

LEMMA TaskInit == Init => TaskInv /\ TodoInv
  BY UiEventsAssumption DEF Init, TaskInv, RouteInv, SwitchInv, OpenInv, ScopeInv, TodoInv

LEMMA TaskStep ==
    ASSUME Types, TaskInv, TodoInv, [Next]_vars
    PROVE  TaskInv' /\ TodoInv'
  <1> DEFINE Kept == TaskInv' /\ TodoInv'
  <1>1. ASSUME UNCHANGED todo PROVE TodoInv' BY <1>1, Zenon DEF TodoInv
  <1>2. ASSUME UNCHANGED <<conn, sub>> PROVE Forward BY <1>2, Zenon DEF Forward
  <1>3. ASSUME UNCHANGED vars PROVE Kept
    <2>1. UNCHANGED <<conn, sub, queue, todo>> BY <1>3, Zenon DEF vars, link, sched
    <2> QED BY <1>1, <1>2, <2>1, TaskSame, Zenon
  <1>4. ASSUME NEW s \in Session, Close(s) PROVE Kept
    <2>1. /\ conn' = [conn EXCEPT ![s] = "gone"] /\ sub' = [sub EXCEPT ![s] = "none"]
          /\ UNCHANGED <<queue, todo>>
         BY <1>4, Zenon DEF Close, sched
    <2>2. Forward BY <2>1, UiEventsAssumption, Zenon DEF Forward, Opened, Types, ConnType,
                     RegistryType
    <2> QED BY <1>1, <2>1, <2>2, TaskSame, Zenon
  <1>5. ASSUME NEW s \in Session, WriterSends(s) PROVE Kept
    <2>1. UNCHANGED <<conn, sub, queue, todo>> BY <1>5, WriterEffect, Zenon
    <2> QED BY <1>1, <1>2, <2>1, TaskSame, Zenon
  <1>6. ASSUME NEW a \in Agent, AgentLeaves(a) PROVE Kept
    <2>1. UNCHANGED <<conn, sub, queue, todo>> BY <1>6, Zenon DEF AgentLeaves, link, sched
    <2> QED BY <1>1, <1>2, <2>1, TaskSame, Zenon
  <1>7. ASSUME LifecycleStop PROVE Kept
    <2>1. UNCHANGED <<conn, sub, queue, todo>> BY <1>7, Zenon DEF LifecycleStop, sched
    <2> QED BY <1>1, <1>2, <2>1, TaskSame, Zenon
  <1>8. ASSUME ClearWorkers PROVE Kept
    <2>1. conn' = [s \in Session |-> "gone"] /\ UNCHANGED <<sub, queue, todo>>
         BY <1>8, Zenon DEF ClearWorkers, sched
    <2>2. Forward BY <2>1, Zenon DEF Forward, Opened
    <2> QED BY <1>1, <2>1, <2>2, TaskSame, Zenon
  <1>9. ASSUME NEW w \in Worker, NEW task, Works(w, task) PROVE Kept BY <1>9, TaskWorks, Zenon
  <1>10. ASSUME Outside PROVE Kept BY <1>10, TaskOutside, Zenon
  <1> HIDE DEF Kept
  <1>11. Kept BY <1>3, <1>4, <1>5, <1>6, <1>7, <1>8, <1>9, <1>10, NextCases, Zenon
  <1> QED BY <1>11, Zenon DEF Kept

-----------------------------------------------------------------------------
(* A switch is obeyed. *)

\* What Settled says of one place.
SettledAt(q, known, scope, j) ==
    /\ scope \in Agent
    /\ \A i \in j+1..Len(q) : q[i].kind # "snapshot"
    /\ \A i \in j+1..Len(q) :
          q[i].kind = "update" /\ (\A k \in j+1..i-1 : Answer(q, known, k) = Nobody)
              => q[i].agent = Answer(q, known, j)
    /\ (\A k \in j+1..Len(q) : Answer(q, known, k) = Nobody) => scope = Answer(q, known, j)

LEMMA SettledPlaces ==
    ASSUME NEW q, NEW known, NEW scope
    PROVE  Settled(q, known, scope) <=>
              \A j \in 0..Len(q) : Answer(q, known, j) # Nobody => SettledAt(q, known, scope, j)
  BY Zenon DEF Settled, SettledAt

\* The places after an append.
LEMMA AnswerAppend ==
    ASSUME NEW q \in Seq(Note), NEW m \in Note, NEW known
    PROVE  /\ Len(Append(q, m)) = Len(q) + 1 /\ Len(q) \in Nat
           /\ \A i \in 1..Len(q) : Append(q, m)[i] = q[i]
           /\ Append(q, m)[Len(q) + 1] = m
           /\ \A j \in 0..Len(q) : Answer(Append(q, m), known, j) = Answer(q, known, j)
           /\ Answer(Append(q, m), known, Len(q) + 1) = IF m.kind = "result" THEN m.agent ELSE Nobody
  <1> DEFINE r == Append(q, m)
  <1>1. /\ Len(r) = Len(q) + 1 /\ Len(q) \in Nat /\ r[Len(q) + 1] = m
        /\ \A i \in 1..Len(q) : r[i] = q[i]
       OBVIOUS
  <1> HIDE DEF r
  <1>2. \A j \in 0..Len(q) : Answer(r, known, j) = Answer(q, known, j) BY <1>1 DEF Answer
  <1>3. Answer(r, known, Len(q) + 1) = IF m.kind = "result" THEN m.agent ELSE Nobody
       BY <1>1 DEF Answer
  <1> QED BY <1>1, <1>2, <1>3, Zenon DEF r

\* A message the scope allows is appended.
LEMMA SettledAppend ==
    ASSUME NEW q \in Seq(Note), NEW m \in Note, NEW known, NEW scope, Settled(q, known, scope),
           m.kind # "result", Allowed(m, scope)
    PROVE  Settled(Append(q, m), known, scope)
  <1> DEFINE r == Append(q, m)
  <1>1. /\ Len(r) = Len(q) + 1 /\ Len(q) \in Nat
        /\ \A i \in 1..Len(q) : r[i] = q[i]
        /\ r[Len(q) + 1] = m
        /\ \A j \in 0..Len(q) : Answer(r, known, j) = Answer(q, known, j)
        /\ Answer(r, known, Len(q) + 1) = Nobody
       BY AnswerAppend
  <1> HIDE DEF r
  <1>2. ASSUME NEW j \in 0..Len(r), Answer(r, known, j) # Nobody PROVE SettledAt(r, known, scope, j)
    <2>1. j \in 0..Len(q) /\ Answer(q, known, j) = Answer(r, known, j) BY <1>1, <1>2
    <2>2. SettledAt(q, known, scope, j) BY <1>2, <2>1, SettledPlaces, Zenon
    <2>3. scope \in Agent BY <2>2, Zenon DEF SettledAt
    <2>4. m.kind # "snapshot" /\ (m.kind = "update" => scope = m.agent)
         BY <2>3, UiEventsAssumption, Zenon DEF Allowed
    <2>5. ASSUME NEW i \in j+1..Len(r) PROVE r[i].kind # "snapshot"
      <3>1. CASE i \in j+1..Len(q) BY <1>1, <2>1, <2>2, <3>1 DEF SettledAt
      <3>2. CASE i = Len(q) + 1 BY <1>1, <2>4, <3>2, Zenon
      <3> QED BY <1>1, <2>1, <3>1, <3>2
    <2>6. (\A k \in j+1..Len(r) : Answer(r, known, k) = Nobody) => scope = Answer(r, known, j)
      <3>1. ASSUME \A k \in j+1..Len(r) : Answer(r, known, k) = Nobody
            PROVE  \A k \in j+1..Len(q) : Answer(q, known, k) = Nobody
           BY <1>1, <2>1, <3>1
      <3> QED BY <2>1, <2>2, <3>1, Zenon DEF SettledAt
    <2>7. ASSUME NEW i \in j+1..Len(r), r[i].kind = "update",
                 \A k \in j+1..i-1 : Answer(r, known, k) = Nobody
          PROVE  r[i].agent = Answer(r, known, j)
      <3>1. \A k \in j+1..i-1 : Answer(q, known, k) = Nobody BY <1>1, <2>1, <2>7
      <3>2. CASE i \in j+1..Len(q) BY <1>1, <2>1, <2>2, <2>7, <3>1, <3>2 DEF SettledAt
      <3>3. CASE i = Len(q) + 1
        <4>1. scope = Answer(q, known, j) BY <1>1, <2>1, <2>2, <3>1, <3>3 DEF SettledAt
        <4> QED BY <1>1, <2>1, <2>4, <2>7, <3>3, <4>1, Zenon
      <3> QED BY <1>1, <2>1, <3>2, <3>3
    <2> QED BY <2>3, <2>5, <2>6, <2>7, Zenon DEF SettledAt
  <1>3. Settled(r, known, scope) BY <1>2, SettledPlaces, Zenon
  <1> QED BY <1>3, Zenon DEF r

\* The answer to a switch is appended, and the scope becomes its agent.
LEMMA SettledResult ==
    ASSUME NEW q \in Seq(Note), NEW m \in Note, NEW known, NEW scope, Settled(q, known, scope),
           m.kind = "result"
    PROVE  Settled(Append(q, m), known, m.agent)
  <1> DEFINE r == Append(q, m)
  <1>1. /\ Len(r) = Len(q) + 1 /\ Len(q) \in Nat
        /\ \A i \in 1..Len(q) : r[i] = q[i]
        /\ r[Len(q) + 1] = m
        /\ \A j \in 0..Len(q) : Answer(r, known, j) = Answer(q, known, j)
        /\ Answer(r, known, Len(q) + 1) = m.agent
       BY AnswerAppend
  <1>2. m.agent \in Agent /\ m.agent # Nobody BY NoteFacts, UiEventsAssumption, Zenon
  <1> HIDE DEF r
  <1>3. ASSUME NEW j \in 0..Len(r), Answer(r, known, j) # Nobody PROVE SettledAt(r, known, m.agent, j)
    <2>1. CASE j = Len(q) + 1 BY <1>1, <1>2, <2>1 DEF SettledAt
    <2>2. CASE j \in 0..Len(q)
      <3>1. SettledAt(q, known, scope, j) /\ Answer(q, known, j) = Answer(r, known, j)
           BY <1>1, <1>3, <2>2, SettledPlaces, Zenon
      <3>2. ASSUME NEW i \in j+1..Len(r) PROVE r[i].kind # "snapshot"
        <4>1. CASE i \in j+1..Len(q) BY <1>1, <2>2, <3>1, <4>1 DEF SettledAt
        <4>2. CASE i = Len(q) + 1 BY <1>1, <4>2, Zenon
        <4> QED BY <1>1, <2>2, <4>1, <4>2
      <3>3. ASSUME \A k \in j+1..Len(r) : Answer(r, known, k) = Nobody PROVE FALSE
        <4>1. Len(q) + 1 \in j+1..Len(r) BY <1>1, <2>2
        <4> QED BY <1>1, <1>2, <3>3, <4>1, Zenon
      <3>4. ASSUME NEW i \in j+1..Len(r), r[i].kind = "update",
                   \A k \in j+1..i-1 : Answer(r, known, k) = Nobody
            PROVE  r[i].agent = Answer(r, known, j)
        <4>1. i \in j+1..Len(q) BY <1>1, <2>2, <3>4
        <4>2. \A k \in j+1..i-1 : Answer(q, known, k) = Nobody BY <1>1, <2>2, <3>4, <4>1
        <4> QED BY <1>1, <2>2, <3>1, <3>4, <4>1, <4>2 DEF SettledAt
      <3> QED BY <1>2, <3>2, <3>3, <3>4, Zenon DEF SettledAt
    <2> QED BY <1>1, <2>1, <2>2
  <1>4. Settled(r, known, m.agent) BY <1>3, SettledPlaces, Zenon
  <1> QED BY <1>4, Zenon DEF r

\* What the browser knows of its switches after a message.
Known(known, m) == IF m.kind = "result" THEN m.agent ELSE known

\* The first message is sent.
LEMMA SettledTail ==
    ASSUME NEW q \in Seq(Note), q # <<>>, NEW known, NEW scope, Settled(q, known, scope)
    PROVE  Settled(Tail(q), Known(known, Head(q)), scope)
  <1> DEFINE r == Tail(q)
             now == Known(known, Head(q))
             base == IF q[1].kind = "result" THEN 1 ELSE 0
             At(j) == IF j = 0 THEN base ELSE j + 1
  <1>1. /\ Len(r) = Len(q) - 1 /\ (\A i \in 1..Len(r) : r[i] = q[i + 1]) /\ Len(q) \in Nat \ {0}
        /\ Head(q) = q[1]
       OBVIOUS
  <1> HIDE DEF r
  <1>2. base \in 0..1 /\ (base = 0 => Answer(q, known, 1) = Nobody) BY DEF Answer
  <1>3. \A j \in 1..Len(r) : Answer(r, now, j) = Answer(q, known, j + 1) BY <1>1 DEF Answer
  <1>4. Answer(r, now, 0) = Answer(q, known, base) BY <1>1 DEF Answer, Known
  <1> HIDE DEF now, base
  <1>5. ASSUME NEW j \in 0..Len(r)
        PROVE  At(j) \in 0..Len(q) /\ Answer(r, now, j) = Answer(q, known, At(j))
       BY <1>1, <1>2, <1>3, <1>4
  <1>6. ASSUME NEW j \in 0..Len(r), NEW n \in 0..Len(r), \A k \in j+1..n : Answer(r, now, k) = Nobody
        PROVE  \A k \in At(j)+1..n+1 : Answer(q, known, k) = Nobody
    <2> SUFFICES ASSUME NEW k \in At(j)+1..n+1 PROVE Answer(q, known, k) = Nobody
      BY Zenon
    <2>1. CASE k = 1 BY <1>2, <1>5, <2>1
    <2>2. CASE k # 1
      <3>1. k - 1 \in j+1..n /\ k - 1 \in 1..Len(r) BY <1>2, <2>2
      <3>2. Answer(r, now, k - 1) = Answer(q, known, (k - 1) + 1) BY <1>3, <3>1, Zenon
      <3>3. (k - 1) + 1 = k BY <3>1
      <3> QED BY <1>6, <3>1, <3>2, <3>3, Zenon
    <2> QED BY <2>1, <2>2, Zenon
  <1>7. ASSUME NEW j \in 0..Len(r), NEW i \in j+1..Len(r)
        PROVE  i \in 1..Len(r) /\ i + 1 \in At(j)+1..Len(q) /\ r[i] = q[i + 1]
       BY <1>1, <1>2
  <1>8. ASSUME NEW j \in 0..Len(r), Answer(r, now, j) # Nobody PROVE SettledAt(r, now, scope, j)
    <2>1. SettledAt(q, known, scope, At(j)) BY <1>5, <1>8, SettledPlaces, Zenon
    <2>2. Answer(r, now, j) = Answer(q, known, At(j)) /\ At(j) \in 0..Len(q) BY <1>5, Zenon
    <2> HIDE DEF At
    <2>3. ASSUME NEW i \in j+1..Len(r) PROVE r[i].kind # "snapshot" BY <1>7, <2>1, Zenon
                                                                       DEF SettledAt
    <2>4. ASSUME NEW i \in j+1..Len(r), r[i].kind = "update",
                 \A k \in j+1..i-1 : Answer(r, now, k) = Nobody
          PROVE  r[i].agent = Answer(r, now, j)
      <3>1. \A k \in At(j)+1..(i - 1) + 1 : Answer(q, known, k) = Nobody
        <4>1. i - 1 \in 0..Len(r) OBVIOUS
        <4> QED BY <1>6, <2>4, <4>1, Zenon
      <3>2. \A k \in At(j)+1..(i + 1) - 1 : Answer(q, known, k) = Nobody BY <3>1
      <3>3. r[i] = q[i + 1] /\ i + 1 \in At(j)+1..Len(q) BY <1>7, Zenon
      <3> QED BY <2>1, <2>2, <2>4, <3>2, <3>3, Zenon DEF SettledAt
    <2>5. ASSUME \A k \in j+1..Len(r) : Answer(r, now, k) = Nobody PROVE scope = Answer(r, now, j)
      <3>1. Len(r) \in 0..Len(r) /\ Len(r) + 1 = Len(q) BY <1>1
      <3>2. \A k \in At(j)+1..Len(q) : Answer(q, known, k) = Nobody BY <1>6, <2>5, <3>1, Zenon
      <3> QED BY <2>1, <2>2, <3>2, Zenon DEF SettledAt
    <2>6. scope \in Agent BY <2>1, Zenon DEF SettledAt
    <2> QED BY <2>3, <2>4, <2>5, <2>6, Zenon DEF SettledAt
  <1>9. Settled(r, now, scope) BY <1>8, SettledPlaces, Zenon
  <1> QED BY <1>9, Zenon DEF r, now

\* Nothing waits and the browser knows of no switch.
LEMMA SettledEmpty ==
    ASSUME NEW scope PROVE Settled(<<>>, Nobody, scope)
  BY DEF Settled, Answer

\* One session's part.
SettledOf(s) ==
    /\ Live(s) => Settled(box[s], switched[s], sub[s])
    /\ conn[s] \in {"new", "subscribed"} => box[s] = <<>> /\ switched[s] = Nobody

LEMMA SettledParts == SettledInv <=> \A s \in Session : SettledOf(s)
  BY Zenon DEF SettledInv, SettledOf

\* A session whose state does not change, or that takes nothing any more.
LEMMA SettledSame ==
    ASSUME NEW s \in Session, SettledOf(s),
           box'[s] = box[s], switched'[s] = switched[s], sub'[s] = sub[s], conn'[s] = conn[s],
           Live(s)' => Live(s)
    PROVE  SettledOf(s)'
  BY Zenon DEF SettledOf

LEMMA SettledDead ==
    ASSUME NEW s \in Session, ~Live(s)', conn'[s] \notin {"new", "subscribed"}
    PROVE  SettledOf(s)'
  BY Zenon DEF SettledOf

\* A message is delivered by a task.
LEMMA SettledDelivers ==
    ASSUME Types, NEW z \in Session, NEW m \in Note, Delivers(z, m), SettledOf(z), UNCHANGED switched,
           \/ sub'[z] = sub[z] /\ m.kind # "result" /\ Allowed(m, sub[z])
           \/ m.kind = "result" /\ sub'[z] = m.agent
    PROVE  SettledOf(z)'
  <1>1. box \in [Session -> Seq(Note)] /\ box[z] \in Seq(Note) BY Zenon DEF Types, BoxType
  <1>2. UNCHANGED conn /\ (Registered(z) <=> Registered(z)') BY Zenon DEF Delivers, Registered
  <1>3. CASE box' = [box EXCEPT ![z] = Append(@, m)] /\ UNCHANGED shut /\ Registered(z)
    <2>1. box'[z] = Append(box[z], m) BY <1>1, <1>3, Zenon
    <2>2. conn'[z] \notin {"new", "subscribed"} BY <1>2, <1>3, Zenon DEF Registered
    <2>3. Live(z)' => Live(z) BY <1>2, <1>3, Zenon DEF Live
    <2>4. Live(z)' => Settled(box'[z], switched'[z], sub'[z])
      <3>1. SUFFICES ASSUME Settled(box[z], switched[z], sub[z])
                     PROVE  Settled(Append(box[z], m), switched[z], sub'[z])
           BY <2>1, <2>3, Zenon DEF SettledOf
      <3>2. CASE sub'[z] = sub[z] /\ m.kind # "result" /\ Allowed(m, sub[z])
           BY <1>1, <3>1, <3>2, SettledAppend, Zenon
      <3>3. CASE m.kind = "result" /\ sub'[z] = m.agent
           BY <1>1, <3>1, <3>3, SettledResult, Zenon
      <3> QED BY <3>2, <3>3, Zenon
    <2> QED BY <2>2, <2>4, Zenon DEF SettledOf
  <1>4. CASE UNCHANGED <<box, shut>> /\ ~Registered(z)
       BY <1>2, <1>4, Zenon DEF SettledOf, Live
  <1>5. CASE UNCHANGED box /\ shut' = shut \cup {z}
       BY <1>2, <1>5, Zenon DEF SettledOf, Live
  <1> QED BY <1>3, <1>4, <1>5, Zenon DEF Delivers

\* A worker's step.
LEMMA SettledWorks ==
    ASSUME Types, TaskInv, SettledInv, NEW w \in Worker, NEW task, Works(w, task)
    PROVE  SettledInv'
  <1>1. /\ queue[w] # <<>> /\ Head(queue[w]) = task /\ task \in Task
        /\ TaskEffect(w, task) /\ UNCHANGED switched
       BY Zenon DEF Works
  <1>2. box \in [Session -> Seq(Note)] /\ sub \in [Session -> Scope]
       BY Zenon DEF Types, BoxType, RegistryType
  <1>3. SUFFICES ASSUME NEW z \in Session PROVE SettledOf(z)' BY Zenon DEF SettledInv,
                                                                 SettledOf,
                                                                 Live,
                                                                 Registered
  <1>4. SettledOf(z) BY SettledParts, Zenon
  <1>5. CASE Quiet /\ UNCHANGED sub
       BY <1>1, <1>4, <1>5, SettledSame, Zenon DEF Quiet, Live, Registered
  <1>6. CASE ~FromAgent(task) /\
             \E m : /\ Current(m) /\ Delivers(task.session, m)
                    /\ \/ UNCHANGED sub /\ m.kind # "result"
                          /\ (Allowed(m, sub[task.session]) \/ task.kind = m.kind)
                       \/ /\ task.kind = "subscribe" /\ m.kind = "result" /\ m.agent = task.agent
                          /\ sub' = [sub EXCEPT ![task.session] = task.agent]
    <2>1. PICK m : /\ Current(m) /\ Delivers(task.session, m)
                   /\ \/ UNCHANGED sub /\ m.kind # "result"
                         /\ (Allowed(m, sub[task.session]) \/ task.kind = m.kind)
                      \/ /\ task.kind = "subscribe" /\ m.kind = "result" /\ m.agent = task.agent
                         /\ sub' = [sub EXCEPT ![task.session] = task.agent]
         BY <1>6, Zenon
    <2>2. task.session \in Session /\ m \in Note BY <1>1, <1>6, <2>1, TaskFacts, Zenon
                                                    DEF Current
    <2>3. CASE z # task.session
      <3>1. box'[z] = box[z] /\ sub'[z] = sub[z] /\ UNCHANGED conn /\ shut \cap {z} \subseteq shut'
           BY <1>2, <2>1, <2>2, <2>3, Zenon DEF Delivers
      <3>2. Live(z)' => Live(z) BY <3>1, Zenon DEF Live, Registered
      <3> QED BY <1>1, <1>4, <3>1, <3>2, SettledSame, Zenon
    <2>4. CASE z = task.session
      <3>1. CASE UNCHANGED sub /\ m.kind # "result"
                 /\ (Allowed(m, sub[task.session]) \/ task.kind = m.kind)
        <4>1. ASSUME task.kind = m.kind PROVE Allowed(m, sub[z])
          <5>1. CASE m.kind = "snapshot"
            <6>1. Opens(queue[w][1], z) /\ 1 \in 1..Len(queue[w])
                 BY <1>1, <2>4, <4>1, <5>1 DEF Opens, Types, TasksType
            <6>2. sub[z] \notin Agent BY <6>1, Zenon DEF TaskInv, OpenInv
            <6> QED BY <5>1, <6>2, Zenon DEF Allowed
          <5>2. CASE m.kind # "snapshot"
            <6>1. m.kind # "update" BY <1>1, <4>1, TaskFacts, Zenon
            <6> QED BY <3>1, <5>2, <6>1, Zenon DEF Allowed
          <5> QED BY <5>1, <5>2, Zenon
        <4> QED BY <1>1, <1>4, <2>1, <2>2, <2>4, <3>1, <4>1, SettledDelivers, Zenon
      <3>2. CASE /\ m.kind = "result" /\ m.agent = task.agent
                 /\ sub' = [sub EXCEPT ![task.session] = task.agent]
        <4>1. sub'[z] = m.agent BY <1>2, <2>4, <3>2, Zenon
        <4> QED BY <1>1, <1>4, <2>1, <2>2, <2>4, <3>2, <4>1, SettledDelivers, Zenon
      <3> QED BY <2>1, <3>1, <3>2, Zenon
    <2> QED BY <2>3, <2>4, Zenon
  <1> QED BY <1>1, <1>5, <1>6, Zenon DEF TaskEffect

\* A writer's step.
LEMMA SettledWriter ==
    ASSUME Types, SettledInv, NEW s \in Session, WriterSends(s)
    PROVE  SettledInv'
  <1>1. /\ box[s] # <<>> /\ box' = [box EXCEPT ![s] = Tail(@)] /\ UNCHANGED <<sub, conn, shut>>
        /\ \/ UNCHANGED switched /\ ~Connected(s)
           \/ switched' = [switched EXCEPT ![s] = Known(switched[s], Head(box[s]))]
       BY WriterEffect, Zenon DEF Known
  <1>2. box \in [Session -> Seq(Note)] /\ switched \in [Session -> Agent \cup {Nobody}]
       BY Zenon DEF Types, BoxType, ShownType
  <1>3. SUFFICES ASSUME NEW z \in Session PROVE SettledOf(z)' BY Zenon DEF SettledInv,
                                                                 SettledOf,
                                                                 Live,
                                                                 Registered
  <1>4. SettledOf(z) /\ SettledOf(s) BY SettledParts, Zenon
  <1>5. (Live(z)' <=> Live(z)) BY <1>1, Zenon DEF Live, Registered
  <1>6. CASE z # s
    <2>1. box'[z] = box[z] /\ switched'[z] = switched[z] BY <1>1, <1>2, <1>6, Zenon
    <2> QED BY <1>1, <1>4, <1>5, <2>1, SettledSame, Zenon
  <1>7. CASE z = s
    <2>1. conn'[z] \notin {"new", "subscribed"} BY <1>1, <1>4, <1>7, Zenon DEF SettledOf
    <2>2. ASSUME Live(z)' PROVE Settled(box'[z], switched'[z], sub'[z])
      <3>1. Connected(z) BY <1>1, <2>2, Zenon DEF Live, Registered, Connected
      <3>2. box'[z] = Tail(box[z]) /\ switched'[z] = Known(switched[z], Head(box[z])) /\ sub'[z] = sub[z]
           BY <1>1, <1>2, <1>7, <3>1, Zenon
      <3>3. Settled(box[z], switched[z], sub[z]) BY <1>4, <1>5, <2>2, Zenon DEF SettledOf
      <3> QED BY <1>1, <1>2, <1>7, <3>2, <3>3, SettledTail
    <2> QED BY <2>1, <2>2, Zenon DEF SettledOf
  <1> QED BY <1>6, <1>7, Zenon

\* The steps outside: only an opening session begins to live.
LEMMA SettledOutside ==
    ASSUME Types, SettledInv, Outside
    PROVE  SettledInv'
  <1>1. UNCHANGED <<box, switched, shut>> BY OutsideFrame, Zenon
  <1>2. conn \in [Session -> {"new", "subscribed", "added", "open", "gone"}] /\ sub \in [Session -> Scope]
       BY Zenon DEF Types, ConnType, RegistryType
  <1>3. SUFFICES ASSUME NEW z \in Session PROVE SettledOf(z)' BY Zenon DEF SettledInv,
                                                                 SettledOf,
                                                                 Live,
                                                                 Registered
  <1>4. SettledOf(z) BY SettledParts, Zenon
  <1> DEFINE Same == conn'[z] = conn[z] /\ sub'[z] = sub[z]
             Subscribes == conn[z] = "new" /\ conn'[z] = "subscribed"
             Adds == conn[z] = "subscribed" /\ conn'[z] = "added" /\ sub'[z] = sub[z]
             Posts == conn[z] = "added" /\ conn'[z] = "open" /\ sub'[z] = sub[z]
  <1>5. Same \/ Subscribes \/ Adds \/ Posts
    <2>1. ASSUME NEW p \in Publisher, PublishOne(p) PROVE Same BY <2>1, Zenon DEF PublishOne,
                                                                  link
    <2>2. ASSUME NEW s \in Session, OpenSubscribes(s) PROVE Same \/ Subscribes
         BY <1>2, <2>2, Zenon DEF OpenSubscribes
    <2>3. ASSUME NEW s \in Session, OpenAdds(s) PROVE Same \/ Adds BY <1>2, <2>3, Zenon
                                                                      DEF OpenAdds
    <2>4. ASSUME NEW s \in Session, OpenPosts(s) PROVE Same \/ Posts BY <1>2, <2>4, Zenon
                                                                        DEF OpenPosts
    <2>5. ASSUME NEW s \in Session, NEW a \in Agent, AskSwitch(s, a) PROVE Same
         BY <2>5, Zenon DEF AskSwitch, link
    <2>6. ASSUME NEW a \in Agent, NEW kind \in {"heartbeat", "register"}, AgentTalks(a, kind)
          PROVE  Same
         BY <2>6, Zenon DEF AgentTalks, link
    <2>7. ASSUME NEW a \in Agent, RetryPublishes(a) PROVE Same BY <2>7, Zenon
                                                                  DEF RetryPublishes,
                                                                  link
    <2>8. ASSUME SchedulerStop PROVE Same BY <2>8, Zenon DEF SchedulerStop, link
    <2> HIDE DEF Same, Subscribes, Adds, Posts
    <2> QED BY <2>1, <2>2, <2>3, <2>4, <2>5, <2>6, <2>7, <2>8, Zenon DEF Outside
  <1>6. CASE Same BY <1>1, <1>4, <1>6, SettledSame, Zenon DEF Live, Registered
  <1>7. CASE Subscribes BY <1>1, <1>4, <1>7, Zenon DEF SettledOf, Live, Registered
  <1>8. CASE Adds BY <1>1, <1>4, <1>8, SettledEmpty, Zenon DEF SettledOf
  <1>9. CASE Posts BY <1>1, <1>4, <1>9, Zenon DEF SettledOf, Live, Registered
  <1> QED BY <1>5, <1>6, <1>7, <1>8, <1>9, Zenon

LEMMA SettledInit == Init => SettledInv
  BY SettledEmpty, Zenon DEF Init, SettledInv, Live, Registered

\* SettledInv is kept, and a session that is open after a step was living before it.
LEMMA SettledStep ==
    ASSUME Types, TaskInv, SettledInv, [Next]_vars
    PROVE  SettledInv' /\ \A s \in Session : Open(s)' => Live(s)
  <1> DEFINE Kept == SettledInv' /\ \A s \in Session : Open(s)' => Live(s)
  <1>0. conn \in [Session -> {"new", "subscribed", "added", "open", "gone"}]
       BY Zenon DEF Types, ConnType
  <1>1. ASSUME UNCHANGED vars PROVE Kept
       BY <1>1, Zenon DEF vars, link, browser, SettledInv, Live, Registered, Open
  <1>2. ASSUME NEW w \in Worker, NEW task, Works(w, task) PROVE Kept
    <2>1. UNCHANGED conn /\ shut \subseteq shut'
         BY <1>2, Zenon DEF Works, TaskEffect, Quiet, Delivers
    <2>2. SettledInv' BY <1>2, SettledWorks, Zenon
    <2> QED BY <2>1, <2>2, Zenon DEF Open, Live, Registered
  <1>3. ASSUME Outside PROVE Kept
    <2>1. UNCHANGED shut BY <1>3, OutsideFrame, Zenon
    <2>2. ASSUME NEW s \in Session PROVE conn'[s] = "open" => conn[s] \in {"added", "open"}
      <3>1. ASSUME NEW p \in Publisher, PublishOne(p) PROVE UNCHANGED conn
           BY <3>1, Zenon DEF PublishOne, link
      <3>2. ASSUME NEW z \in Session, OpenSubscribes(z) PROVE conn' = [conn EXCEPT ![z] = "subscribed"]
           BY <3>2, Zenon DEF OpenSubscribes
      <3>3. ASSUME NEW z \in Session, OpenAdds(z) PROVE conn' = [conn EXCEPT ![z] = "added"]
           BY <3>3, Zenon DEF OpenAdds
      <3>4. ASSUME NEW z \in Session, OpenPosts(z)
            PROVE conn' = [conn EXCEPT ![z] = "open"] /\ conn[z] = "added"
           BY <3>4, Zenon DEF OpenPosts
      <3>5. ASSUME NEW z \in Session, NEW a \in Agent, AskSwitch(z, a) PROVE UNCHANGED conn
           BY <3>5, Zenon DEF AskSwitch, link
      <3>6. ASSUME NEW a \in Agent, NEW kind \in {"heartbeat", "register"}, AgentTalks(a, kind)
            PROVE  UNCHANGED conn
           BY <3>6, Zenon DEF AgentTalks, link
      <3>7. ASSUME NEW a \in Agent, RetryPublishes(a) PROVE UNCHANGED conn
           BY <3>7, Zenon DEF RetryPublishes, link
      <3>8. ASSUME SchedulerStop PROVE UNCHANGED conn BY <3>8, Zenon DEF SchedulerStop, link
      <3> QED BY <1>0, <1>3, <3>1, <3>2, <3>3, <3>4, <3>5, <3>6, <3>7, <3>8, Zenon DEF Outside
    <2>3. SettledInv' BY <1>3, SettledOutside, Zenon
    <2> QED BY <2>1, <2>2, <2>3, Zenon DEF Open, Live, Registered
  <1>4. ASSUME NEW s \in Session, WriterSends(s) PROVE Kept
    <2>1. UNCHANGED <<conn, shut>> BY <1>4, WriterEffect, Zenon
    <2>2. SettledInv' BY <1>4, SettledWriter, Zenon
    <2> QED BY <2>1, <2>2, Zenon DEF Open, Live, Registered
  <1>5. ASSUME NEW s \in Session, Close(s) PROVE Kept
    <2>1. /\ conn' = [conn EXCEPT ![s] = "gone"] /\ sub' = [sub EXCEPT ![s] = "none"]
          /\ box' = [box EXCEPT ![s] = <<>>] /\ shut' = shut \ {s} /\ Forget({s})
         BY <1>5, Zenon DEF Close
    <2>2. ASSUME NEW z \in Session, z # s
          PROVE  /\ conn'[z] = conn[z] /\ sub'[z] = sub[z] /\ box'[z] = box[z]
                 /\ switched'[z] = switched[z] /\ (z \in shut' <=> z \in shut)
         BY <2>1, <2>2, Zenon DEF Types, RegistryType, ConnType, BoxType, Forget
    <2>3. conn'[s] = "gone" BY <1>0, <2>1, Zenon
    <2>4. ASSUME NEW z \in Session, z # s PROVE SettledOf(z)' /\ (Live(z)' => Live(z))
      <3>1. Live(z)' => Live(z) BY <2>2, <2>4, Zenon DEF Live, Registered
      <3>2. SettledOf(z) BY SettledParts, Zenon
      <3> QED BY <2>2, <2>4, <3>1, <3>2, SettledSame, Zenon
    <2>5. SettledOf(s)' BY <2>3, Zenon DEF SettledOf, Live, Registered
    <2>6. SettledInv' BY <2>4, <2>5, Zenon DEF SettledInv, SettledOf, Live, Registered
    <2>7. ASSUME NEW z \in Session, Open(z)' PROVE Live(z)
         BY <2>3, <2>4, <2>7, Zenon DEF Open, Live, Registered
    <2> QED BY <2>6, <2>7, Zenon
  <1>6. ASSUME NEW a \in Agent, AgentLeaves(a) PROVE Kept
       BY <1>6, Zenon DEF AgentLeaves, link, browser, SettledInv, Live, Registered, Open
  <1>7. ASSUME LifecycleStop PROVE Kept
    <2>1. shut' = Session /\ UNCHANGED <<conn, box>> /\ Forget(Session) BY <1>7, Zenon
                                                                           DEF LifecycleStop
    <2>2. \A s \in Session : switched'[s] = Nobody BY <2>1, Zenon DEF Forget
    <2> QED BY <2>1, <2>2, Zenon DEF SettledInv, Live, Open
  <1>8. ASSUME ClearWorkers PROVE Kept
    <2>1. \A s \in Session : conn'[s] = "gone" BY <1>8, Zenon DEF ClearWorkers
    <2> QED BY <2>1, Zenon DEF SettledInv, Live, Registered, Open
  <1> HIDE DEF Kept
  <1>9. Kept BY <1>1, <1>2, <1>3, <1>4, <1>5, <1>6, <1>7, <1>8, NextCases, Zenon
  <1> QED BY <1>9, Zenon DEF Kept

\* The types, the tasks and the switches are in order.
LEMMA SettledInvariant == Spec => [](Types /\ TaskInv /\ TodoInv /\ SettledInv)
  <1>1. Init => Types /\ TaskInv /\ TodoInv /\ SettledInv BY TypesInit, TaskInit, SettledInit,
                                                             Zenon
  <1>2. Types /\ TaskInv /\ TodoInv /\ SettledInv /\ [Next]_vars
            => (Types /\ TaskInv /\ TodoInv /\ SettledInv)'
       BY TypesStep, TaskStep, SettledStep, Zenon
  <1> QED BY <1>1, <1>2, PTL DEF Spec

\* Once a switch to another agent was answered, no snapshot and no filtered
\* update of any other agent reaches the browser: for any number of sessions,
\* agents and workers, and however many switches are under way.
THEOREM StraysArePushesHolds == Spec => StraysArePushes
  <1> DEFINE Obeyed == \A s \in Session :
                 Open(s)' /\ box[s] # <<>> /\ box'[s] = Tail(box[s]) /\ switched[s] # Nobody =>
                     LET msg == Head(box[s])
                     IN  /\ msg.kind # "snapshot"
                         /\ msg.kind = "update" => msg.agent = switched[s]
  <1>1. Types /\ TaskInv /\ TodoInv /\ SettledInv /\ [Next]_vars => [Obeyed]_vars
    <2> SUFFICES ASSUME Types, TaskInv, SettledInv, [Next]_vars, NEW s \in Session, Open(s)',
                        box[s] # <<>>, switched[s] # Nobody
                 PROVE  /\ Head(box[s]).kind # "snapshot"
                        /\ Head(box[s]).kind = "update" => Head(box[s]).agent = switched[s]
      BY Zenon
    <2>1. Live(s) BY SettledStep, Zenon
    <2>2. Settled(box[s], switched[s], sub[s]) BY <2>1, Zenon DEF SettledInv
    <2>3. box[s] \in Seq(Note) BY Zenon DEF Types, BoxType
    <2>4. 0 \in 0..Len(box[s]) /\ Answer(box[s], switched[s], 0) = switched[s] BY <2>3 DEF Answer
    <2>5. SettledAt(box[s], switched[s], sub[s], 0) BY <2>2, <2>4, SettledPlaces, Zenon
    <2>6. 1 \in 0+1..Len(box[s]) /\ Head(box[s]) = box[s][1] BY <2>3
    <2>7. box[s][1].kind # "snapshot" BY <2>5, <2>6, Zenon DEF SettledAt
    <2>8. \A k \in 0+1..1-1 : Answer(box[s], switched[s], k) = Nobody OBVIOUS
    <2>9. box[s][1].kind = "update" => box[s][1].agent = switched[s]
         BY <2>4, <2>5, <2>6, <2>8, Zenon DEF SettledAt
    <2> QED BY <2>6, <2>7, <2>9, Zenon
  <1> QED BY <1>1, SettledInvariant, PTL DEF Spec, StraysArePushes

-----------------------------------------------------------------------------
(* The end of the program. *)

\* StopInv is kept: the retry thread is joined before the scheduler refuses
\* posts, and a worker that has emptied its queue gets nothing more.
LEMMA StopStep == ASSUME Types, StopInv, [Next]_vars PROVE StopInv'
  <1> USE UiEventsAssumption
  <1>0. /\ queue \in [Worker -> Seq(Task)] /\ todo \in [Publisher -> SUBSET Task]
        /\ "retry" \in Publisher /\ Worker \subseteq Publisher
       BY Zenon DEF Types, TasksType, Publisher
  <1>1. ASSUME UNCHANGED vars PROVE StopInv' BY <1>1, Zenon DEF vars, sched, StopInv
  <1>2. ASSUME NEW w \in Worker, NEW task, Works(w, task) PROVE StopInv'
    <2>1. stage # "cleared" BY <1>2, Zenon DEF Works, StopInv
    <2>2. todo'["retry"] = todo["retry"] /\ UNCHANGED stage BY <1>0, <1>2, Zenon DEF Works
    <2> QED BY <2>1, <2>2, Zenon DEF StopInv
  <1>3. ASSUME Outside PROVE StopInv'
    <2>1. ASSUME NEW p \in Publisher, PublishOne(p) PROVE StopInv'
      <3>1. stage = "cleared" => UNCHANGED queue BY <2>1, Zenon DEF PublishOne, Post, Accepts
      <3>2. \A q \in Publisher : todo[q] = {} => todo'[q] = {} BY <1>0, <2>1, Zenon
                                                                  DEF PublishOne
      <3>3. UNCHANGED stage BY <2>1, Zenon DEF PublishOne
      <3> QED BY <1>0, <3>1, <3>2, <3>3, Zenon DEF StopInv
    <2>2. ASSUME NEW s \in Session, OpenSubscribes(s) \/ OpenAdds(s) PROVE StopInv'
         BY <2>2, Zenon DEF OpenSubscribes, OpenAdds, sched, StopInv
    <2>3. ASSUME NEW s \in Session, OpenPosts(s) PROVE StopInv'
      <3>1. (stage = "cleared" => UNCHANGED queue) /\ UNCHANGED <<stage, todo>>
           BY <2>3, Zenon DEF OpenPosts, Post, Accepts
      <3> QED BY <3>1, Zenon DEF StopInv
    <2>4. ASSUME NEW s \in Session, NEW a \in Agent, AskSwitch(s, a) PROVE StopInv'
         BY <2>4, Zenon DEF AskSwitch, StopInv
    <2>5. ASSUME NEW a \in Agent, NEW kind \in {"heartbeat", "register"}, AgentTalks(a, kind)
          PROVE  StopInv'
         BY <2>5, Zenon DEF AgentTalks, StopInv
    <2>6. ASSUME NEW a \in Agent, RetryPublishes(a) PROVE StopInv'
         BY <2>6, Zenon DEF RetryPublishes, StopInv
    <2>7. ASSUME SchedulerStop PROVE StopInv' BY <2>7, Zenon DEF SchedulerStop, sched, StopInv
    <2> QED BY <1>3, <2>1, <2>2, <2>3, <2>4, <2>5, <2>6, <2>7, Zenon DEF Outside
  <1>4. ASSUME NEW s \in Session, WriterSends(s) \/ Close(s) PROVE StopInv'
       BY <1>4, Zenon DEF WriterSends, Close, sched, StopInv
  <1>5. ASSUME NEW a \in Agent, AgentLeaves(a) PROVE StopInv'
       BY <1>5, Zenon DEF AgentLeaves, sched, StopInv
  <1>6. ASSUME LifecycleStop PROVE StopInv' BY <1>6, Zenon DEF LifecycleStop, StopInv
  <1>7. ASSUME ClearWorkers PROVE StopInv' BY <1>7, Zenon DEF ClearWorkers, sched, StopInv
  <1> QED BY <1>1, <1>2, <1>3, <1>4, <1>5, <1>6, <1>7, NextCases, Zenon

\* When the workers are thrown away nobody has a post left to make, whichever
\* order the retry thread, the workers and the IO threads came to their end in.
THEOREM ClearedIsUnusedHolds == Spec => []ClearedIsUnused
  <1>1. Init => Types /\ StopInv BY TypesInit, Zenon DEF Init, StopInv, Publisher
  <1>2. Types /\ StopInv /\ [Next]_vars => (Types /\ StopInv)' BY TypesStep, StopStep, Zenon
  <1>3. StopInv => ClearedIsUnused BY Zenon DEF StopInv, ClearedIsUnused, Publisher
  <1> QED BY <1>1, <1>2, <1>3, PTL DEF Spec
=============================================================================
