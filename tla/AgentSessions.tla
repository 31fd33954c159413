---------------------------- MODULE AgentSessions ----------------------------
(***************************************************************************)
(* Who is connected: the three tables the control service keeps about the  *)
(* agents' sessions.  AgentSessionRegistry routes commands (by_session_,   *)
(* by_agent_), ControlWsUseCases checks bindings (session_agents_),        *)
(* AgentRegistryService knows who is online (sessions_, states_) and       *)
(* persists it.  Each has its own mutex, so a registration and a close     *)
(* take several steps.  Frames are handled by the worker of the agent's    *)
(* partition, opens and closes by the connection's I/O thread.             *)
(***************************************************************************)
EXTENDS Naturals, Sequences

CONSTANTS
    Agent,        \* agent_mac values
    Session,      \* session ids, one per connection
    NoAgent,      \* an empty agent_mac
    NoSession,    \* no entry in a table indexed by agent
    NoEntry,      \* no entry in a table indexed by session
    MaxFrames,    \* frames a connection delivers
    MaxFaults     \* store calls that fail

ASSUME SessionsAssumption ==
    /\ NoAgent \notin Agent /\ NoEntry \notin Agent /\ NoAgent # NoEntry
    /\ NoSession \notin Session
    /\ MaxFrames \in Nat /\ MaxFaults \in Nat

VARIABLES
    conn,            \* the connection: "none", "open", "closed"
    by_session,      \* by_session_[s].agent_mac
    by_agent,        \* by_agent_
    session_agents,  \* session_agents_
    sessions,        \* sessions_ of the registry
    states,          \* states_[m].online
    stored,          \* the agents table
    inbox,           \* tasks posted to the agent's partition
    worker,          \* the partition's worker: the step and session of its task
    closing,         \* the step of on_agent_close, and the agent it found
    frames, faults,  \* bounds
    bound,           \* history: the last session bind_agent gave the agent
    registered,      \* history: the last session bind_session gave the agent
    stale            \* history: agents put online by a frame of a closed session,
                     \* or left online by a boot that could not mark them

routing == <<by_session, by_agent, bound>>
registry == <<sessions, states, stored, registered, stale>>
vars == <<conn, session_agents, routing, registry, inbox, worker, closing, frames, faults>>

Presence == {"unknown", "online", "offline"}
Task(pc, s) == [pc |-> pc, session |-> s]
Close(pc, m) == [pc |-> pc, agent |-> m]
Frame == [session : Session, kind : {"register", "heartbeat"}]

Init ==
    /\ conn = [s \in Session |-> "none"]
    /\ by_session = [s \in Session |-> NoEntry]
    /\ by_agent = [m \in Agent |-> NoSession]
    /\ session_agents = [s \in Session |-> NoEntry]
    /\ sessions = [m \in Agent |-> NoSession]
    /\ states = [m \in Agent |-> "unknown"]
    /\ stored = [m \in Agent |-> "unknown"]
    /\ inbox = [m \in Agent |-> <<>>]
    /\ worker = [m \in Agent |-> Task("idle", NoSession)]
    /\ closing = [s \in Session |-> Close("no", NoAgent)]
    /\ frames = [s \in Session |-> 0] /\ faults = 0
    /\ bound = [m \in Agent |-> NoSession]
    /\ registered = [m \in Agent |-> NoSession]
    /\ stale = {}

-----------------------------------------------------------------------------
(* The connection's I/O thread *)

\* add_connection and on_open; no frame of s is handled before them.
on_agent_open(s) ==
    /\ conn[s] = "none"
    /\ conn' = [conn EXCEPT ![s] = "open"]
    /\ by_session' = [by_session EXCEPT ![s] = NoAgent]
    /\ session_agents' = [session_agents EXCEPT ![s] = NoAgent]
    /\ UNCHANGED <<by_agent, bound, registry, inbox, worker, closing, frames, faults>>

\* The payload's agent_mac selects the partition.
on_agent_message(s, m, k) ==
    /\ conn[s] = "open" /\ frames[s] < MaxFrames
    /\ frames' = [frames EXCEPT ![s] = @ + 1]
    /\ inbox' = [inbox EXCEPT ![m] = Append(@, [session |-> s, kind |-> k])]
    /\ UNCHANGED <<conn, session_agents, routing, registry, worker, closing, faults>>

\* connected() is false from here on.
PeerCloses(s) ==
    /\ conn[s] = "open"
    /\ conn' = [conn EXCEPT ![s] = "closed"]
    /\ closing' = [closing EXCEPT ![s] = Close("close", NoAgent)]
    /\ UNCHANGED <<session_agents, routing, registry, inbox, worker, frames, faults>>

\* Mutant: the registry is not told.
DisconnectNever(s) == Close("unbind", NoAgent)

\* A session that never registered has no agent to disconnect.
NextOfClose(s) == IF session_agents[s] \in Agent THEN Close("disconnect", session_agents[s])
                                                ELSE Close("unbind", NoAgent)

\* ControlWsUseCases::on_close, under its mutex.
on_close(s) ==
    /\ closing[s].pc = "close"
    /\ closing' = [closing EXCEPT ![s] = NextOfClose(s)]
    /\ session_agents' = [session_agents EXCEPT ![s] = NoEntry]
    /\ UNCHANGED <<conn, routing, registry, inbox, worker, frames, faults>>

\* persist_unlocked: the table follows the registry unless the store fails.
Persist(m) ==
    \/ stored' = [stored EXCEPT ![m] = states'[m]] /\ UNCHANGED faults
    \/ faults < MaxFaults /\ faults' = faults + 1 /\ UNCHANGED stored

\* Mutant: the session token is not compared.
AnySessionDisconnects(m, s) == states[m] # "unknown"

\* The session the registry knows for m is s, or it knows none.
MayDisconnect(m, s) == states[m] # "unknown" /\ sessions[m] \in {s, NoSession}

on_disconnect(s) ==
    /\ closing[s].pc = "disconnect"
    /\ closing' = [closing EXCEPT ![s] = Close("unbind", NoAgent)]
    /\ LET m == closing[s].agent
       IN \/ /\ MayDisconnect(m, s)
             /\ sessions' = [sessions EXCEPT ![m] = NoSession]
             /\ states' = [states EXCEPT ![m] = "offline"]
             /\ Persist(m)
          \/ /\ ~MayDisconnect(m, s)
             /\ UNCHANGED <<sessions, states, stored, faults>>
    /\ UNCHANGED <<conn, session_agents, routing, registered, stale, inbox, worker, frames>>

unbind_session(s) ==
    /\ closing[s].pc = "unbind"
    /\ closing' = [closing EXCEPT ![s] = Close("done", NoAgent)]
    /\ by_agent' = [m \in Agent |-> IF m = by_session[s] THEN NoSession ELSE by_agent[m]]
    /\ by_session' = [by_session EXCEPT ![s] = NoEntry]
    /\ UNCHANGED <<conn, session_agents, bound, registry, inbox, worker, frames, faults>>

IoThread(s) ==
    \/ on_agent_open(s) \/ PeerCloses(s)
    \/ on_close(s) \/ on_disconnect(s) \/ unbind_session(s)

-----------------------------------------------------------------------------
(* The partition's worker: AgentActionGateway::handle *)

Goto(m, pc, s) == worker' = [worker EXCEPT ![m] = Task(pc, s)]
Done(m)        == Goto(m, "idle", NoSession)

\* The first lock of a registration.  A session bound to another agent is
\* refused; one already bound to this agent skips the registry.  A session that
\* has been closed meanwhile gets a new entry.
handle_register(m) ==
    /\ worker[m].pc = "idle" /\ inbox[m] # <<>>
    /\ inbox' = [inbox EXCEPT ![m] = Tail(@)]
    /\ LET f == Head(inbox[m])
           s == f.session
       IN /\ f.kind = "register"
          /\ \/ /\ session_agents[s] \in Agent \ {m}
                /\ UNCHANGED <<session_agents, worker>>
             \/ /\ session_agents[s] = m
                /\ Goto(m, "bind_agent", s)
                /\ UNCHANGED session_agents
             \/ /\ session_agents[s] \notin Agent
                /\ session_agents' = [session_agents EXCEPT ![s] = m]
                /\ Goto(m, "bind_session", s)
    /\ UNCHANGED <<conn, routing, registry, closing, frames, faults>>

bind_session(m) ==
    /\ worker[m].pc = "bind_session"
    /\ sessions' = [sessions EXCEPT ![m] = worker[m].session]
    /\ registered' = [registered EXCEPT ![m] = worker[m].session]
    /\ Goto(m, "on_register", worker[m].session)
    /\ UNCHANGED <<conn, session_agents, routing, states, stored, stale, inbox, closing,
                   frames, faults>>

\* on_register and on_heartbeat write online = true whatever the session does.
SetOnline(m) ==
    /\ states' = [states EXCEPT ![m] = "online"]
    /\ stale' = IF conn[worker[m].session] = "closed" THEN stale \cup {m} ELSE stale
    /\ Persist(m)
    /\ UNCHANGED <<sessions, registered>>

on_register(m) ==
    /\ worker[m].pc = "on_register"
    /\ SetOnline(m)
    /\ Goto(m, "bind_agent", worker[m].session)
    /\ UNCHANGED <<conn, session_agents, routing, inbox, closing, frames>>

\* Mutant: the session that loses the agent keeps its mac.
BindKeepsOld(s, m) == [by_session EXCEPT ![s] = m]

\* by_session_ after s takes m: the session that had m loses it.
Rebound(s, m) == [t \in Session |-> IF t = s THEN m
                                    ELSE IF /\ t = by_agent[m] /\ by_session[s] # m
                                            /\ by_session[t] # NoEntry
                                         THEN NoAgent ELSE by_session[t]]

bind_agent(m) ==
    /\ worker[m].pc = "bind_agent"
    /\ LET s == worker[m].session
       IN \/ /\ by_session[s] = NoEntry
             /\ UNCHANGED routing
          \/ /\ by_session[s] # NoEntry
             /\ by_session' = Rebound(s, m)
             /\ by_agent' = [a \in Agent |-> IF a = m THEN s
                                             ELSE IF a = by_session[s] THEN NoSession
                                             ELSE by_agent[a]]
             /\ bound' = [bound EXCEPT ![m] = s]
    /\ Done(m)
    /\ UNCHANGED <<conn, session_agents, registry, inbox, closing, frames, faults>>

\* enforce_bound_agent_for_strict_action; command.ack and command.result take
\* the same two checks.
handle_heartbeat(m) ==
    /\ worker[m].pc = "idle" /\ inbox[m] # <<>>
    /\ inbox' = [inbox EXCEPT ![m] = Tail(@)]
    /\ LET f == Head(inbox[m])
       IN /\ f.kind = "heartbeat"
          /\ \/ by_session[f.session] = m /\ Goto(m, "binding", f.session)
             \/ by_session[f.session] # m /\ UNCHANGED worker
    /\ UNCHANGED <<conn, session_agents, routing, registry, closing, frames, faults>>

ensure_strict_action_session_binding(m) ==
    /\ worker[m].pc = "binding"
    /\ LET s == worker[m].session
       IN \/ session_agents[s] = m /\ Goto(m, "on_heartbeat", s)
          \/ session_agents[s] # m /\ Done(m)
    /\ UNCHANGED <<conn, session_agents, routing, registry, inbox, closing, frames, faults>>

on_heartbeat(m) ==
    /\ worker[m].pc = "on_heartbeat"
    /\ SetOnline(m)
    /\ Done(m)
    /\ UNCHANGED <<conn, session_agents, routing, inbox, closing, frames>>

Worker(m) ==
    \/ handle_register(m) \/ bind_session(m) \/ on_register(m) \/ bind_agent(m)
    \/ handle_heartbeat(m) \/ ensure_strict_action_session_binding(m) \/ on_heartbeat(m)

-----------------------------------------------------------------------------
\* The service dies and boots: connections and tables in memory are gone, and
\* mark_all_offline runs before the first connection.  When it fails the boot
\* goes on; when the agents cannot be listed the registry starts empty.
Restart ==
    /\ conn' = [s \in Session |-> IF conn[s] = "open" THEN "closed" ELSE conn[s]]
    /\ by_session' = [s \in Session |-> NoEntry]
    /\ by_agent' = [m \in Agent |-> NoSession]
    /\ session_agents' = [s \in Session |-> NoEntry]
    /\ sessions' = [m \in Agent |-> NoSession]
    /\ \/ /\ stored' = [m \in Agent |-> IF stored[m] = "unknown" THEN "unknown" ELSE "offline"]
          /\ states' = stored'
          /\ UNCHANGED faults
       \/ /\ faults < MaxFaults /\ faults' = faults + 1
          /\ \/ stored' = stored /\ states' = stored
             \/ /\ stored' = [m \in Agent |->
                                IF stored[m] = "unknown" THEN "unknown" ELSE "offline"]
                /\ states' = [m \in Agent |-> "unknown"]
    /\ inbox' = [m \in Agent |-> <<>>]
    /\ worker' = [m \in Agent |-> Task("idle", NoSession)]
    /\ closing' = [s \in Session |-> IF conn[s] = "none" THEN closing[s]
                                     ELSE Close("done", NoAgent)]
    /\ bound' = [m \in Agent |-> NoSession]
    /\ registered' = [m \in Agent |-> NoSession]
    /\ stale' = {m \in Agent : states'[m] = "online"}
    /\ UNCHANGED frames

Next ==
    \/ \E s \in Session : IoThread(s)
    \/ \E s \in Session, m \in Agent, k \in {"register", "heartbeat"} : on_agent_message(s, m, k)
    \/ \E m \in Agent : Worker(m)
    \/ Restart

Spec == Init /\ [][Next]_vars

-----------------------------------------------------------------------------
(* Properties *)

ConnType ==
    /\ conn \in [Session -> {"none", "open", "closed"}]
    /\ closing \in [Session -> [pc : {"no", "close", "unbind", "done"}, agent : {NoAgent}]
                               \cup [pc : {"disconnect"}, agent : Agent]]
    /\ frames \in [Session -> Nat] /\ faults \in Nat

RouteType ==
    /\ by_session \in [Session -> Agent \cup {NoAgent, NoEntry}]
    /\ by_agent \in [Agent -> Session \cup {NoSession}]
    /\ session_agents \in [Session -> Agent \cup {NoAgent, NoEntry}]
    /\ bound \in [Agent -> Session \cup {NoSession}]

RegistryType ==
    /\ sessions \in [Agent -> Session \cup {NoSession}]
    /\ registered \in [Agent -> Session \cup {NoSession}]
    /\ states \in [Agent -> Presence] /\ stored \in [Agent -> Presence]
    /\ stale \subseteq Agent

TaskStep == {"bind_session", "on_register", "bind_agent", "binding", "on_heartbeat"}

TaskType ==
    /\ inbox \in [Agent -> Seq(Frame)]
    /\ worker \in [Agent -> [pc : TaskStep, session : Session] \cup {Task("idle", NoSession)}]

\* Type correctness; a task and a disconnect know their session and agent.
TypeOK == ConnType /\ RouteType /\ RegistryType /\ TaskType

\* by_agent_ and by_session_ are inverse to each other: a command for m goes to
\* a session that is bound to m, and a session bound to m is the one m's
\* commands go to, whatever registrations and closes overlap.
RoutesAgree ==
    /\ \A m \in Agent : by_agent[m] # NoSession => by_session[by_agent[m]] = m
    /\ \A s \in Session : by_session[s] \in Agent => by_agent[by_session[s]] = s

\* The session that was given m last keeps m's commands as long as it is
\* connected: the late close of an older session does not take them away.
NewestSessionKeepsRoute ==
    \A m \in Agent : bound[m] # NoSession /\ conn[bound[m]] = "open" => by_agent[m] = bound[m]

\* An agent is online as long as the session that registered last is connected:
\* the late close of an older session of the same agent does not mark it offline.
RegisteredIsOnline ==
    \A m \in Agent :
        registered[m] # NoSession /\ conn[registered[m]] = "open" /\ worker[m].pc # "on_register"
            => states[m] = "online"

\* Nothing is being handled for m and none of its sessions is connected.
Gone(m) == /\ worker[m].pc = "idle" /\ inbox[m] = <<>>
           /\ \A s \in Session : conn[s] # "open" /\ closing[s].pc \in {"no", "done"}

\* An agent that is gone is shown online only if a frame was handled after its
\* session had closed, or if a boot failed to mark it offline.
OnlyLateFramesStayOnline ==
    \A m \in Agent : Gone(m) /\ states[m] = "online" => m \in stale
=============================================================================
