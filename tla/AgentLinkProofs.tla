-------------------------- MODULE AgentLinkProofs --------------------------
(***************************************************************************)
(* The link between the control service and its agents.  The session       *)
(* tables agree, for every number of agents, sessions, frames and failures *)
(* of the store.  The agent's own queue exceeds its limit by at most one   *)
(* message and keeps replies in order, for every limit and every number of *)
(* failures.                                                               *)
(***************************************************************************)
EXTENDS AgentSessions, AgentChannel, TLAPS

-----------------------------------------------------------------------------
(* The tables of the service: AgentSessions.                               *)

USE DEF Task, Close, routing, registry, Goto, Done

\* The steps of Next, named once for the case splits below.
LEMMA NextCases ==
    ASSUME Next
    PROVE  \/ \E s \in Session : \/ on_agent_open(s) \/ PeerCloses(s) \/ on_close(s)
                                 \/ on_disconnect(s) \/ unbind_session(s)
           \/ \E s \in Session, m \in Agent, k \in {"register", "heartbeat"} :
                  on_agent_message(s, m, k)
           \/ \E m \in Agent : \/ handle_register(m) \/ bind_session(m) \/ on_register(m)
                               \/ bind_agent(m) \/ handle_heartbeat(m)
                               \/ ensure_strict_action_session_binding(m) \/ on_heartbeat(m)
           \/ Restart
  BY Zenon DEF Next, IoThread, Worker

\* The service starts with empty, well typed tables.
LEMMA TypeInit == Init => TypeOK
  BY SessionsAssumption
     DEF Init, TypeOK, ConnType, RouteType, RegistryType, TaskType, Presence

\* The frame a worker takes is a frame, and what it leaves is a queue of frames.
LEMMA InboxTakes ==
    ASSUME TypeOK, NEW m \in Agent, inbox[m] # <<>>
    PROVE  /\ Head(inbox[m]) \in Frame /\ Head(inbox[m]).session \in Session
           /\ Tail(inbox[m]) \in Seq(Frame)
  <1>1. inbox[m] \in Seq(Frame) BY Zenon DEF TypeOK, TaskType
  <1>2. Head(inbox[m]) \in Frame /\ Tail(inbox[m]) \in Seq(Frame) BY <1>1
  <1> QED BY <1>2, Zenon DEF Frame

\* Opening and closing a connection keeps the types.
LEMMA TypeIo ==
    ASSUME TypeOK, NEW s \in Session,
           \/ on_agent_open(s) \/ PeerCloses(s) \/ on_close(s) \/ unbind_session(s)
    PROVE  TypeOK'
  <1>a. /\ NextOfClose(s) \in [pc : {"unbind"}, agent : {NoAgent}] \cup [pc : {"disconnect"}, agent : Agent]
        /\ Close("close", NoAgent) \in [pc : {"close"}, agent : {NoAgent}]
        /\ Close("done", NoAgent) \in [pc : {"done"}, agent : {NoAgent}]
       BY Zenon DEF NextOfClose
  <1>1. ConnType'
       BY <1>a DEF TypeOK, ConnType, RouteType, on_agent_open, PeerCloses, on_close, unbind_session
  <1>2. RouteType'
       BY DEF TypeOK, RouteType, on_agent_open, PeerCloses, on_close, unbind_session
  <1>3. RegistryType' /\ TaskType'
       BY Zenon DEF TypeOK, RegistryType, TaskType, on_agent_open, PeerCloses, on_close,
          unbind_session
  <1> QED BY <1>1, <1>2, <1>3, Zenon DEF TypeOK

\* So does telling the registry.
LEMMA TypeDisconnect ==
    ASSUME TypeOK, NEW s \in Session, on_disconnect(s) PROVE TypeOK'
  <1>1. closing[s].agent \in Agent BY Zenon DEF TypeOK, ConnType, on_disconnect
  <1>2. ConnType' BY DEF TypeOK, ConnType, on_disconnect, Persist
  <1>3. RegistryType' BY <1>1 DEF TypeOK, RegistryType, on_disconnect, Persist, Presence
  <1>4. RouteType' /\ TaskType' BY Zenon DEF TypeOK, RouteType, TaskType, on_disconnect
  <1> QED BY <1>2, <1>3, <1>4, Zenon DEF TypeOK

\* So does the arrival of a frame.
LEMMA TypeMessage ==
    ASSUME TypeOK, NEW s \in Session, NEW m \in Agent, NEW k \in {"register", "heartbeat"},
           on_agent_message(s, m, k)
    PROVE  TypeOK'
  <1>1. ConnType' BY DEF TypeOK, ConnType, on_agent_message
  <1>2. [session |-> s, kind |-> k] \in Frame BY Zenon DEF Frame
  <1>4. Append(inbox[m], [session |-> s, kind |-> k]) \in Seq(Frame)
       BY <1>2 DEF TypeOK, TaskType
  <1>5. TaskType' BY <1>4, Zenon DEF TypeOK, TaskType, on_agent_message
  <1>3. RouteType' /\ RegistryType' BY Zenon DEF TypeOK, RouteType, RegistryType,
                                       on_agent_message
  <1> QED BY <1>1, <1>3, <1>5, Zenon DEF TypeOK

\* So does taking a register or heartbeat frame.
LEMMA TypeTake ==
    ASSUME TypeOK, NEW m \in Agent, handle_register(m) \/ handle_heartbeat(m) PROVE TypeOK'
  <1>1. inbox[m] # <<>> BY Zenon DEF handle_register, handle_heartbeat
  <1>a. \A pc \in TaskStep : Task(pc, Head(inbox[m]).session) \in [pc : TaskStep, session : Session]
       BY <1>1, InboxTakes, Zenon
  <1>b. worker' \in [Agent -> [pc : TaskStep, session : Session] \cup {Task("idle", NoSession)}]
       BY <1>a, ZenonT(60) DEF TypeOK, TaskType, handle_register, handle_heartbeat, TaskStep
  <1>2. TaskType' BY <1>1, <1>b, InboxTakes, Zenon DEF TypeOK, TaskType, handle_register,
                     handle_heartbeat
  <1>3. RouteType' BY <1>1, InboxTakes, SMTT(60), Zenon DEF TypeOK, RouteType, handle_register,
                      handle_heartbeat
  <1>4. ConnType' /\ RegistryType'
       BY Zenon DEF TypeOK, ConnType, RegistryType, handle_register, handle_heartbeat
  <1> QED BY <1>2, <1>3, <1>4, Zenon DEF TypeOK

\* So do the later steps of a task.
LEMMA TypeTaskStep ==
    ASSUME TypeOK, NEW m \in Agent,
           \/ bind_session(m) \/ on_register(m) \/ bind_agent(m)
           \/ ensure_strict_action_session_binding(m) \/ on_heartbeat(m)
    PROVE  TypeOK'
  <1>1. worker[m].session \in Session
       BY DEF TypeOK, TaskType, TaskStep, bind_session, on_register, bind_agent,
              ensure_strict_action_session_binding, on_heartbeat
  <1>2. ConnType'
       BY SMTT(60), Zenon DEF TypeOK, ConnType, bind_session, on_register, bind_agent,
          SetOnline, Persist, ensure_strict_action_session_binding, on_heartbeat
  <1>3. RouteType'
       BY <1>1, SMTT(60), Zenon DEF TypeOK, RouteType, bind_session, on_register, bind_agent,
          Rebound, ensure_strict_action_session_binding, on_heartbeat
  <1>4. RegistryType'
       BY <1>1, SMTT(60) DEF TypeOK, RegistryType, bind_session, on_register, bind_agent, SetOnline,
              Persist, Presence, ensure_strict_action_session_binding, on_heartbeat
  <1>a. \A pc \in TaskStep : Task(pc, worker[m].session) \in [pc : TaskStep, session : Session]
       BY <1>1, Zenon
  <1>5. TaskType'
       BY <1>a, ZenonT(60) DEF TypeOK, TaskType, TaskStep, bind_session, on_register, bind_agent,
              ensure_strict_action_session_binding, on_heartbeat
  <1> QED BY <1>2, <1>3, <1>4, <1>5, Zenon DEF TypeOK

\* So does a restart, whether its store calls work or fail.
LEMMA TypeRestart == ASSUME TypeOK, Restart PROVE TypeOK'
  <1>1. ConnType' BY DEF TypeOK, ConnType, Restart
  <1>2. RouteType' BY Zenon DEF RouteType, Restart
  <1>3. RegistryType' BY Zenon DEF TypeOK, RegistryType, Restart, Presence
  <1>4. TaskType' BY DEF TaskType, Restart
  <1> QED BY <1>1, <1>2, <1>3, <1>4, Zenon DEF TypeOK

\* Every step keeps the types.
LEMMA TypeStep == TypeOK /\ [Next]_vars => TypeOK'
  <1> SUFFICES ASSUME TypeOK, [Next]_vars PROVE TypeOK' BY Zenon
  <1>1. CASE Next BY <1>1, NextCases, TypeIo, TypeDisconnect, TypeMessage, TypeTake,
                     TypeTaskStep, TypeRestart, Zenon
  <1>2. CASE UNCHANGED vars
       BY <1>2, Zenon DEF vars, TypeOK, ConnType, RouteType, RegistryType, TaskType
  <1> QED BY <1>1, <1>2, Zenon

\* The tables of the three services are well typed in every reachable state: a
\* task always knows its session and a disconnect its agent.
THEOREM TypeCorrect == Spec => []TypeOK
  BY TypeInit, TypeStep, PTL DEF Spec

-----------------------------------------------------------------------------
(* The inductive invariant *)

\* A session that was never opened is known nowhere.
UnopenedUnknown ==
    \A s \in Session : conn[s] = "none" =>
        /\ session_agents[s] = NoEntry /\ by_session[s] = NoEntry
        /\ \A m \in Agent : /\ bound[m] # s /\ registered[m] # s /\ worker[m].session # s
                            /\ \A i \in 1..Len(inbox[m]) : inbox[m][i].session # s

\* Only a closed session is being closed.
ClosingIsClosed == \A s \in Session : closing[s].pc # "no" => conn[s] = "closed"

\* A registration, or a heartbeat that passed both checks, holds its connected
\* session in session_agents_.
BindingHolds ==
    \A m \in Agent :
        /\ worker[m].pc \in {"bind_session", "on_register", "bind_agent", "on_heartbeat"}
        /\ conn[worker[m].session] = "open"
        => session_agents[worker[m].session] = m

\* A connected session that routes to an agent is bound to it in session_agents_.
RoutedIsBound ==
    \A s \in Session : conn[s] = "open" /\ by_session[s] \in Agent => session_agents[s] = by_session[s]

\* The registry keeps the token of the last registered session while it is connected.
TokenKept ==
    \A m \in Agent : registered[m] # NoSession /\ conn[registered[m]] = "open"
                        => sessions[m] = registered[m]

IInv == /\ UnopenedUnknown /\ ClosingIsClosed /\ BindingHolds /\ RoutedIsBound /\ TokenKept
        /\ RoutesAgree /\ NewestSessionKeepsRoute /\ RegisteredIsOnline

\* What TypeOK says of each table, in the form the steps below use.
LEMMA ConnTyped == ASSUME TypeOK PROVE conn \in [Session -> {"none", "open", "closed"}]
  BY Zenon DEF TypeOK, ConnType

LEMMA ClosingTyped ==
    ASSUME TypeOK
    PROVE  /\ closing \in [Session -> [pc : {"no", "close", "unbind", "done", "disconnect"},
                                       agent : Agent \cup {NoAgent}]]
           /\ \A s \in Session : closing[s].pc = "disconnect" => closing[s].agent \in Agent
  BY Zenon DEF TypeOK, ConnType

LEMMA TablesTyped ==
    ASSUME TypeOK
    PROVE  /\ by_session \in [Session -> Agent \cup {NoAgent, NoEntry}]
           /\ session_agents \in [Session -> Agent \cup {NoAgent, NoEntry}]
  BY Zenon DEF TypeOK, RouteType

LEMMA RoutesTyped ==
    ASSUME TypeOK
    PROVE  /\ by_agent \in [Agent -> Session \cup {NoSession}]
           /\ bound \in [Agent -> Session \cup {NoSession}]
  BY Zenon DEF TypeOK, RouteType

LEMMA TokensTyped ==
    ASSUME TypeOK
    PROVE  /\ sessions \in [Agent -> Session \cup {NoSession}]
           /\ registered \in [Agent -> Session \cup {NoSession}]
  BY Zenon DEF TypeOK, RegistryType

LEMMA StatesTyped ==
    ASSUME TypeOK
    PROVE  states \in [Agent -> Presence] /\ stored \in [Agent -> Presence] /\ stale \subseteq Agent
  BY Zenon DEF TypeOK, RegistryType

LEMMA InboxTyped == ASSUME TypeOK PROVE inbox \in [Agent -> Seq(Frame)]
  BY Zenon DEF TypeOK, TaskType

LEMMA WorkerTyped ==
    ASSUME TypeOK
    PROVE  worker \in [Agent -> [pc : TaskStep \cup {"idle"}, session : Session \cup {NoSession}]]
  BY DEF TypeOK, TaskType

\* A task knows its session.
LEMMA WorkerKnows ==
    ASSUME TypeOK
    PROVE  \A n \in Agent : worker[n].pc # "idle" => worker[n].session \in Session
  BY DEF TypeOK, TaskType

\* It holds when the service starts.
LEMMA InvInit == Init => IInv
  BY SessionsAssumption
     DEF Init, IInv, UnopenedUnknown, ClosingIsClosed, BindingHolds, RoutedIsBound, TokenKept,
         RoutesAgree, NewestSessionKeepsRoute, RegisteredIsOnline

\* Opening a connection preserves it.
LEMMA InvOpen ==
    ASSUME TypeOK, IInv, NEW s \in Session, on_agent_open(s)
    PROVE  IInv'
  <1>1. UnopenedUnknown'
       BY ConnTyped DEF IInv, UnopenedUnknown, on_agent_open
  <1>2. ClosingIsClosed'
       BY DEF IInv, ClosingIsClosed, on_agent_open
  <1>3. BindingHolds'
       BY DEF IInv, BindingHolds, UnopenedUnknown, on_agent_open
  <1>4. RoutedIsBound'
       BY SessionsAssumption DEF IInv, RoutedIsBound, UnopenedUnknown, on_agent_open
  <1>5. TokenKept'
       BY DEF IInv, TokenKept, UnopenedUnknown, on_agent_open
  <1>6. RoutesAgree'
       BY SessionsAssumption DEF IInv, RoutesAgree, UnopenedUnknown, on_agent_open
  <1>7. NewestSessionKeepsRoute'
       BY DEF IInv, NewestSessionKeepsRoute, UnopenedUnknown, on_agent_open
  <1>8. RegisteredIsOnline'
       BY DEF IInv, RegisteredIsOnline, UnopenedUnknown, on_agent_open
  <1> QED BY <1>1, <1>2, <1>3, <1>4, <1>5, <1>6, <1>7, <1>8, Zenon DEF IInv

\* So does the end of a connection.
LEMMA InvPeerCloses ==
    ASSUME TypeOK, IInv, NEW s \in Session, PeerCloses(s)
    PROVE  IInv'
  <1>1. UnopenedUnknown'
       BY DEF IInv, UnopenedUnknown, PeerCloses
  <1>2. ClosingIsClosed'
       BY ConnTyped DEF IInv, ClosingIsClosed, PeerCloses
  <1>3. BindingHolds'
       BY DEF IInv, BindingHolds, PeerCloses
  <1>4. RoutedIsBound'
       BY DEF IInv, RoutedIsBound, PeerCloses
  <1>5. TokenKept'
       BY DEF IInv, TokenKept, PeerCloses
  <1>6. NewestSessionKeepsRoute'
       BY DEF IInv, NewestSessionKeepsRoute, PeerCloses
  <1>7. RegisteredIsOnline'
       BY DEF IInv, RegisteredIsOnline, PeerCloses
  <1>8. RoutesAgree'
       BY Zenon DEF IInv, RoutesAgree, PeerCloses
  <1> QED BY <1>1, <1>2, <1>3, <1>4, <1>5, <1>6, <1>7, <1>8, Zenon DEF IInv

\* So does on_close.
LEMMA InvClose ==
    ASSUME TypeOK, IInv, NEW s \in Session, on_close(s)
    PROVE  IInv'
  <1>0. conn[s] = "closed" BY Zenon DEF IInv, ClosingIsClosed, on_close
  <1>1. UnopenedUnknown'
       BY DEF IInv, UnopenedUnknown, on_close
  <1>2. ClosingIsClosed'
       BY DEF IInv, ClosingIsClosed, on_close
  <1>3. BindingHolds'
       BY <1>0 DEF IInv, BindingHolds, on_close
  <1>4. RoutedIsBound'
       BY <1>0 DEF IInv, RoutedIsBound, on_close
  <1>5. TokenKept' /\ RoutesAgree' /\ NewestSessionKeepsRoute' /\ RegisteredIsOnline'
       BY Zenon DEF IInv, TokenKept, RoutesAgree, NewestSessionKeepsRoute, RegisteredIsOnline,
          on_close
  <1> QED BY <1>1, <1>2, <1>3, <1>4, <1>5, Zenon DEF IInv

\* So does telling the registry: a token that is kept protects its agent.
LEMMA InvDisconnect ==
    ASSUME TypeOK, IInv, NEW s \in Session, on_disconnect(s)
    PROVE  IInv'
  <1>0. closing[s].agent \in Agent /\ conn[s] = "closed"
       BY ClosingTyped, Zenon DEF IInv, ClosingIsClosed, on_disconnect
  <1>1. ClosingIsClosed'
       BY DEF IInv, ClosingIsClosed, on_disconnect
  <1>2. TokenKept'
       BY TokensTyped DEF IInv, TokenKept, ClosingIsClosed, on_disconnect, MayDisconnect
  <1>3. RegisteredIsOnline'
       BY StatesTyped DEF IInv, RegisteredIsOnline, ClosingIsClosed, TokenKept, on_disconnect,
          MayDisconnect
  <1>4. UnopenedUnknown' /\ BindingHolds' /\ RoutedIsBound' /\ RoutesAgree' /\
          NewestSessionKeepsRoute'
       BY DEF IInv, UnopenedUnknown, BindingHolds, RoutedIsBound, RoutesAgree,
          NewestSessionKeepsRoute, on_disconnect
  <1> QED BY <1>1, <1>2, <1>3, <1>4, Zenon DEF IInv

\* So does unbinding the session.
LEMMA InvUnbind ==
    ASSUME TypeOK, IInv, NEW s \in Session, unbind_session(s)
    PROVE  IInv'
  <1>0. conn[s] = "closed" BY Zenon DEF IInv, ClosingIsClosed, unbind_session
  <1>1. UnopenedUnknown'
       BY DEF IInv, UnopenedUnknown, unbind_session
  <1>2. ClosingIsClosed'
       BY DEF IInv, ClosingIsClosed, unbind_session
  <1>3. RoutedIsBound'
       BY SessionsAssumption DEF IInv, RoutedIsBound, unbind_session
  <1>4. RoutesAgree'
       BY SessionsAssumption, TablesTyped DEF IInv, RoutesAgree, unbind_session
  <1>5. NewestSessionKeepsRoute'
       BY DEF IInv, NewestSessionKeepsRoute, ClosingIsClosed, RoutesAgree, unbind_session
  <1>6. BindingHolds' /\ TokenKept' /\ RegisteredIsOnline'
       BY Zenon DEF IInv, BindingHolds, TokenKept, RegisteredIsOnline, unbind_session
  <1> QED BY <1>1, <1>2, <1>3, <1>4, <1>5, <1>6, Zenon DEF IInv

\* So does the arrival of a frame.
LEMMA InvMessage ==
    ASSUME TypeOK, IInv, NEW s \in Session, NEW m \in Agent,
           NEW k \in {"register", "heartbeat"}, on_agent_message(s, m, k)
    PROVE  IInv'
  <1>1. UnopenedUnknown'
       BY DEF IInv, UnopenedUnknown, on_agent_message
  <1>2. ClosingIsClosed' /\ BindingHolds' /\ RoutedIsBound' /\ TokenKept' /\
          RoutesAgree' /\ NewestSessionKeepsRoute' /\ RegisteredIsOnline'
       BY Zenon DEF IInv, ClosingIsClosed, BindingHolds, RoutedIsBound, TokenKept, RoutesAgree,
          NewestSessionKeepsRoute, RegisteredIsOnline, on_agent_message
  <1> QED BY <1>1, <1>2, Zenon DEF IInv

\* So does the first lock of a registration: it never takes a session from another agent.
LEMMA InvHandleRegister ==
    ASSUME TypeOK, IInv, NEW m \in Agent, handle_register(m)
    PROVE  IInv'
  <1>0. inbox[m] # <<>> /\ Head(inbox[m]).session \in Session
       BY InboxTakes, Zenon DEF handle_register
  <1>a. conn[Head(inbox[m]).session] # "none"
       BY <1>0 DEF IInv, UnopenedUnknown
  <1>1. UnopenedUnknown'
    <2>1. \A n \in Agent : worker'[n].session \in {worker[n].session, Head(inbox[m]).session}
         BY WorkerTyped DEF handle_register
    <2>2. ASSUME NEW n \in Agent, NEW i \in 1..Len(inbox'[n])
          PROVE  \E j \in 1..Len(inbox[n]) : inbox'[n][i] = inbox[n][j]
      <3>1. inbox[n] \in Seq(Frame) BY InboxTyped, Zenon
      <3>2. inbox'[n] = inbox[n] \/ (n = m /\ inbox'[n] = Tail(inbox[n]))
           BY InboxTyped, Zenon DEF handle_register
      <3>3. CASE inbox'[n] = inbox[n] BY <2>2, <3>3, Zenon
      <3>4. CASE n = m /\ inbox'[n] = Tail(inbox[n])
        <4>1. i + 1 \in 1..Len(inbox[n]) /\ inbox'[n][i] = inbox[n][i + 1] BY <1>0, <2>2, <3>1, <3>4
        <4> QED BY <4>1, Zenon
      <3> QED BY <3>2, <3>3, <3>4, Zenon
    <2>3. \A t \in Session : t = Head(inbox[m]).session \/ session_agents'[t] = session_agents[t]
         BY TablesTyped, Zenon DEF handle_register
    <2>4. conn' = conn /\ by_session' = by_session /\ bound' = bound /\ registered' = registered
         BY Zenon DEF handle_register
    <2>5. ASSUME NEW t \in Session, conn[t] = "none"
          PROVE  session_agents'[t] = NoEntry /\ by_session'[t] = NoEntry
         BY <1>a, <2>3, <2>4, <2>5, Zenon DEF IInv, UnopenedUnknown
    <2>6. ASSUME NEW t \in Session, conn[t] = "none", NEW n \in Agent
          PROVE  bound'[n] # t /\ registered'[n] # t /\ worker'[n].session # t
         BY <1>a, <2>1, <2>4, <2>6 DEF IInv, UnopenedUnknown
    <2>7. ASSUME NEW t \in Session, conn[t] = "none", NEW n \in Agent, NEW i \in 1..Len(inbox'[n])
          PROVE  inbox'[n][i].session # t
         BY <2>2, <2>7 DEF IInv, UnopenedUnknown
    <2> QED BY <2>4, <2>5, <2>6, <2>7, Zenon DEF UnopenedUnknown
  <1>2. BindingHolds'
    <2> SUFFICES ASSUME NEW n \in Agent, conn[worker'[n].session] = "open",
                        worker'[n].pc \in {"bind_session", "on_register", "bind_agent", "on_heartbeat"}
                 PROVE  session_agents'[worker'[n].session] = n
         BY Zenon DEF BindingHolds, handle_register
    <2>1. CASE n = m
      <3>1. worker'[m] # worker[m] BY <2>1, Zenon DEF handle_register
      <3>2. worker'[m].session = Head(inbox[m]).session BY <3>1, WorkerTyped DEF handle_register
      <3>3. session_agents'[Head(inbox[m]).session] = m BY <1>0, <3>1, TablesTyped, Zenon
                                                           DEF handle_register
      <3> QED BY <2>1, <3>2, <3>3, Zenon
    <2>2. CASE n # m
      <3>1. worker'[n] = worker[n] BY <2>2, WorkerTyped, Zenon DEF handle_register
      <3>2. worker[n].session \in Session /\ session_agents[worker[n].session] = n
           BY <3>1, WorkerKnows, Zenon DEF IInv, BindingHolds
      <3>3. session_agents'[worker[n].session] = session_agents[worker[n].session]
           BY <3>2, TablesTyped, Zenon DEF handle_register
      <3> QED BY <3>1, <3>2, <3>3, Zenon
    <2> QED BY <2>1, <2>2, Zenon
  <1>3. RoutedIsBound'
       BY <1>0, ConnTyped, TablesTyped, Zenon DEF IInv, RoutedIsBound, handle_register
  <1>4. RegisteredIsOnline'
    <2> SUFFICES ASSUME NEW n \in Agent, registered[n] # NoSession, conn[registered[n]] = "open",
                        worker'[n].pc # "on_register"
                 PROVE  states[n] = "online"
         BY Zenon DEF RegisteredIsOnline, handle_register
    <2>1. worker[n].pc # "on_register" BY WorkerTyped, Zenon DEF handle_register
    <2> QED BY <2>1, Zenon DEF IInv, RegisteredIsOnline
  <1>5. ClosingIsClosed' /\ TokenKept' /\ RoutesAgree' /\ NewestSessionKeepsRoute'
       BY Zenon DEF IInv, ClosingIsClosed, TokenKept, RoutesAgree, NewestSessionKeepsRoute,
          handle_register
  <1> QED BY <1>1, <1>2, <1>3, <1>4, <1>5, Zenon DEF IInv

\* So does taking a heartbeat.
LEMMA InvHandleHeartbeat ==
    ASSUME TypeOK, IInv, NEW m \in Agent, handle_heartbeat(m)
    PROVE  IInv'
  <1>0. inbox[m] # <<>> /\ Head(inbox[m]).session \in Session
       BY InboxTakes, Zenon DEF handle_heartbeat
  <1>a. conn[Head(inbox[m]).session] # "none"
       BY <1>0 DEF IInv, UnopenedUnknown
  <1>1. UnopenedUnknown'
    <2>1. \A n \in Agent : worker'[n].session \in {worker[n].session, Head(inbox[m]).session}
         BY WorkerTyped DEF handle_heartbeat
    <2>2. ASSUME NEW n \in Agent, NEW i \in 1..Len(inbox'[n])
          PROVE  \E j \in 1..Len(inbox[n]) : inbox'[n][i] = inbox[n][j]
      <3>1. inbox[n] \in Seq(Frame) BY InboxTyped, Zenon
      <3>2. inbox'[n] = inbox[n] \/ (n = m /\ inbox'[n] = Tail(inbox[n]))
           BY InboxTyped, Zenon DEF handle_heartbeat
      <3>3. CASE inbox'[n] = inbox[n] BY <2>2, <3>3, Zenon
      <3>4. CASE n = m /\ inbox'[n] = Tail(inbox[n])
        <4>1. i + 1 \in 1..Len(inbox[n]) /\ inbox'[n][i] = inbox[n][i + 1] BY <1>0, <2>2, <3>1, <3>4
        <4> QED BY <4>1, Zenon
      <3> QED BY <3>2, <3>3, <3>4, Zenon
    <2>3. UNCHANGED <<conn, session_agents, by_session, bound, registered>>
         BY Zenon DEF handle_heartbeat
    <2> QED BY <1>a, <2>1, <2>2, <2>3 DEF IInv, UnopenedUnknown
  <1>2. BindingHolds'
    <2> SUFFICES ASSUME NEW n \in Agent, conn[worker'[n].session] = "open",
                        worker'[n].pc \in {"bind_session", "on_register", "bind_agent", "on_heartbeat"}
                 PROVE  session_agents'[worker'[n].session] = n
         BY Zenon DEF BindingHolds, handle_heartbeat
    <2>1. CASE n = m BY WorkerTyped DEF IInv, BindingHolds, handle_heartbeat
    <2>2. CASE n # m
      <3>1. worker'[n] = worker[n] BY WorkerTyped DEF handle_heartbeat
      <3>2. worker[n].session \in Session /\ session_agents[worker[n].session] = n
           BY <3>1, WorkerKnows, Zenon DEF IInv, BindingHolds
      <3>3. session_agents'[worker[n].session] = session_agents[worker[n].session]
           BY Zenon DEF handle_heartbeat
      <3> QED BY <3>1, <3>2, <3>3, Zenon
    <2> QED BY <2>1, <2>2, Zenon
  <1>3. RegisteredIsOnline'
    <2> SUFFICES ASSUME NEW n \in Agent, registered[n] # NoSession, conn[registered[n]] = "open",
                        worker'[n].pc # "on_register"
                 PROVE  states[n] = "online"
         BY Zenon DEF RegisteredIsOnline, handle_heartbeat
    <2>1. worker[n].pc # "on_register" BY WorkerTyped, Zenon DEF handle_heartbeat
    <2> QED BY <2>1, Zenon DEF IInv, RegisteredIsOnline
  <1>4. ClosingIsClosed' /\ RoutedIsBound' /\ TokenKept' /\ RoutesAgree' /\
          NewestSessionKeepsRoute'
       BY Zenon DEF IInv, ClosingIsClosed, RoutedIsBound, TokenKept, RoutesAgree,
          NewestSessionKeepsRoute, handle_heartbeat
  <1> QED BY <1>1, <1>2, <1>3, <1>4, Zenon DEF IInv

\* So does bind_session of the registry.
LEMMA InvBindSession ==
    ASSUME TypeOK, IInv, NEW m \in Agent, bind_session(m)
    PROVE  IInv'
  <1>0. worker[m].session \in Session /\ conn[worker[m].session] # "none"
       BY WorkerKnows, Zenon DEF IInv, UnopenedUnknown, bind_session
  <1>1. UnopenedUnknown'
       BY DEF IInv, UnopenedUnknown, bind_session
  <1>2. BindingHolds'
       BY DEF IInv, BindingHolds, bind_session
  <1>3. TokenKept'
       BY TokensTyped, Zenon DEF IInv, TokenKept, bind_session
  <1>4. RegisteredIsOnline'
       BY WorkerTyped DEF IInv, RegisteredIsOnline, bind_session
  <1>5. ClosingIsClosed' /\ RoutedIsBound' /\ RoutesAgree' /\ NewestSessionKeepsRoute'
       BY Zenon DEF IInv, ClosingIsClosed, RoutedIsBound, RoutesAgree, NewestSessionKeepsRoute,
          bind_session
  <1> QED BY <1>1, <1>2, <1>3, <1>4, <1>5, Zenon DEF IInv

\* So does on_register.
LEMMA InvOnRegister ==
    ASSUME TypeOK, IInv, NEW m \in Agent, on_register(m)
    PROVE  IInv'
  <1>0. worker[m].session \in Session /\ conn[worker[m].session] # "none"
       BY WorkerKnows, Zenon DEF IInv, UnopenedUnknown, on_register
  <1>1. UnopenedUnknown'
       BY DEF IInv, UnopenedUnknown, on_register, SetOnline
  <1>2. BindingHolds'
       BY DEF IInv, BindingHolds, on_register
  <1>3. RegisteredIsOnline'
       BY StatesTyped DEF IInv, RegisteredIsOnline, on_register, SetOnline
  <1>4. ClosingIsClosed' /\ RoutedIsBound' /\ TokenKept' /\ RoutesAgree' /\
          NewestSessionKeepsRoute'
       BY Zenon DEF IInv, ClosingIsClosed, RoutedIsBound, TokenKept, RoutesAgree,
          NewestSessionKeepsRoute, on_register, SetOnline
  <1> QED BY <1>1, <1>2, <1>3, <1>4, Zenon DEF IInv

\* So does bind_agent, which takes the agent from the session that had it.
LEMMA InvBindAgent ==
    ASSUME TypeOK, IInv, NEW m \in Agent, bind_agent(m)
    PROVE  IInv'
  <1>0. worker[m].session \in Session /\ conn[worker[m].session] # "none"
       BY WorkerKnows, Zenon DEF IInv, UnopenedUnknown, bind_agent
  <1>1. UnopenedUnknown'
       BY SessionsAssumption, RoutesTyped DEF IInv, UnopenedUnknown, bind_agent, Rebound
  <1>2. BindingHolds'
       BY DEF IInv, BindingHolds, bind_agent
  <1>3. RoutedIsBound'
    <2> SUFFICES ASSUME NEW t \in Session, conn[t] = "open", by_session'[t] \in Agent
                 PROVE  session_agents[t] = by_session'[t]
         BY Zenon DEF RoutedIsBound, bind_agent
    <2>1. CASE by_session'[t] = by_session[t] BY <2>1, Zenon DEF IInv, RoutedIsBound
    <2>2. CASE by_session'[t] # by_session[t]
      <3>1. t = worker[m].session /\ by_session'[t] = m
           BY <2>2, SessionsAssumption, Zenon DEF bind_agent, Rebound
      <3> QED BY <3>1, WorkerKnows, Zenon DEF IInv, BindingHolds, bind_agent
    <2> QED BY <2>1, <2>2, Zenon
  <1>4. RoutesAgree'
    <2>1. CASE by_session[worker[m].session] = NoEntry BY <2>1, Zenon DEF IInv, bind_agent,
                                                          RoutesAgree
    <2>2. CASE by_session[worker[m].session] # NoEntry
      <3> DEFINE s == worker[m].session
      <3>1. by_session' = Rebound(s, m) BY <2>2, Zenon DEF bind_agent
      <3>2. by_agent' = [a \in Agent |-> IF a = m THEN s
                                        ELSE IF a = by_session[s] THEN NoSession ELSE by_agent[a]]
           BY <2>2, Zenon DEF bind_agent
      <3> HIDE DEF s
      <3>3. s \in Session BY <1>0, Zenon DEF s
      <3>4. ASSUME NEW a \in Agent, by_agent'[a] # NoSession PROVE by_session'[by_agent'[a]] = a
           BY <3>1, <3>2, <3>3, <3>4, RoutesTyped, Zenon DEF IInv, Rebound, RoutesAgree
      <3>5. ASSUME NEW t \in Session, by_session'[t] \in Agent PROVE by_agent'[by_session'[t]] = t
           BY <3>1, <3>2, <3>3, <3>5, SessionsAssumption, Zenon DEF IInv, Rebound, RoutesAgree
      <3> QED BY <3>4, <3>5, Zenon DEF RoutesAgree
    <2> QED BY <2>1, <2>2, Zenon
  <1>5. NewestSessionKeepsRoute'
    <2> SUFFICES ASSUME NEW a \in Agent, bound'[a] # NoSession, conn[bound'[a]] = "open"
                 PROVE  by_agent'[a] = bound'[a]
         BY Zenon DEF NewestSessionKeepsRoute, bind_agent
    <2>1. CASE a = m \/ by_session[worker[m].session] = NoEntry
         BY <2>1, RoutesTyped, Zenon DEF IInv, NewestSessionKeepsRoute, bind_agent
    <2>2. CASE a # m /\ by_session[worker[m].session] # NoEntry
      <3>1. bound'[a] = bound[a] /\ by_agent[a] = bound[a]
           BY <2>2, RoutesTyped, Zenon DEF IInv, NewestSessionKeepsRoute, bind_agent
      <3>2. CASE a = by_session[worker[m].session]
           BY <1>0, <2>2, <3>1, TokensTyped DEF IInv, RoutesAgree, RoutedIsBound, BindingHolds,
              bind_agent
      <3>3. CASE a # by_session[worker[m].session]
           BY <2>2, <3>1, <3>3, Zenon DEF bind_agent
      <3> QED BY <3>2, <3>3, Zenon
    <2> QED BY <2>1, <2>2, Zenon
  <1>6. RegisteredIsOnline'
       BY DEF IInv, RegisteredIsOnline, bind_agent
  <1>7. ClosingIsClosed' /\ TokenKept'
       BY Zenon DEF IInv, ClosingIsClosed, TokenKept, bind_agent
  <1> QED BY <1>1, <1>2, <1>3, <1>4, <1>5, <1>6, <1>7, Zenon DEF IInv

\* So does the second check of a heartbeat.
LEMMA InvStrict ==
    ASSUME TypeOK, IInv, NEW m \in Agent, ensure_strict_action_session_binding(m)
    PROVE  IInv'
  <1>0. worker[m].session \in Session /\ conn[worker[m].session] # "none"
       BY WorkerKnows, Zenon DEF IInv, UnopenedUnknown, ensure_strict_action_session_binding
  <1>1. UnopenedUnknown'
    <2>1. \A n \in Agent : worker'[n].session \in {worker[n].session, NoSession}
         BY WorkerTyped DEF ensure_strict_action_session_binding
    <2>2. UNCHANGED <<conn, session_agents, by_session, bound, registered, inbox>>
         BY Zenon DEF ensure_strict_action_session_binding
    <2> QED BY <2>1, <2>2, SessionsAssumption DEF IInv, UnopenedUnknown
  <1>2. BindingHolds'
    <2>1. ASSUME NEW n \in Agent
          PROVE  \/ worker'[n] = worker[n] \/ worker'[n].pc = "idle"
                 \/ /\ n = m /\ worker'[n].session = worker[m].session
                    /\ session_agents[worker[m].session] = m
      <3>1. CASE n # m BY <3>1, WorkerTyped, Zenon DEF ensure_strict_action_session_binding
      <3>2. CASE n = m BY <3>2, WorkerTyped DEF ensure_strict_action_session_binding
      <3> QED BY <3>1, <3>2, Zenon
    <2>2. UNCHANGED <<conn, session_agents>> BY Zenon DEF ensure_strict_action_session_binding
    <2> QED BY <2>1, <2>2, Zenon DEF IInv, BindingHolds
  <1>3. RegisteredIsOnline'
       BY WorkerTyped, Zenon DEF IInv, RegisteredIsOnline, ensure_strict_action_session_binding
  <1>4. ClosingIsClosed' /\ RoutedIsBound' /\ TokenKept' /\ RoutesAgree' /\
          NewestSessionKeepsRoute'
       BY Zenon DEF IInv, ClosingIsClosed, RoutedIsBound, TokenKept, RoutesAgree,
          NewestSessionKeepsRoute, ensure_strict_action_session_binding
  <1> QED BY <1>1, <1>2, <1>3, <1>4, Zenon DEF IInv

\* So does on_heartbeat.
LEMMA InvOnHeartbeat ==
    ASSUME TypeOK, IInv, NEW m \in Agent, on_heartbeat(m)
    PROVE  IInv'
  <1>0. worker[m].session \in Session /\ conn[worker[m].session] # "none"
       BY WorkerKnows, Zenon DEF IInv, UnopenedUnknown, on_heartbeat
  <1>1. UnopenedUnknown'
       BY SessionsAssumption DEF IInv, UnopenedUnknown, on_heartbeat, SetOnline
  <1>2. BindingHolds'
       BY DEF IInv, BindingHolds, on_heartbeat
  <1>3. RegisteredIsOnline'
    <2>1. \A n \in Agent : worker[n].pc = "on_register" => worker'[n].pc = "on_register"
         BY WorkerTyped, Zenon DEF on_heartbeat
    <2>2. \A n \in Agent : states[n] = "online" => states'[n] = "online"
         BY StatesTyped, Zenon DEF on_heartbeat, SetOnline
    <2>3. UNCHANGED <<conn, registered>> BY Zenon DEF on_heartbeat, SetOnline
    <2> QED BY <2>1, <2>2, <2>3, Zenon DEF IInv, RegisteredIsOnline
  <1>4. ClosingIsClosed' /\ RoutedIsBound' /\ TokenKept' /\ RoutesAgree' /\
          NewestSessionKeepsRoute'
       BY Zenon DEF IInv, ClosingIsClosed, RoutedIsBound, TokenKept, RoutesAgree,
          NewestSessionKeepsRoute, on_heartbeat, SetOnline
  <1> QED BY <1>1, <1>2, <1>3, <1>4, Zenon DEF IInv

\* So does a restart: no session survives it.
LEMMA InvRestart ==
    ASSUME TypeOK, IInv, Restart
    PROVE  IInv'
  <1>1. UnopenedUnknown'
    <2>1. \A n \in Agent : bound'[n] = NoSession /\ registered'[n] = NoSession BY Zenon
                                                                                  DEF Restart
    <2>2. \A n \in Agent : worker'[n].session = NoSession /\ inbox'[n] = <<>> BY Zenon
                                                                                 DEF Restart
    <2>3. \A s \in Session : session_agents'[s] = NoEntry /\ by_session'[s] = NoEntry
         BY Zenon DEF Restart
    <2> QED BY <2>1, <2>2, <2>3, SessionsAssumption DEF UnopenedUnknown
  <1>2. ClosingIsClosed'
       BY ConnTyped, Zenon DEF IInv, ClosingIsClosed, Restart
  <1>3. BindingHolds'
       BY Zenon DEF BindingHolds, Restart
  <1>4. RoutedIsBound'
       BY Zenon DEF RoutedIsBound, Restart
  <1>5. TokenKept'
       BY Zenon DEF TokenKept, Restart
  <1>6. RoutesAgree'
       BY SessionsAssumption, Zenon DEF RoutesAgree, Restart
  <1>7. NewestSessionKeepsRoute'
       BY Zenon DEF NewestSessionKeepsRoute, Restart
  <1>8. RegisteredIsOnline'
       BY Zenon DEF RegisteredIsOnline, Restart
  <1> QED BY <1>1, <1>2, <1>3, <1>4, <1>5, <1>6, <1>7, <1>8, Zenon DEF IInv

\* Every step preserves it.
LEMMA InvStep == TypeOK /\ IInv /\ [Next]_vars => IInv'
  <1> SUFFICES ASSUME TypeOK, IInv, [Next]_vars PROVE IInv' BY Zenon
  <1>1. CASE Next
       BY <1>1, NextCases, InvOpen, InvPeerCloses, InvClose, InvDisconnect, InvUnbind,
          InvMessage, InvHandleRegister, InvHandleHeartbeat, InvBindSession,
          InvOnRegister, InvBindAgent, InvStrict, InvOnHeartbeat, InvRestart, Zenon
  <1>2. CASE UNCHANGED vars
    <2>1. /\ UnopenedUnknown' /\ ClosingIsClosed' /\ BindingHolds' /\ RoutedIsBound'
         BY <1>2 DEF vars, IInv, UnopenedUnknown, ClosingIsClosed, BindingHolds, RoutedIsBound
    <2>2. /\ TokenKept' /\ RoutesAgree' /\ NewestSessionKeepsRoute' /\ RegisteredIsOnline'
         BY <1>2, Zenon DEF vars, IInv, TokenKept, RoutesAgree, NewestSessionKeepsRoute,
            RegisteredIsOnline
    <2> QED BY <2>1, <2>2, Zenon DEF IInv
  <1> QED BY <1>1, <1>2, Zenon

\* The invariant the three results below are read off.
THEOREM Inductive == Spec => []IInv
  <1>1. TypeOK /\ IInv /\ [Next]_vars => IInv' BY InvStep, Zenon
  <1> QED BY <1>1, InvInit, TypeCorrect, PTL DEF Spec

\* by_agent_ and by_session_ of AgentSessionRegistry are inverse to each other
\* whatever registrations, closes and restarts overlap.
THEOREM RoutesAgreeHolds == Spec => []RoutesAgree
  <1>1. IInv => RoutesAgree BY Zenon DEF IInv
  <1> QED BY <1>1, Inductive, PTL

\* The late close of an older session never takes away the route of the session
\* that was bound last.
THEOREM NewestSessionKeepsRouteHolds == Spec => []NewestSessionKeepsRoute
  <1>1. IInv => NewestSessionKeepsRoute BY Zenon DEF IInv
  <1> QED BY <1>1, Inductive, PTL

\* The late close of an older session never marks an agent offline whose last
\* registered session is connected.
THEOREM RegisteredIsOnlineHolds == Spec => []RegisteredIsOnline
  <1>1. IInv => RegisteredIsOnline BY Zenon DEF IInv
  <1> QED BY <1>1, Inductive, PTL

-----------------------------------------------------------------------------
(* Who is still shown online *)

\* The close of s will tell the registry that m is gone.
Answers(s, m) == \/ (conn[s] = "open" \/ closing[s].pc = "close") /\ session_agents[s] = m
                 \/ closing[s] = Close("disconnect", m)

\* The registry's token is the one of the registration under way, if there is one.
PendingToken ==
    \A m \in Agent : worker[m].pc = "on_register" => sessions[m] \in {worker[m].session, NoSession}

\* The session of a token the registry keeps answers for its agent.
TokenAnswers ==
    \A m \in Agent :
        sessions[m] # NoSession /\ m \notin stale /\ worker[m].pc # "on_register"
            => states[m] # "unknown" /\ Answers(sessions[m], m)

\* Some session answers for an agent that is online without a token.
OnlineAnswers ==
    \A m \in Agent :
        states[m] = "online" /\ m \notin stale /\ sessions[m] = NoSession
            => \E s \in Session : Answers(s, m)

AnswersInv == PendingToken /\ TokenAnswers /\ OnlineAnswers

\* It holds when the service starts.
LEMMA AnswersInit == Init => AnswersInv
  BY Zenon DEF Init, AnswersInv, PendingToken, TokenAnswers, OnlineAnswers

\* A step that leaves registry and workers alone needs to keep the answers only.
LEMMA AnswersKept ==
    ASSUME AnswersInv, UNCHANGED <<sessions, states, stale, worker>>,
           \A s \in Session, m \in Agent : Answers(s, m) => Answers(s, m)', TypeOK
    PROVE  AnswersInv'
  <1>1. PendingToken' BY Zenon DEF AnswersInv, PendingToken
  <1>2. TokenAnswers' BY TokensTyped, Zenon DEF AnswersInv, TokenAnswers
  <1>3. OnlineAnswers' BY Zenon DEF AnswersInv, OnlineAnswers
  <1> QED BY <1>1, <1>2, <1>3, Zenon DEF AnswersInv

\* The steps of the I/O thread other than on_disconnect are of that kind.
LEMMA AnswersIo ==
    ASSUME TypeOK, IInv, AnswersInv, NEW s \in Session,
           on_agent_open(s) \/ PeerCloses(s) \/ on_close(s) \/ unbind_session(s)
    PROVE  AnswersInv'
  <1>1. UNCHANGED <<sessions, states, stale, worker>>
       BY Zenon DEF on_agent_open, PeerCloses, on_close, unbind_session
  <1>2. ASSUME NEW t \in Session, NEW m \in Agent, Answers(t, m) PROVE Answers(t, m)'
    <2>1. CASE t # s
      <3>1. conn'[t] = conn[t]
           BY <2>1, ConnTyped, Zenon DEF on_agent_open, PeerCloses, on_close, unbind_session
      <3>2. closing'[t] = closing[t]
           BY <2>1, ClosingTyped, Zenon DEF on_agent_open, PeerCloses, on_close, unbind_session
      <3>3. session_agents'[t] = session_agents[t]
           BY <2>1, TablesTyped, Zenon DEF on_agent_open, PeerCloses, on_close, unbind_session
      <3> QED BY <1>2, <3>1, <3>2, <3>3, Zenon DEF Answers
    <2>2. CASE t = s /\ on_agent_open(s)
         BY <1>2, <2>2, SessionsAssumption, Zenon DEF Answers, on_agent_open, IInv,
            UnopenedUnknown, ClosingIsClosed
    <2>3. CASE t = s /\ PeerCloses(s)
      <3>1. closing[s].pc = "no" BY <2>3, ClosingTyped, Zenon DEF PeerCloses, IInv,
                                    ClosingIsClosed
      <3>2. closing'[s] = Close("close", NoAgent) /\ session_agents' = session_agents
           BY <2>3, ClosingTyped, Zenon DEF PeerCloses
      <3> QED BY <1>2, <2>3, <3>1, <3>2 DEF Answers
    <2>4. CASE t = s /\ on_close(s)
      <3>1. session_agents[s] = m BY <1>2, <2>4 DEF Answers, on_close
      <3>2. closing'[s] = Close("disconnect", m) BY <2>4, <3>1, ClosingTyped, Zenon
                                                    DEF on_close,
                                                    NextOfClose
      <3> QED BY <2>4, <3>2, Zenon DEF Answers
    <2>5. CASE t = s /\ unbind_session(s)
         BY <1>2, <2>5 DEF Answers, unbind_session, IInv, ClosingIsClosed
    <2> QED BY <2>1, <2>2, <2>3, <2>4, <2>5, Zenon
  <1> QED BY <1>1, <1>2, AnswersKept, Zenon

\* on_disconnect takes an answer away only with the state or the token it stands for.
LEMMA AnswersDisconnect ==
    ASSUME TypeOK, IInv, AnswersInv, NEW s \in Session, on_disconnect(s) PROVE AnswersInv'
  <1> DEFINE m == closing[s].agent
  <1>1. m \in Agent /\ conn[s] = "closed" /\ closing[s].pc = "disconnect"
       BY ClosingTyped, Zenon DEF on_disconnect, IInv, ClosingIsClosed
  <1>2. UNCHANGED <<conn, session_agents, stale, worker>> BY Zenon DEF on_disconnect
  <1>3. \A t \in Session : t # s => closing'[t] = closing[t] BY DEF on_disconnect
  <1>4. \A t \in Session, n \in Agent : Answers(t, n) => (t = s /\ n = m) \/ Answers(t, n)'
       BY <1>1, <1>2, <1>3 DEF Answers
  <1>5. \/ MayDisconnect(m, s) /\ sessions'[m] = NoSession /\ states'[m] = "offline"
        \/ ~MayDisconnect(m, s) /\ sessions'[m] = sessions[m] /\ states'[m] = states[m]
       BY <1>1, TokensTyped, StatesTyped, Zenon DEF on_disconnect
  <1>6. \A n \in Agent : n # m => sessions'[n] = sessions[n] /\ states'[n] = states[n]
       BY TokensTyped, StatesTyped, Zenon DEF on_disconnect
  <1> HIDE DEF m
  <1>7. PendingToken'
    <2>1. \A n \in Agent : sessions'[n] \in {sessions[n], NoSession} BY <1>5, <1>6, Zenon
    <2> QED BY <1>2, <2>1, Zenon DEF AnswersInv, PendingToken
  <1>8. ASSUME NEW n \in Agent, sessions'[n] # NoSession, n \notin stale, worker[n].pc # "on_register"
        PROVE  states'[n] # "unknown" /\ Answers(sessions[n], n)'
    <2>1. sessions'[n] = sessions[n] /\ states'[n] = states[n] BY <1>5, <1>6, <1>8, Zenon
    <2>2. states[n] # "unknown" /\ Answers(sessions[n], n) /\ sessions[n] \in Session
         BY <1>8, <2>1, TokensTyped, Zenon DEF AnswersInv, TokenAnswers
    <2>3. ~(sessions[n] = s /\ n = m) BY <1>5, <1>8, <2>1, <2>2, Zenon DEF MayDisconnect
    <2> QED BY <1>4, <2>1, <2>2, <2>3 DEF Answers
  <1>9. ASSUME NEW n \in Agent, states'[n] = "online", n \notin stale, sessions'[n] = NoSession
        PROVE  \E t \in Session : Answers(t, n)'
    <2>1. n # m /\ sessions[n] = NoSession /\ states[n] = "online"
         BY <1>5, <1>6, <1>9, Zenon DEF MayDisconnect
    <2> QED BY <1>4, <1>9, <2>1, Zenon DEF AnswersInv, OnlineAnswers
  <1> QED BY <1>2, <1>7, <1>8, <1>9, Zenon DEF AnswersInv, TokenAnswers, OnlineAnswers

\* So do a frame's arrival and its first step: the entry a registration takes is no agent's.
LEMMA AnswersTake ==
    ASSUME TypeOK, IInv, AnswersInv, NEW m \in Agent, handle_register(m) \/ handle_heartbeat(m)
    PROVE  AnswersInv'
  <1>0. inbox[m] # <<>> /\ Head(inbox[m]).session \in Session
       BY InboxTakes, Zenon DEF handle_register, handle_heartbeat
  <1>1. UNCHANGED <<conn, closing, sessions, states, stale>> BY Zenon DEF handle_register,
                                                                handle_heartbeat
  <1>2. \A t \in Session : session_agents[t] \in Agent => session_agents'[t] = session_agents[t]
       BY <1>0, TablesTyped, Zenon DEF handle_register, handle_heartbeat
  <1>3. \A t \in Session, n \in Agent : Answers(t, n) => Answers(t, n)' BY <1>1, <1>2, Zenon
                                                                           DEF Answers
  <1>4. \A n \in Agent : \/ worker[n].pc # "on_register" /\ worker'[n].pc # "on_register"
                         \/ worker'[n] = worker[n]
       BY <1>0, WorkerTyped DEF handle_register, handle_heartbeat
  <1>5. PendingToken' BY <1>1, <1>4, Zenon DEF AnswersInv, PendingToken
  <1>6. TokenAnswers' BY <1>1, <1>3, <1>4, TokensTyped, Zenon DEF AnswersInv, TokenAnswers
  <1>7. OnlineAnswers' BY <1>1, <1>3, Zenon DEF AnswersInv, OnlineAnswers
  <1> QED BY <1>5, <1>6, <1>7, Zenon DEF AnswersInv

\* So does bind_session, whose token on_register still has to make good.
LEMMA AnswersBindSession ==
    ASSUME TypeOK, IInv, AnswersInv, NEW m \in Agent, bind_session(m) PROVE AnswersInv'
  <1>0. worker[m].session \in Session BY WorkerKnows, Zenon DEF bind_session
  <1>1. UNCHANGED <<conn, closing, session_agents, states, stale>> BY Zenon DEF bind_session
  <1>2. \A t \in Session, n \in Agent : Answers(t, n) => Answers(t, n)' BY <1>1, Zenon
                                                                           DEF Answers
  <1>3. worker'[m] = Task("on_register", worker[m].session) /\ sessions'[m] = worker[m].session
       BY WorkerTyped, TokensTyped, Zenon DEF bind_session
  <1>4. \A n \in Agent : n # m => worker'[n] = worker[n] /\ sessions'[n] = sessions[n]
       BY WorkerTyped, TokensTyped, Zenon DEF bind_session
  <1>5. PendingToken' BY <1>3, <1>4 DEF AnswersInv, PendingToken
  <1>6. TokenAnswers' BY <1>1, <1>2, <1>3, <1>4, TokensTyped DEF AnswersInv, TokenAnswers
  <1>7. OnlineAnswers'
       BY <1>0, <1>1, <1>2, <1>3, <1>4, SessionsAssumption, Zenon DEF AnswersInv, OnlineAnswers
  <1> QED BY <1>5, <1>6, <1>7, Zenon DEF AnswersInv

\* So do on_register and on_heartbeat: the session either is connected and holds
\* its entry, or its frame comes too late.
LEMMA AnswersSetOnline ==
    ASSUME TypeOK, IInv, AnswersInv, NEW m \in Agent, on_register(m) \/ on_heartbeat(m)
    PROVE  AnswersInv'
  <1> DEFINE s == worker[m].session
  <1>0. s \in Session /\ conn[s] \in {"open", "closed"}
       BY WorkerKnows, ConnTyped DEF on_register, on_heartbeat, IInv, UnopenedUnknown
  <1>1. UNCHANGED <<conn, closing, session_agents, sessions>>
       BY Zenon DEF on_register, on_heartbeat, SetOnline
  <1>2. \A t \in Session, n \in Agent : Answers(t, n) => Answers(t, n)' BY <1>1, Zenon
                                                                           DEF Answers
  <1>3. worker'[m].pc # "on_register" /\ \A n \in Agent : n # m => worker'[n] = worker[n]
       BY WorkerTyped DEF on_register, on_heartbeat
  <1>4. states'[m] = "online" /\ \A n \in Agent : n # m => states'[n] = states[n]
       BY StatesTyped, Zenon DEF on_register, on_heartbeat, SetOnline
  <1>5. stale \subseteq stale' /\ (conn[s] = "closed" => m \in stale')
       BY Zenon DEF on_register, on_heartbeat, SetOnline
  <1>6. conn[s] = "open" => session_agents[s] = m
       BY Zenon DEF on_register, on_heartbeat, IInv, BindingHolds
  <1>7. worker[m].pc = "on_register" => sessions[m] \in {s, NoSession}
       BY Zenon DEF AnswersInv, PendingToken
  <1> HIDE DEF s
  <1>8. m \in stale' \/ Answers(s, m) BY <1>0, <1>5, <1>6, Zenon DEF Answers
  <1>9. PendingToken' BY <1>1, <1>3, Zenon DEF AnswersInv, PendingToken
  <1>10. ASSUME NEW n \in Agent, sessions[n] # NoSession, n \notin stale', worker'[n].pc # "on_register"
         PROVE  states'[n] # "unknown" /\ Answers(sessions[n], n)
    <2>1. CASE n # m BY <1>3, <1>4, <1>5, <1>10, <2>1, Zenon DEF AnswersInv, TokenAnswers
    <2>2. CASE n = m /\ worker[m].pc = "on_register" BY <1>4, <1>7, <1>8, <1>10, <2>2, Zenon
    <2>3. CASE n = m /\ worker[m].pc # "on_register"
         BY <1>4, <1>5, <1>10, <2>3, Zenon DEF AnswersInv, TokenAnswers
    <2> QED BY <2>1, <2>2, <2>3, Zenon
  <1>11. TokenAnswers' BY <1>1, <1>2, <1>10, TokensTyped, Zenon DEF TokenAnswers
  <1>12. OnlineAnswers'
       BY <1>0, <1>1, <1>2, <1>4, <1>5, <1>8, Zenon DEF AnswersInv, OnlineAnswers
  <1> QED BY <1>9, <1>11, <1>12, Zenon DEF AnswersInv

\* So do the steps of a worker that touch neither the registry nor session_agents_.
LEMMA AnswersOther ==
    ASSUME TypeOK, IInv, AnswersInv, NEW m \in Agent,
           bind_agent(m) \/ ensure_strict_action_session_binding(m)
    PROVE  AnswersInv'
  <1>1. UNCHANGED <<conn, closing, session_agents, sessions, states, stale>>
       BY Zenon DEF bind_agent, ensure_strict_action_session_binding
  <1>2. \A t \in Session, n \in Agent : Answers(t, n) => Answers(t, n)' BY <1>1, Zenon
                                                                           DEF Answers
  <1>3. \A n \in Agent : \/ worker[n].pc # "on_register" /\ worker'[n].pc # "on_register"
                         \/ worker'[n] = worker[n]
       BY WorkerTyped DEF bind_agent, ensure_strict_action_session_binding
  <1>4. PendingToken' BY <1>1, <1>3, Zenon DEF AnswersInv, PendingToken
  <1>5. TokenAnswers' BY <1>1, <1>2, <1>3, TokensTyped, Zenon DEF AnswersInv, TokenAnswers
  <1>6. OnlineAnswers' BY <1>1, <1>2, Zenon DEF AnswersInv, OnlineAnswers
  <1> QED BY <1>4, <1>5, <1>6, Zenon DEF AnswersInv

\* Every step preserves it.
LEMMA AnswersStep == TypeOK /\ IInv /\ AnswersInv /\ [Next]_vars => AnswersInv'
  <1> SUFFICES ASSUME TypeOK, IInv, AnswersInv, [Next]_vars PROVE AnswersInv' BY Zenon
  <1>1. ASSUME NEW s \in Session, NEW m \in Agent, NEW k \in {"register", "heartbeat"},
               on_agent_message(s, m, k)
        PROVE  AnswersInv'
    <2>1. UNCHANGED <<conn, closing, session_agents, sessions, states, stale, worker>>
         BY <1>1, Zenon DEF on_agent_message
    <2> QED BY <2>1, AnswersKept, Zenon DEF Answers
  <1>2. CASE Restart
    <2>1. \A n \in Agent : sessions'[n] = NoSession /\ worker'[n].pc = "idle" BY <1>2, Zenon
                                                                                 DEF Restart
    <2>2. \A n \in Agent : states'[n] = "online" => n \in stale' BY <1>2, Zenon DEF Restart
    <2> QED BY <2>1, <2>2, Zenon DEF AnswersInv, PendingToken, TokenAnswers, OnlineAnswers
  <1>3. CASE UNCHANGED vars
    <2>1. UNCHANGED <<conn, closing, session_agents, sessions, states, stale, worker>>
         BY <1>3, Zenon DEF vars
    <2> QED BY <2>1, AnswersKept, Zenon DEF Answers
  <1>4. CASE Next
       BY <1>1, <1>2, <1>4, NextCases, AnswersIo, AnswersDisconnect, AnswersTake,
          AnswersBindSession, AnswersSetOnline, AnswersOther, Zenon
  <1> QED BY <1>3, <1>4, Zenon

\* Once nothing of an agent is connected or under way, its close has told the
\* registry: it is shown offline, unless a frame of it was handled after its
\* session had closed or a boot could not mark it.
THEOREM OnlyLateFramesStayOnlineHolds == Spec => []OnlyLateFramesStayOnline
  <1>1. TypeOK /\ AnswersInv => OnlyLateFramesStayOnline
    <2> SUFFICES ASSUME TypeOK, AnswersInv, NEW m \in Agent, Gone(m), states[m] = "online",
                        m \notin stale
                 PROVE  FALSE
         BY Zenon DEF OnlyLateFramesStayOnline
    <2>1. \A s \in Session : ~Answers(s, m) BY DEF Gone, Answers
    <2> QED BY <2>1, TokensTyped, Zenon DEF Gone, AnswersInv, TokenAnswers, OnlineAnswers
  <1> QED BY <1>1, AnswersInit, AnswersStep, Inductive, TypeCorrect, PTL DEF Spec

HIDE DEF Task, Close, routing, registry, Goto, Done

-----------------------------------------------------------------------------
(* The agent's queue: AgentChannel.                                        *)

USE DEF flags, writing, wire, bounds, Register, Heartbeat, Reply, NoMessage

\* The steps of Next, named once for the case splits below.
LEMMA ChannelCases ==
    ASSUME ChannelNext
    PROVE  \/ start_connect_loop \/ on_client_established \/ on_client_receive \/ KickConsumed
           \/ on_client_writeable \/ Pop \/ Write
           \/ on_client_connection_error \/ on_client_closed \/ WriteFails
           \/ RunTask \/ run_register_retry_loop \/ send_reply \/ send_heartbeat \/ ServerHandles
  BY Zenon DEF ChannelNext, ChannelThread

\* The channel starts empty and well typed.
LEMMA ChannelTypeInit == ChannelInit => ChannelTypeOK
  <1> SUFFICES ASSUME ChannelInit PROVE ChannelTypeOK BY Zenon
  <1>1. QueueType BY DEF ChannelInit, QueueType, Message
  <1>2. FlagType BY Zenon DEF ChannelInit, FlagType
  <1>3. LinkType BY Zenon DEF ChannelInit, LinkType
  <1>4. WireType /\ CountType BY DEF ChannelInit, WireType, CountType
  <1> QED BY <1>1, <1>2, <1>3, <1>4, Zenon DEF ChannelTypeOK

\* Registering puts one message in front and may drop the newest one.
LEMMA PushRegisterType ==
    ASSUME NEW q \in Seq(Message)
    PROVE  /\ PushRegister(q) \in Seq(Message)
           /\ Len(PushRegister(q)) <= (IF Len(q) >= MaxOutgoing THEN Len(q) ELSE Len(q) + 1)
  <1> USE ChannelAssumption
  <1>1. Register \in Message /\ <<Register>> \in Seq(Message) BY DEF Message
  <1>2. CASE Len(q) >= MaxOutgoing
    <2>1. Len(q) - 1 \in Nat BY <1>2
    <2>2. pop_back(q) \in Seq(Message) /\ Len(pop_back(q)) = Len(q) - 1 BY <2>1 DEF pop_back
    <2>3. PushRegister(q) = <<Register>> \o pop_back(q) BY <1>2, Zenon DEF PushRegister
    <2> QED BY <1>1, <1>2, <2>1, <2>2, <2>3
  <1>3. CASE ~(Len(q) >= MaxOutgoing) BY <1>1, <1>3 DEF PushRegister
  <1> QED BY <1>2, <1>3, Zenon

\* Putting a failed message back adds at most one.
LEMMA RequeueType ==
    ASSUME NEW m \in Message, NEW q \in Seq(Message)
    PROVE  Requeue(m, q) \in Seq(Message) /\ Len(Requeue(m, q)) <= Len(q) + 1
  BY DEF Requeue

\* Every step keeps the queue's type.
LEMMA QueueTypeStep == ASSUME ChannelTypeOK, ChannelNext PROVE QueueType'
  <1> USE DEF ChannelTypeOK, QueueType
  <1>1. CASE send_reply
    <2>1. Reply(replies + 1) \in Message BY DEF CountType, Message
    <2> QED BY <1>1, <2>1, SMTT(60) DEF send_reply, PushBack
  <1>2. CASE send_heartbeat BY <1>2, SMTT(60) DEF send_heartbeat, PushBack, Message
  <1>3. CASE RunTask BY <1>3, PushRegisterType, Zenon DEF RunTask, send_register
  <1>4. CASE Pop
    <2>1. CASE outgoing = <<>> BY <1>4, <2>1, Zenon DEF Pop, AfterPop
    <2>2. CASE outgoing # <<>>
      <3>1. Head(outgoing) \in Message /\ Tail(outgoing) \in Seq(Message) BY <2>2
      <3>2. NoMessage \notin Message BY Zenon DEF Message
      <3>3. io' = "write" /\ pending' = Head(outgoing) /\ outgoing' = Tail(outgoing)
           BY <1>4, <2>2, Zenon DEF Pop, AfterPop
      <3> QED BY <3>1, <3>2, <3>3, Zenon
    <2> QED BY <2>1, <2>2, Zenon
  <1>5. CASE Write BY <1>5, Zenon DEF Write
  <1>6. CASE WriteFails BY <1>6, RequeueType, Zenon DEF WriteFails, ConnectionLost
  <1>7. CASE on_client_closed BY <1>7, Zenon DEF on_client_closed, ConnectionLost
  <1>8. CASE on_client_writeable BY <1>8, Zenon DEF on_client_writeable
  <1>9. CASE \/ start_connect_loop \/ on_client_established \/ on_client_receive \/ KickConsumed
             \/ on_client_connection_error \/ run_register_retry_loop \/ ServerHandles
       BY <1>9, Zenon DEF start_connect_loop, on_client_established, on_client_receive,
          KickConsumed, on_client_connection_error, run_register_retry_loop,
          ServerHandles
  <1> QED BY ChannelCases, <1>1, <1>2, <1>3, <1>4, <1>5, <1>6, <1>7, <1>8, <1>9, Zenon

\* Every step keeps the flags Boolean.
LEMMA FlagTypeStep == ASSUME ChannelTypeOK, ChannelNext PROVE FlagType'
  <1> USE DEF ChannelTypeOK, FlagType
  <1>1. CASE send_reply \/ send_heartbeat \/ run_register_retry_loop
       BY <1>1, Zenon DEF send_reply, send_heartbeat, PushBack, run_register_retry_loop
  <1>2. CASE RunTask BY <1>2, Zenon DEF RunTask, send_register
  <1>3. CASE on_client_closed \/ WriteFails
       BY <1>3, Zenon DEF on_client_closed, WriteFails, ConnectionLost
  <1>4. CASE Write \/ Pop \/ on_client_writeable BY <1>4, Zenon DEF Write, Pop,
                                                    on_client_writeable
  <1>5. CASE start_connect_loop \/ on_client_established \/ on_client_connection_error
       BY <1>5, Zenon DEF start_connect_loop, on_client_established, on_client_connection_error
  <1>6. CASE on_client_receive \/ KickConsumed BY <1>6, Zenon DEF on_client_receive,
                                                  KickConsumed
  <1>7. CASE ServerHandles BY <1>7, Zenon DEF ServerHandles
  <1> QED BY ChannelCases, <1>1, <1>2, <1>3, <1>4, <1>5, <1>6, <1>7, Zenon

\* Every step keeps the channel's view of its link.
LEMMA LinkTypeStep == ASSUME ChannelTypeOK, ChannelNext PROVE LinkType'
  <1> USE DEF ChannelTypeOK, LinkType
  <1>1. CASE \/ send_reply \/ send_heartbeat \/ run_register_retry_loop \/ RunTask
             \/ on_client_receive \/ ServerHandles
    <2>1. UNCHANGED <<link, connected, io, writable>>
         BY <1>1, Zenon DEF send_reply, send_heartbeat, run_register_retry_loop, RunTask,
            on_client_receive, ServerHandles
    <2> QED BY <2>1, Zenon
  <1>7. CASE KickConsumed BY <1>7, Zenon DEF KickConsumed
  <1>2. CASE on_client_closed \/ WriteFails
       BY <1>2, Zenon DEF on_client_closed, WriteFails, ConnectionLost
  <1>3. CASE Write \/ Pop \/ on_client_writeable
    <2>1. UNCHANGED <<link, connected>> BY <1>3, Zenon DEF Write, Pop, on_client_writeable
    <2>2. link = "up" BY <1>3, Zenon DEF Write, Pop, on_client_writeable
    <2> QED BY <2>1, <2>2, Zenon
  <1>4. CASE start_connect_loop BY <1>4, Zenon DEF start_connect_loop
  <1>5. CASE on_client_established BY <1>5, Zenon DEF on_client_established
  <1>6. CASE on_client_connection_error BY <1>6, Zenon DEF on_client_connection_error
  <1> QED BY ChannelCases, <1>1, <1>2, <1>3, <1>4, <1>5, <1>6, <1>7, Zenon

\* Every step keeps the types of the frames on the wire.
LEMMA WireTypeStep == ASSUME ChannelTypeOK, ChannelNext PROVE WireType'
  <1> USE DEF ChannelTypeOK, WireType
  <1>1. CASE on_client_closed \/ WriteFails
    <2>1. uplink' = <<>> /\ downlink' = <<>>
         BY <1>1, Zenon DEF on_client_closed, WriteFails, ConnectionLost
    <2> QED BY <2>1
  <1>2. CASE Write BY <1>2 DEF Write, QueueType
  <1>3. CASE on_client_receive BY <1>3 DEF on_client_receive
  <1>4. CASE ServerHandles BY <1>4, SMTT(60) DEF ServerHandles
  <1>5. CASE \/ send_reply \/ send_heartbeat \/ run_register_retry_loop \/ RunTask \/ KickConsumed
             \/ Pop \/ on_client_writeable \/ start_connect_loop \/ on_client_established
             \/ on_client_connection_error
    <2>1. UNCHANGED <<uplink, downlink>>
         BY <1>5, Zenon DEF send_reply, send_heartbeat, run_register_retry_loop, RunTask,
            KickConsumed, Pop, on_client_writeable, start_connect_loop,
            on_client_established, on_client_connection_error
    <2> QED BY <2>1, Zenon
  <1> QED BY ChannelCases, <1>1, <1>2, <1>3, <1>4, <1>5, Zenon

\* A task that is posted is queued or refused.
LEMMA PostType ==
    ASSUME tasks \in Seq({"connected", "retry", "registered"}),
           NEW t \in {"connected", "retry", "registered"}, Post(t)
    PROVE  tasks' \in Seq({"connected", "retry", "registered"})
  BY DEF Post

\* Every step keeps the types of the tasks and counters.
LEMMA CountTypeStep == ASSUME ChannelTypeOK, ChannelNext PROVE CountType'
  <1> USE DEF ChannelTypeOK, CountType
  <1>1. CASE send_reply \/ send_heartbeat BY <1>1, SMTT(60) DEF send_reply, send_heartbeat
  <1>2. CASE run_register_retry_loop BY <1>2, PostType, Zenon DEF run_register_retry_loop
  <1>3. CASE RunTask BY <1>3 DEF RunTask
  <1>4. CASE on_client_closed \/ WriteFails
       BY <1>4 DEF on_client_closed, WriteFails, ConnectionLost
  <1>5. CASE Write BY <1>5, Zenon DEF Write, QueueType, Message
  <1>6. CASE on_client_established BY <1>6, PostType, Zenon DEF on_client_established
  <1>7. CASE on_client_receive
    <2>1. Head(downlink) \in {"registered"} BY <1>7 DEF on_client_receive, WireType
    <2> QED BY <1>7, <2>1, PostType, Zenon DEF on_client_receive
  <1>8. CASE \/ start_connect_loop \/ on_client_connection_error \/ KickConsumed
             \/ on_client_writeable \/ Pop \/ ServerHandles
       BY <1>8, SMTT(60), Zenon DEF start_connect_loop, on_client_connection_error,
          KickConsumed, on_client_writeable, Pop, ServerHandles
  <1> QED BY ChannelCases, <1>1, <1>2, <1>3, <1>4, <1>5, <1>6, <1>7, <1>8, Zenon

\* The channel is well typed in every reachable state: a message is in hand
\* exactly while on_client_writeable writes it, on an established connection.
THEOREM ChannelTypeCorrect == ChannelSpec => []ChannelTypeOK
  <1>1. ChannelTypeOK /\ [ChannelNext]_channelVars => ChannelTypeOK'
    <2>1. ASSUME ChannelTypeOK, ChannelNext PROVE ChannelTypeOK'
         BY <2>1, QueueTypeStep, FlagTypeStep, LinkTypeStep, WireTypeStep, CountTypeStep, Zenon
            DEF ChannelTypeOK
    <2>2. ASSUME ChannelTypeOK, UNCHANGED channelVars PROVE ChannelTypeOK'
         BY <2>2, Zenon DEF channelVars, ChannelTypeOK, QueueType, FlagType, LinkType, WireType,
            CountType
    <2> QED BY <2>1, <2>2, Zenon
  <1> QED BY <1>1, ChannelTypeInit, PTL DEF ChannelSpec

-----------------------------------------------------------------------------
\* OutgoingBounded in the form that is inductive: the message in hand counts.
InHand == IF io = "write" THEN 1 ELSE 0
Bounded == Len(outgoing) + InHand <= MaxOutgoing + 1

\* Every step preserves it: a send needs room below the limit, a register
\* message makes its own room, and only the message in hand is put back.
LEMMA BoundedStep == ASSUME ChannelTypeOK, Bounded, ChannelNext PROVE Bounded'
  <1> USE ChannelAssumption DEF ChannelTypeOK, QueueType, Bounded, InHand
  <1>1. CASE send_reply \/ send_heartbeat BY <1>1 DEF send_reply, send_heartbeat, PushBack
  <1>2. CASE RunTask
    <2>1. CASE send_register
      <3>1. outgoing' = PushRegister(outgoing) /\ io' = io BY <1>2, <2>1, Zenon DEF RunTask,
                                                              send_register
      <3> QED BY <3>1, PushRegisterType, SMTT(60)
    <2>2. CASE UNCHANGED outgoing BY <1>2, <2>2, Zenon DEF RunTask
    <2> QED BY <1>2, <2>1, <2>2, Zenon DEF RunTask
  <1>3. CASE Pop BY <1>3 DEF Pop, AfterPop
  <1>4. CASE Write BY <1>4 DEF Write
  <1>5. CASE WriteFails
    <2>1. pending \in Message /\ io = "write" BY <1>5, Zenon DEF WriteFails
    <2>2. outgoing' = Requeue(pending, outgoing) /\ io' = "idle"
         BY <1>5, Zenon DEF WriteFails, ConnectionLost
    <2> QED BY <2>1, <2>2, RequeueType
  <1>6. CASE on_client_closed BY <1>6, Zenon DEF on_client_closed, ConnectionLost
  <1>7. CASE on_client_writeable BY <1>7, Zenon DEF on_client_writeable
  <1>8. CASE \/ start_connect_loop \/ on_client_established \/ on_client_receive \/ KickConsumed
             \/ on_client_connection_error \/ run_register_retry_loop \/ ServerHandles
    <2>1. UNCHANGED <<outgoing, io>>
         BY <1>8, Zenon DEF start_connect_loop, on_client_established, on_client_receive,
            KickConsumed, on_client_connection_error, run_register_retry_loop,
            ServerHandles
    <2> QED BY <2>1, Zenon
  <1> QED BY ChannelCases, <1>1, <1>2, <1>3, <1>4, <1>5, <1>6, <1>7, <1>8, Zenon

\* outgoing_messages_ and the message in hand are at most kMaxOutgoingQueue + 1
\* messages, however sends, writes and failed writes overlap.
THEOREM OutgoingBoundedHolds == ChannelSpec => []OutgoingBounded
  <1>1. ChannelInit => Bounded BY ChannelAssumption DEF ChannelInit, Bounded, InHand
  <1>2. ChannelTypeOK /\ Bounded /\ [ChannelNext]_channelVars => Bounded'
    <2>1. ASSUME ChannelTypeOK, Bounded, UNCHANGED channelVars PROVE Bounded'
         BY <2>1, Zenon DEF channelVars, Bounded, InHand
    <2> QED BY <2>1, BoundedStep, Zenon
  <1>3. ChannelTypeOK /\ Bounded => OutgoingBounded
       BY DEF ChannelTypeOK, QueueType, Bounded, InHand, OutgoingBounded, Held, Message
  <1> QED BY <1>1, <1>2, <1>3, ChannelTypeCorrect, PTL DEF ChannelSpec

-----------------------------------------------------------------------------
IsReply(m) == m.kind = "reply"

\* A queue whose replies are numbered upwards, above a and not above b.
Ordered(q, a, b) ==
    \A i \in 1..Len(q) : IsReply(q[i]) =>
        /\ a < q[i].no /\ q[i].no <= b
        /\ \A j \in 1..Len(q) : i < j /\ IsReply(q[j]) => q[i].no < q[j].no

\* The reply in hand, if there is one, comes before those in the queue.
Low == IF IsReply(pending) THEN pending.no ELSE written

\* RepliesInOrder in the form that is inductive: new replies have new numbers.
RepliesOrdered == /\ Ordered(outgoing, Low, replies)
                  /\ written <= replies
                  /\ IsReply(pending) => written < pending.no /\ pending.no <= replies

\* A message in front keeps the order if the others are ordered above it.
LEMMA OrderedFront ==
    ASSUME NEW q \in Seq(Message), NEW a \in Nat, NEW b \in Nat, NEW m \in Message,
           IsReply(m) => a < m.no /\ m.no <= b,
           Ordered(q, IF IsReply(m) THEN m.no ELSE a, b)
    PROVE  Ordered(<<m>> \o q, a, b)
  <1>1. /\ Len(<<m>> \o q) = Len(q) + 1 /\ (<<m>> \o q)[1] = m
        /\ \A i \in 2..(Len(q) + 1) : (<<m>> \o q)[i] = q[i - 1]
       OBVIOUS
  <1>2. /\ \A i \in 1..Len(q) : IsReply(q[i]) => q[i].no \in Nat
        /\ IsReply(m) => m.no \in Nat
       BY DEF IsReply, Message
  <1> DEFINE f == <<m>> \o q
  <1> HIDE DEF f
  <1>3. ASSUME NEW i \in 1..Len(f), IsReply(f[i]) PROVE a < f[i].no /\ f[i].no <= b
    <2>1. CASE i = 1 BY <1>1, <1>3, <2>1, Zenon DEF f
    <2>2. CASE i # 1
      <3>1. i - 1 \in 1..Len(q) /\ f[i] = q[i - 1] BY <1>1, <2>2 DEF f
      <3> QED BY <1>2, <1>3, <3>1, SMTT(60), Zenon DEF Ordered
    <2> QED BY <2>1, <2>2, Zenon
  <1>4. ASSUME NEW i \in 1..Len(f), NEW j \in 1..Len(f), i < j, IsReply(f[i]), IsReply(f[j])
        PROVE  f[i].no < f[j].no
    <2>1. j - 1 \in 1..Len(q) /\ f[j] = q[j - 1] BY <1>1, <1>4 DEF f
    <2>2. CASE i = 1 BY <1>1, <1>4, <2>1, <2>2, Zenon DEF f, Ordered
    <2>3. CASE i # 1
      <3>1. i - 1 \in 1..Len(q) /\ f[i] = q[i - 1] BY <1>1, <2>3 DEF f
      <3> QED BY <1>4, <2>1, <3>1 DEF Ordered
    <2> QED BY <2>2, <2>3, Zenon
  <1>5. Ordered(f, a, b) BY <1>3, <1>4, Zenon DEF Ordered
  <1> QED BY <1>5, Zenon DEF f

\* A register message in front, or one message less at the back, keeps the order.
LEMMA OrderedPushRegister ==
    ASSUME NEW q \in Seq(Message), NEW a \in Nat, NEW b \in Nat, Ordered(q, a, b)
    PROVE  Ordered(PushRegister(q), a, b)
  <1> USE ChannelAssumption
  <1> DEFINE r == IF Len(q) >= MaxOutgoing THEN pop_back(q) ELSE q
  <1>1. r \in Seq(Message) /\ Len(r) <= Len(q) /\ \A i \in 1..Len(r) : r[i] = q[i]
    <2>1. CASE Len(q) >= MaxOutgoing
      <3>1. Len(q) - 1 \in Nat BY <2>1
      <3> QED BY <2>1, <3>1, SMTT(60) DEF pop_back
    <2>2. CASE ~(Len(q) >= MaxOutgoing) BY <2>2
    <2> QED BY <2>1, <2>2, Zenon
  <1>2. PushRegister(q) = <<Register>> \o r BY Zenon DEF PushRegister
  <1> HIDE DEF r
  <1>3. Register \in Message /\ ~IsReply(Register) BY Zenon DEF Message, IsReply
  <1>4. Ordered(r, a, b) BY <1>1, SMTT(60) DEF Ordered
  <1> QED BY <1>1, <1>2, <1>3, <1>4, OrderedFront, Zenon

\* A message at the back keeps the order if its number, as a reply's, is new.
LEMMA OrderedAppend ==
    ASSUME NEW q \in Seq(Message), NEW a \in Nat, NEW b \in Nat, NEW c \in Nat, a <= b, b <= c,
           NEW m \in Message, Ordered(q, a, b), IsReply(m) => b < m.no /\ m.no <= c
    PROVE  Ordered(Append(q, m), a, c)
  <1>1. /\ Len(Append(q, m)) = Len(q) + 1 /\ Append(q, m)[Len(q) + 1] = m
        /\ \A i \in 1..Len(q) : Append(q, m)[i] = q[i]
       OBVIOUS
  <1>2. /\ \A i \in 1..Len(q) : IsReply(q[i]) => q[i].no \in Nat
        /\ IsReply(m) => m.no \in Nat
       BY DEF IsReply, Message
  <1> QED BY <1>1, <1>2 DEF Ordered

\* Taking the first message leaves the others ordered above it.
LEMMA OrderedTail ==
    ASSUME NEW q \in Seq(Message), q # <<>>, NEW a \in Nat, NEW b \in Nat, Ordered(q, a, b)
    PROVE  /\ Ordered(Tail(q), IF IsReply(Head(q)) THEN Head(q).no ELSE a, b)
           /\ IsReply(Head(q)) => a < Head(q).no /\ Head(q).no <= b
  <1>1. /\ Len(q) \in Nat \ {0} /\ Head(q) = q[1] /\ Len(Tail(q)) = Len(q) - 1
        /\ \A i \in 1..(Len(q) - 1) : Tail(q)[i] = q[i + 1]
       OBVIOUS
  <1> QED BY <1>1 DEF Ordered

\* Every step preserves the order.
LEMMA RepliesOrderedStep == ASSUME ChannelTypeOK, RepliesOrdered, ChannelNext PROVE RepliesOrdered'
  <1>0. /\ outgoing \in Seq(Message) /\ replies \in Nat /\ written \in Nat /\ Low \in Nat
        /\ Low <= replies
       BY DEF ChannelTypeOK, QueueType, CountType, Low, RepliesOrdered, IsReply, Message
  <1>1. CASE send_reply
    <2>1. /\ replies' = replies + 1 /\ UNCHANGED <<pending, written>>
          /\ outgoing' \in {outgoing, Append(outgoing, Reply(replies + 1))}
         BY <1>1, Zenon DEF send_reply, PushBack
    <2>2. Reply(replies + 1) \in Message /\ Reply(replies + 1).no = replies + 1
         BY <1>0 DEF Message
    <2>3. Low' = Low BY <2>1, Zenon DEF Low
    <2>4. Ordered(outgoing, Low, replies + 1)
         BY <1>0 DEF RepliesOrdered, Ordered, IsReply, Message
    <2>5. Ordered(Append(outgoing, Reply(replies + 1)), Low, replies + 1)
         BY <1>0, <2>2, OrderedAppend DEF RepliesOrdered
    <2>6. Ordered(outgoing', Low', replies') BY <2>1, <2>3, <2>4, <2>5, Zenon
    <2>7. IsReply(pending) => pending.no \in Nat BY DEF ChannelTypeOK, QueueType, Message, IsReply
    <2> QED BY <1>0, <2>1, <2>6, <2>7 DEF RepliesOrdered
  <1>2. CASE send_heartbeat
    <2>1. /\ UNCHANGED <<pending, written, replies>>
          /\ outgoing' \in {outgoing, Append(outgoing, Heartbeat)}
         BY <1>2, Zenon DEF send_heartbeat, PushBack
    <2>2. Heartbeat \in Message /\ ~IsReply(Heartbeat) BY Zenon DEF Message, IsReply
    <2>3. Ordered(Append(outgoing, Heartbeat), Low, replies)
         BY <1>0, <2>2, OrderedAppend DEF RepliesOrdered
    <2>4. Low' = Low BY <2>1, Zenon DEF Low
    <2> QED BY <2>1, <2>3, <2>4, Zenon DEF RepliesOrdered
  <1>3. CASE RunTask
    <2>1. /\ UNCHANGED <<pending, written, replies>>
          /\ outgoing' \in {outgoing, PushRegister(outgoing)}
         BY <1>3, Zenon DEF RunTask, send_register
    <2>2. Ordered(PushRegister(outgoing), Low, replies)
         BY <1>0, OrderedPushRegister, Zenon DEF RepliesOrdered
    <2>3. Low' = Low BY <2>1, Zenon DEF Low
    <2> QED BY <2>1, <2>2, <2>3, Zenon DEF RepliesOrdered
  <1>4. CASE Pop
    <2>0. pending = NoMessage /\ ~IsReply(pending)
         BY <1>4 DEF Pop, ChannelTypeOK, QueueType, IsReply
    <2>1. CASE outgoing = <<>> BY <1>4, <2>1, Zenon DEF Pop, RepliesOrdered, Low
    <2>2. CASE outgoing # <<>>
      <3>1. /\ pending' = Head(outgoing) /\ outgoing' = Tail(outgoing)
            /\ UNCHANGED <<written, replies>>
           BY <1>4, <2>2, Zenon DEF Pop
      <3>2. Low = written BY <2>0, Zenon DEF Low
      <3> QED BY <1>0, <2>2, <3>1, <3>2, OrderedTail, Zenon DEF RepliesOrdered, Low
    <2> QED BY <2>1, <2>2, Zenon
  <1>5. CASE Write
    <2>1. /\ UNCHANGED <<outgoing, replies>> /\ pending' = NoMessage
          /\ written' = IF IsReply(pending) THEN pending.no ELSE written
         BY <1>5, Zenon DEF Write, IsReply
    <2>2. Low' = Low /\ ~IsReply(pending') BY <2>1, Zenon DEF Low, IsReply
    <2> QED BY <1>0, <2>1, <2>2, Zenon DEF RepliesOrdered
  <1>6. CASE WriteFails
    <2>1. /\ outgoing' = Requeue(pending, outgoing) /\ pending' = NoMessage
          /\ UNCHANGED <<written, replies>> /\ pending \in Message
         BY <1>6, Zenon DEF WriteFails, ConnectionLost, ChannelTypeOK, QueueType
    <2>2. Low' = written /\ ~IsReply(pending') BY <2>1, Zenon DEF Low, IsReply
    <2>3. Ordered(<<pending>> \o outgoing, written, replies)
         BY <1>0, <2>1, OrderedFront, Zenon DEF RepliesOrdered, Low
    <2>4. CASE pending.kind = "heartbeat"
         BY <2>1, <2>2, <2>4, Zenon DEF Requeue, RepliesOrdered, Low, IsReply
    <2>5. CASE pending.kind # "heartbeat"
         BY <2>1, <2>2, <2>3, <2>5, Zenon DEF Requeue, RepliesOrdered
    <2> QED BY <2>4, <2>5, Zenon
  <1>7. CASE \/ start_connect_loop \/ on_client_established \/ on_client_receive \/ KickConsumed
             \/ on_client_connection_error \/ on_client_closed \/ on_client_writeable
             \/ run_register_retry_loop \/ ServerHandles
    <2>1. UNCHANGED <<outgoing, pending, written, replies>>
         BY <1>7, Zenon DEF start_connect_loop, on_client_established, on_client_receive,
            KickConsumed, on_client_connection_error, on_client_closed, ConnectionLost,
            on_client_writeable, run_register_retry_loop, ServerHandles, ChannelTypeOK,
            QueueType
    <2> QED BY <2>1, Zenon DEF RepliesOrdered, Low
  <1> QED BY ChannelCases, <1>1, <1>2, <1>3, <1>4, <1>5, <1>6, <1>7, Zenon

\* Command acks and results leave in the order they were produced and none
\* twice, however sends, register messages, writes and failed writes overlap.
THEOREM RepliesInOrderHolds == ChannelSpec => []RepliesInOrder
  <1>1. ChannelInit => RepliesOrdered BY DEF ChannelInit, RepliesOrdered, Ordered, Low, IsReply
  <1>2. ChannelTypeOK /\ RepliesOrdered /\ [ChannelNext]_channelVars => RepliesOrdered'
    <2>1. ASSUME RepliesOrdered, UNCHANGED channelVars PROVE RepliesOrdered'
         BY <2>1, Zenon DEF channelVars, RepliesOrdered, Low
    <2> QED BY <2>1, RepliesOrderedStep, Zenon
  <1>3. ChannelTypeOK /\ RepliesOrdered => RepliesInOrder
    <2> SUFFICES ASSUME ChannelTypeOK, RepliesOrdered PROVE RepliesInOrder BY Zenon
    <2>1. outgoing \in Seq(Message) /\ replies \in Nat /\ written \in Nat
         BY Zenon DEF ChannelTypeOK, QueueType, CountType
    <2>2. CASE pending.kind = "none"
      <3>1. Held = outgoing BY <2>1, <2>2 DEF Held
      <3>2. Ordered(Held, written, replies) BY <2>2, <3>1, Zenon DEF RepliesOrdered, Low, IsReply
      <3> QED BY <3>2, Zenon DEF Ordered, RepliesInOrder, IsReply
    <2>3. CASE pending.kind # "none"
      <3>1. Held = <<pending>> \o outgoing /\ pending \in Message
           BY <2>3 DEF Held, ChannelTypeOK, QueueType
      <3>2. Ordered(Held, written, replies)
           BY <2>1, <3>1, OrderedFront, Zenon DEF RepliesOrdered, Low
      <3> QED BY <3>2, Zenon DEF Ordered, RepliesInOrder, IsReply
    <2> QED BY <2>2, <2>3, Zenon
  <1> QED BY <1>1, <1>2, <1>3, ChannelTypeCorrect, PTL DEF ChannelSpec
============================================================================
