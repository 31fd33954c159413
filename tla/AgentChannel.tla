---------------------------- MODULE AgentChannel ----------------------------
(***************************************************************************)
(* The agent's control channel and its registration: wss_control_channel   *)
(* with its bounded queue, and the parts of agent_runtime that keep the    *)
(* connection registered.  Four threads share the state: the channel's I/O *)
(* thread, the dispatcher's worker for the partition "agent", the register *)
(* retry thread, and whoever sends (the heartbeat loop, the execution      *)
(* worker).  The server is reduced to what it does with a register frame.  *)
(***************************************************************************)
EXTENDS Naturals, Sequences

CONSTANTS
    MaxOutgoing,  \* kMaxOutgoingQueue
    MaxTasks,     \* queue_capacity of the dispatcher
    MaxWire,      \* frames a socket buffers
    MaxReplies,   \* command acks and results the agent produces
    MaxBeats,     \* heartbeats it produces
    MaxLosses,    \* failed connects, lost links, failed writes
    MaxBusy       \* frames the server answers with "server busy"

ASSUME ChannelAssumption ==
    /\ MaxOutgoing \in Nat \ {0} /\ MaxTasks \in Nat \ {0} /\ MaxWire \in Nat \ {0}
    /\ MaxReplies \in Nat /\ MaxBeats \in Nat /\ MaxLosses \in Nat /\ MaxBusy \in Nat

VARIABLES
    link,               \* "pending" (reconnect_pending), "connecting", "up"
    connected,          \* connected_ of the channel
    outgoing,           \* outgoing_messages_
    kick,               \* write_kick_pending
    writable,           \* lws_callback_on_writable was asked for
    io,                 \* where on_client_writeable is: "idle", "pop", "write"
    pending,            \* the message it has popped
    channel_connected, register_acked,  \* the runtime's flags
    tasks,              \* the dispatcher's queue for the partition "agent"
    uplink, downlink,   \* frames on the wire of the current connection
    session_bound,      \* the server has bound the current session to the agent
    replies, beats, losses, busy,  \* bounds
    written             \* history: the last reply handed to the socket

flags == <<channel_connected, register_acked>>
writing == <<writable, io, pending>>
wire == <<uplink, downlink, session_bound>>
bounds == <<replies, beats, losses, busy>>
channelVars == <<link, connected, outgoing, kick, writing, flags, tasks, wire, bounds, written>>

Message == [kind : {"register", "heartbeat"}, no : {0}] \cup [kind : {"reply"}, no : Nat]
Register  == [kind |-> "register", no |-> 0]
Heartbeat == [kind |-> "heartbeat", no |-> 0]
Reply(n)  == [kind |-> "reply", no |-> n]
NoMessage == [kind |-> "none", no |-> 0]

\* start: the queue is empty and run() connects at once.
ChannelInit ==
    /\ link = "pending" /\ connected = FALSE
    /\ outgoing = <<>> /\ kick = FALSE
    /\ writable = FALSE /\ io = "idle" /\ pending = NoMessage
    /\ channel_connected = FALSE /\ register_acked = FALSE
    /\ tasks = <<>>
    /\ uplink = <<>> /\ downlink = <<>> /\ session_bound = FALSE
    /\ replies = 0 /\ beats = 0 /\ losses = 0 /\ busy = 0
    /\ written = 0

-----------------------------------------------------------------------------
(* wss_control_channel::send *)

pop_back(q) == [i \in 1..(Len(q) - 1) |-> q[i]]

\* A register message goes to the front; a full queue loses its newest message.
PushRegister(q) == <<Register>> \o (IF Len(q) >= MaxOutgoing THEN pop_back(q) ELSE q)

\* Mutant: the I/O thread is not woken.
SendNoWake(m) == outgoing' = Append(outgoing, m) /\ UNCHANGED kick

\* Any other message goes to the back, unless the queue is full.
PushBack(m) == outgoing' = Append(outgoing, m) /\ kick' = TRUE

send_register == outgoing' = PushRegister(outgoing) /\ kick' = TRUE

send_reply ==
    /\ replies < MaxReplies
    /\ replies' = replies + 1
    /\ \/ Len(outgoing) < MaxOutgoing /\ PushBack(Reply(replies'))
       \/ Len(outgoing) >= MaxOutgoing /\ UNCHANGED <<outgoing, kick>>
    /\ UNCHANGED <<link, connected, writing, flags, tasks, wire, beats, losses, busy, written>>

\* A heartbeat is not queued while the channel is down.
send_heartbeat ==
    /\ beats < MaxBeats
    /\ beats' = beats + 1
    /\ \/ connected /\ Len(outgoing) < MaxOutgoing /\ PushBack(Heartbeat)
       \/ ~(connected /\ Len(outgoing) < MaxOutgoing) /\ UNCHANGED <<outgoing, kick>>
    /\ UNCHANGED <<link, connected, writing, flags, tasks, wire, replies, losses, busy, written>>

-----------------------------------------------------------------------------
(* agent_runtime: the partition "agent" of the dispatcher *)

\* A full dispatcher refuses the task.
Post(t) == tasks' = IF Len(tasks) < MaxTasks THEN Append(tasks, t) ELSE tasks

\* Mutant: the retry loop tests the flag the wrong way round.
RetryWhenAcked == channel_connected /\ register_acked

ShouldRetry == channel_connected /\ ~register_acked

\* A pass of run_register_retry_loop that has something to do.  Bound: the
\* interval (200 ms or more) outlasts the worker's queue, so one retry waits.
run_register_retry_loop ==
    /\ ShouldRetry
    /\ \A i \in 1..Len(tasks) : tasks[i] # "retry"
    /\ Len(tasks) < MaxTasks
    /\ Post("retry")
    /\ UNCHANGED <<link, connected, outgoing, kick, writing, flags, wire, bounds, written>>

\* The worker runs the next task: the register message of on_connected, the
\* retry (which tests the flags again), or handle_channel_message on the
\* server's answer.
RunTask ==
    /\ tasks # <<>>
    /\ tasks' = Tail(tasks)
    /\ \/ /\ \/ Head(tasks) = "connected"
             \/ Head(tasks) = "retry" /\ ShouldRetry
          /\ send_register
          /\ UNCHANGED register_acked
       \/ /\ Head(tasks) = "retry" /\ ~ShouldRetry
          /\ UNCHANGED <<outgoing, kick, register_acked>>
       \/ /\ Head(tasks) = "registered"
          /\ register_acked' = TRUE
          /\ UNCHANGED <<outgoing, kick>>
    /\ UNCHANGED <<link, connected, writing, channel_connected, wire, bounds, written>>

-----------------------------------------------------------------------------
(* wss_control_channel: the I/O thread *)

\* The reconnect delay is over.
start_connect_loop ==
    /\ io = "idle" /\ link = "pending"
    /\ link' = "connecting"
    /\ UNCHANGED <<connected, outgoing, kick, writing, flags, tasks, wire, bounds, written>>

on_client_connection_error ==
    /\ io = "idle" /\ link = "connecting"
    /\ losses < MaxLosses /\ losses' = losses + 1
    /\ link' = "pending"
    /\ UNCHANGED <<connected, outgoing, kick, writing, flags, tasks, wire, replies, beats, busy,
                   written>>

\* on_connection_established, the callback on_connected and maybe_start_write.
on_client_established ==
    /\ io = "idle" /\ link = "connecting"
    /\ link' = "up" /\ connected' = TRUE
    /\ channel_connected' = TRUE /\ register_acked' = FALSE
    /\ Post("connected")
    /\ writable' = (outgoing # <<>>)
    /\ UNCHANGED <<outgoing, kick, io, pending, wire, bounds, written>>

\* on_connection_lost, the callback on_disconnected and schedule_reconnect.
\* The server forgets the session, and what was on the wire is gone.
ConnectionLost ==
    /\ losses < MaxLosses /\ losses' = losses + 1
    /\ link' = "pending" /\ connected' = FALSE
    /\ channel_connected' = FALSE /\ register_acked' = FALSE
    /\ writable' = FALSE /\ io' = "idle" /\ pending' = NoMessage
    /\ uplink' = <<>> /\ downlink' = <<>> /\ session_bound' = FALSE
    /\ UNCHANGED <<kick, tasks, replies, beats, busy, written>>

on_client_closed ==
    /\ io = "idle" /\ link = "up"
    /\ ConnectionLost
    /\ UNCHANGED outgoing

on_client_receive ==
    /\ io = "idle" /\ downlink # <<>>
    /\ downlink' = Tail(downlink)
    /\ Post(Head(downlink))
    /\ UNCHANGED <<link, connected, outgoing, kick, writing, flags, uplink, session_bound, bounds,
                   written>>

\* The loop of run() consumes the kick: maybe_start_write.
KickConsumed ==
    /\ io = "idle" /\ kick
    /\ kick' = FALSE
    /\ writable' = (writable \/ (connected /\ outgoing # <<>>))
    /\ UNCHANGED <<link, connected, outgoing, io, pending, flags, tasks, wire, bounds, written>>

on_client_writeable ==
    /\ io = "idle" /\ writable /\ Len(uplink) < MaxWire
    /\ writable' = FALSE /\ io' = "pop"
    /\ UNCHANGED <<link, connected, outgoing, kick, pending, flags, tasks, wire, bounds, written>>

AfterPop(q) == IF q = <<>> THEN "idle" ELSE "write"

Pop ==
    /\ io = "pop" /\ io' = AfterPop(outgoing)
    /\ \/ outgoing = <<>> /\ UNCHANGED <<outgoing, pending>>
       \/ outgoing # <<>> /\ pending' = Head(outgoing) /\ outgoing' = Tail(outgoing)
    /\ UNCHANGED <<link, connected, kick, writable, flags, tasks, wire, bounds, written>>

\* lws_write took the whole frame.
Write ==
    /\ io = "write" /\ Len(uplink) < MaxWire
    /\ uplink' = Append(uplink, pending)
    /\ written' = IF pending.kind = "reply" THEN pending.no ELSE written
    /\ io' = "pop" /\ pending' = NoMessage
    /\ UNCHANGED <<link, connected, outgoing, kick, writable, flags, tasks, downlink,
                   session_bound, bounds>>

\* Mutant: the message that failed goes to the back of the queue.
RequeueLast(m, q) == IF m.kind = "heartbeat" THEN q ELSE Append(q, m)

\* The message that failed is put back, except a heartbeat.
Requeue(m, q) == IF m.kind = "heartbeat" THEN q ELSE <<m>> \o q

WriteFails ==
    /\ io = "write"
    /\ outgoing' = Requeue(pending, outgoing)
    /\ ConnectionLost

ChannelThread ==
    \/ start_connect_loop \/ on_client_established
    \/ on_client_receive \/ KickConsumed \/ on_client_writeable \/ Pop \/ Write

-----------------------------------------------------------------------------
(* The server's side of the connection *)

\* on_agent_message and AgentActionGateway::handle.  A frame the scheduler
\* refuses is answered "server busy", which the agent only logs.
ServerHandles ==
    /\ uplink # <<>>
    /\ uplink' = Tail(uplink)
    /\ \/ /\ busy < MaxBusy /\ busy' = busy + 1
          /\ UNCHANGED <<downlink, session_bound>>
       \/ /\ Head(uplink).kind = "register" /\ Len(downlink) < MaxWire
          /\ session_bound' = TRUE /\ downlink' = Append(downlink, "registered")
          /\ UNCHANGED busy
       \/ /\ Head(uplink).kind # "register"
          /\ UNCHANGED <<downlink, session_bound, busy>>
    /\ UNCHANGED <<link, connected, outgoing, kick, writing, flags, tasks, replies, beats, losses,
                   written>>

ChannelNext ==
    \/ ChannelThread \/ on_client_connection_error \/ on_client_closed \/ WriteFails
    \/ RunTask \/ run_register_retry_loop
    \/ send_reply \/ send_heartbeat
    \/ ServerHandles

ChannelSpec == ChannelInit /\ [][ChannelNext]_channelVars

\* Threads and the server run on, and lws_service serves every event of the
\* socket in its turn.  Nothing obliges a sender to send or the network to fail.
\* A burst of writes ends: a retry comes once per interval (200 ms or more).
ChannelFairness ==
    /\ WF_channelVars(start_connect_loop) /\ WF_channelVars(on_client_established)
    /\ WF_channelVars(Pop) /\ WF_channelVars(Write)
    /\ SF_channelVars(KickConsumed) /\ SF_channelVars(on_client_writeable)
    /\ SF_channelVars(on_client_receive)
    /\ WF_channelVars(RunTask) /\ WF_channelVars(run_register_retry_loop)
    /\ WF_channelVars(ServerHandles)
    /\ []<>(io = "idle")
ChannelFairSpec == ChannelSpec /\ ChannelFairness

-----------------------------------------------------------------------------
(* Properties *)

QueueType ==
    /\ outgoing \in Seq(Message)
    /\ io \in {"idle", "pop", "write"}
    /\ pending \in Message \cup {NoMessage} /\ (io = "write" <=> pending # NoMessage)

FlagType ==
    /\ kick \in BOOLEAN /\ writable \in BOOLEAN
    /\ channel_connected \in BOOLEAN /\ register_acked \in BOOLEAN /\ session_bound \in BOOLEAN

LinkType ==
    /\ link \in {"pending", "connecting", "up"}
    /\ connected = (link = "up")
    /\ writable \/ io # "idle" => link = "up"

WireType == uplink \in Seq(Message) /\ downlink \in Seq({"registered"})

CountType ==
    /\ tasks \in Seq({"connected", "retry", "registered"})
    /\ replies \in Nat /\ beats \in Nat /\ losses \in Nat /\ busy \in Nat /\ written \in Nat

\* Type correctness; a message is in hand exactly while it is written, and
\* writing happens only on an established connection.
ChannelTypeOK == QueueType /\ FlagType /\ LinkType /\ WireType /\ CountType

Held == (IF pending.kind = "none" THEN <<>> ELSE <<pending>>) \o outgoing

\* The queue may exceed its limit by the one message that a failed write puts
\* back, and by no more, however writes, failures and sends overlap.
OutgoingBounded == Len(Held) <= MaxOutgoing + 1

\* Command acks and results leave in the order they were produced, none of them
\* twice: neither a failed write nor a register message that overtakes them
\* changes their order.
RepliesInOrder ==
    \A i \in 1..Len(Held) : Held[i].kind = "reply" =>
        /\ written < Held[i].no
        /\ \A j \in 1..Len(Held) : i < j /\ Held[j].kind = "reply" => Held[i].no < Held[j].no

\* Once the link stays up the agent gets its registration acknowledged, although
\* the dispatcher may refuse a task, the server a frame, and a connection may be
\* lost with the register message on the wire.
RetriesUntilAcked == <>[](register_acked)

\* Every message that was queued is written once the link stays up: no wake-up
\* of the I/O thread is lost.
QueueDrains == <>[](Held = <<>>)

\* agent.heartbeat, command.ack and command.result are not sent before
\* agent.register has succeeded on the connection.
NoActionBeforeRegistered == ~session_bound => \A i \in 1..Len(uplink) : uplink[i].kind = "register"

\* The agent registers again after a reconnect: once the link stays up, its
\* session is bound.
RegisteredAgain == <>[]session_bound
=============================================================================
