--------------------------- MODULE AgentExecution ---------------------------
(***************************************************************************)
(* What the agent does with a command it receives: the dispatcher's        *)
(* workers (one partition per command id) acknowledge it, look it up in    *)
(* the cache of seen commands and queue it; one execution worker runs the  *)
(* queue.  start() and stop() bring the parts up and down one after the    *)
(* other while messages keep arriving.  The channel itself is              *)
(* AgentChannel; here a send succeeds or fails.                            *)
(***************************************************************************)
EXTENDS Integers, Sequences, FiniteSets

CONSTANTS
    Command,        \* command ids
    Worker,         \* threads of the event dispatcher
    PickWorker,     \* the worker of a command's partition
    Idle,           \* no command
    MaxSeen,        \* seen_command_cache_max_size_
    Ttl,            \* seen_command_cache_ttl_ms_
    Capacity,       \* queue capacity of a dispatcher worker
    MaxNow,         \* bound: the wall clock
    MaxCopies,      \* bound: deliveries of one command
    MaxStarts       \* bound: starts of the runtime

ASSUME ExecutionAssumption ==
    /\ PickWorker \in [Command -> Worker]
    /\ Idle \notin Command
    /\ MaxSeen \in Nat \ {0} /\ Ttl \in Nat \ {0} /\ Capacity \in Nat \ {0} /\ MaxNow \in Nat
    /\ MaxCopies \in Nat /\ MaxStarts \in Nat

VARIABLES
    phase,      \* "off", "opened", "cleared", "up", "closing", "stopping"
    starts,     \* starts so far
    inbox,      \* per dispatcher worker: its queue
    hand,       \* per dispatcher worker: the command it handles
    step,       \* per dispatcher worker: "ack", "mark", "enqueue"
    seen,       \* seen_command_ids_: the time a command was marked, or NotSeen
    order,      \* seen_command_order_
    queue,      \* the execution worker's queue
    job,        \* the command the execution worker runs
    now,        \* the wall clock
    copies,     \* deliveries of each command so far
    marks,      \* history: how often a command was marked in this life
    lapsed,     \* history: has the clock passed a command's ttl since its mark?
    others      \* history: other commands marked since its mark, up to MaxSeen

dispatcher == <<inbox, hand, step>>
cache == <<seen, order>>
worker == <<queue, job>>
history == <<marks, lapsed, others>>
vars == <<phase, starts, dispatcher, cache, worker, now, copies, history>>

NotSeen == -1
Times == 0 .. MaxNow
Entry == [id : Command, at : Times]

\* Every variable keeps its type; a dispatcher queue keeps to its capacity.
TypeOK ==
    /\ phase \in {"off", "opened", "cleared", "up", "closing", "stopping"}
    /\ starts \in 0 .. MaxStarts
    /\ inbox \in [Worker -> Seq(Command)] /\ \A w \in Worker : Len(inbox[w]) <= Capacity
    /\ hand \in [Worker -> Command \cup {Idle}]
    /\ step \in [Worker -> {"ack", "mark", "enqueue"}]
    /\ seen \in [Command -> Times \cup {NotSeen}]
    /\ order \in Seq(Entry)
    /\ queue \in Seq(Command) /\ job \in Command \cup {Idle}
    /\ now \in Times /\ copies \in [Command -> 0 .. MaxCopies]
    /\ marks \in [Command -> Nat] /\ lapsed \in [Command -> BOOLEAN]
    /\ others \in [Command -> 0 .. MaxSeen]

Init ==
    /\ phase = "off" /\ starts = 0
    /\ inbox = [w \in Worker |-> <<>>] /\ hand = [w \in Worker |-> Idle]
    /\ step = [w \in Worker |-> "ack"]
    /\ seen = [c \in Command |-> NotSeen] /\ order = <<>>
    /\ queue = <<>> /\ job = Idle /\ now \in Times
    /\ copies = [c \in Command |-> 0]
    /\ marks = [c \in Command |-> 0] /\ lapsed = [c \in Command |-> FALSE]
    /\ others = [c \in Command |-> 0]

-----------------------------------------------------------------------------
(* Start and stop.                                                         *)

\* start(): the dispatcher and the channel run; from here commands arrive.
StartChannel ==
    /\ phase = "off" /\ starts < MaxStarts
    /\ phase' = "opened" /\ starts' = starts + 1
    /\ UNCHANGED <<dispatcher, cache, worker, now, copies, history>>

\* start(): the cache of the previous life is cleared.
ClearSeen ==
    /\ phase = "opened" /\ phase' = "cleared"
    /\ seen' = [c \in Command |-> NotSeen] /\ order' = <<>>
    /\ marks' = [c \in Command |-> 0]
    /\ lapsed' = [c \in Command |-> FALSE] /\ others' = [c \in Command |-> 0]
    /\ UNCHANGED <<starts, dispatcher, worker, now, copies>>

\* start(): the execution worker, with an empty queue.
StartWorker ==
    /\ phase = "cleared" /\ phase' = "up" /\ queue' = <<>>
    /\ UNCHANGED <<starts, dispatcher, cache, job, now, copies, history>>

\* stop(): the channel is stopped: no message arrives or leaves any more.
StopChannel ==
    /\ phase = "up" /\ phase' = "closing"
    /\ UNCHANGED <<starts, dispatcher, cache, worker, now, copies, history>>

\* stop(): the dispatcher's workers finish their queues and are joined, and
\* only then is the execution worker told to stop.
DispatcherIdle == \A w \in Worker : inbox[w] = <<>> /\ hand[w] = Idle
\* Mutant: the dispatcher's workers are not joined.
StopDispatcherUnjoined ==
    /\ phase = "closing" /\ phase' = "stopping"
    /\ UNCHANGED <<starts, dispatcher, cache, worker, now, copies, history>>
StopDispatcher ==
    /\ phase = "closing" /\ DispatcherIdle
    /\ phase' = "stopping"
    /\ UNCHANGED <<starts, dispatcher, cache, worker, now, copies, history>>

\* stop(): the execution worker finishes its queue and is joined.
\* Mutant: the queue is cleared without running it.
StopWorkerAtOnce ==
    /\ phase = "stopping" /\ job = Idle
    /\ phase' = "off" /\ queue' = <<>>
    /\ UNCHANGED <<starts, dispatcher, cache, job, now, copies, history>>
StopWorker ==
    /\ phase = "stopping" /\ queue = <<>> /\ job = Idle
    /\ phase' = "off" /\ queue' = <<>>
    /\ UNCHANGED <<starts, dispatcher, cache, job, now, copies, history>>

ChannelUp == phase \in {"opened", "cleared", "up"}

-----------------------------------------------------------------------------
(* The dispatcher.                                                         *)

\* on_message posts the command to its partition, or drops it when the queue
\* is full.
on_message(c) ==
    /\ ChannelUp /\ copies[c] < MaxCopies
    /\ copies' = [copies EXCEPT ![c] = @ + 1]
    /\ LET w == PickWorker[c]
       IN  inbox' = IF Len(inbox[w]) < Capacity
                    THEN [inbox EXCEPT ![w] = Append(@, c)] ELSE inbox
    /\ UNCHANGED <<phase, starts, hand, step, cache, worker, now, history>>

Take(w) ==
    /\ hand[w] = Idle /\ inbox[w] # <<>>
    /\ hand' = [hand EXCEPT ![w] = Head(inbox[w])]
    /\ inbox' = [inbox EXCEPT ![w] = Tail(@)]
    /\ UNCHANGED <<phase, starts, step, cache, worker, now, copies, history>>

Done(w) ==
    /\ hand' = [hand EXCEPT ![w] = Idle] /\ step' = [step EXCEPT ![w] = "ack"]
    /\ UNCHANGED inbox
Proceed(w, s) == step' = [step EXCEPT ![w] = s] /\ UNCHANGED <<inbox, hand>>

\* Mutant: the handler waits for the channel.
AckWaits(w) ==
    /\ hand[w] # Idle /\ step[w] = "ack"
    /\ ChannelUp /\ Proceed(w, "mark")
    /\ UNCHANGED <<phase, starts, cache, worker, now, copies, history>>

\* on_command_dispatch: a command whose ack cannot be sent is left alone.
send_command_ack(w) ==
    /\ hand[w] # Idle /\ step[w] = "ack"
    /\ (ChannelUp /\ Proceed(w, "mark")) \/ Done(w)
    /\ UNCHANGED <<phase, starts, cache, worker, now, copies, history>>

Least(S) == CHOOSE i \in S : \A j \in S : i <= j
After(s, k) == SubSeq(s, k + 1, Len(s))
\* The ids that erasing the first k entries removes from the map.
Erased(map, list, k) == {c \in Command : \E i \in 1 .. k : list[i] = [id |-> c, at |-> map[c]]}
Without(map, ids) == [c \in Command |-> IF c \in ids THEN NotSeen ELSE map[c]]
Size(map) == Cardinality({c \in Command : map[c] # NotSeen})

\* mark_command_seen: expired and superseded entries leave from the front.
\* Mutant: an entry expires one unit early.
OutdatedEarly(e) == now + 1 - e.at >= Ttl \/ seen[e.id] # e.at
Outdated(e) == now - e.at >= Ttl \/ seen[e.id] # e.at
Prunable == Least({k \in 0 .. Len(order) : k = Len(order) \/ ~Outdated(order[k + 1])})
PrunedSeen == Without(seen, Erased(seen, order, Prunable))
PrunedOrder == After(order, Prunable)

\* ... and entries beyond the cache's size.
Evictable(map, list) ==
    Least({k \in 0 .. Len(list) : \/ k = Len(list)
                                  \/ Size(Without(map, Erased(map, list, k))) <= MaxSeen})

\* History: c is marked.
Mark(c) ==
    /\ marks' = [marks EXCEPT ![c] = @ + 1]
    /\ lapsed' = [lapsed EXCEPT ![c] = FALSE]
    /\ others' = [d \in Command |-> IF d = c THEN 0
                                      ELSE IF others[d] < MaxSeen THEN others[d] + 1
                                      ELSE MaxSeen]

\* mark_command_seen and the expiry check behind it: a duplicate is dropped,
\* an expired command answered with timed_out, any other goes on.
\* (\E x \in {e} names the value of e.)
mark_command_seen(w) ==
    /\ hand[w] # Idle /\ step[w] = "mark"
    /\ \E c \in {hand[w]}, map \in {PrunedSeen}, rest \in {PrunedOrder} :
       \E added \in {[map EXCEPT ![c] = now]}, list \in {Append(rest, [id |-> c, at |-> now])} :
       \E k \in {Evictable(added, list)} :
          IF map[c] # NotSeen
          THEN /\ seen' = map /\ order' = rest
               /\ Done(w) /\ UNCHANGED history
          ELSE /\ seen' = Without(added, Erased(added, list, k))
               /\ order' = After(list, k)
               /\ Mark(c)
               /\ Done(w) \/ Proceed(w, "enqueue")
    /\ UNCHANGED <<phase, starts, worker, now, copies>>

\* enqueue: silently nothing while the execution worker is not running.
enqueue(w) ==
    /\ hand[w] # Idle /\ step[w] = "enqueue"
    /\ queue' = IF phase \in {"up", "closing"} THEN Append(queue, hand[w]) ELSE queue
    /\ Done(w)
    /\ UNCHANGED <<phase, starts, cache, job, now, copies, history>>

-----------------------------------------------------------------------------
(* The execution worker and the clock.                                     *)

WorkerRuns == phase \in {"up", "closing", "stopping"}
TakeJob ==
    /\ WorkerRuns /\ job = Idle /\ queue # <<>>
    /\ job' = Head(queue) /\ queue' = Tail(queue)
    /\ UNCHANGED <<phase, starts, dispatcher, cache, now, copies, history>>

\* execute_command or on_execute_exception: the result is sent or lost.
FinishJob ==
    /\ job # Idle /\ job' = Idle
    /\ UNCHANGED <<phase, starts, dispatcher, cache, queue, now, copies, history>>

\* The wall clock: it runs on, and may be set.
Clock ==
    /\ now' \in Times \ {now}
    /\ lapsed' = [c \in Command |->
                    lapsed[c] \/ (seen[c] # NotSeen /\ now' - seen[c] >= Ttl)]
    /\ UNCHANGED <<phase, starts, dispatcher, cache, worker, copies, marks, others>>

Next ==
    \/ StartChannel \/ ClearSeen \/ StartWorker
    \/ StopChannel \/ StopDispatcher \/ StopWorker
    \/ \E c \in Command : on_message(c)
    \/ \E w \in Worker : Take(w) \/ send_command_ack(w) \/ mark_command_seen(w) \/ enqueue(w)
    \/ TakeJob \/ FinishJob \/ Clock

Spec == Init /\ [][Next]_vars

\* start() and stop() run to their end once begun, and every thread runs.
FairSpec ==
    /\ Spec
    /\ WF_vars(ClearSeen \/ StartWorker \/ StopDispatcher \/ StopWorker)
    /\ \A w \in Worker : WF_vars(Take(w) \/ send_command_ack(w) \/ mark_command_seen(w) \/ enqueue(w))
    /\ WF_vars(TakeJob \/ FinishJob)

-----------------------------------------------------------------------------
(* Properties.                                                             *)

\* The map and the order list of the cache tell the same story: every entry
\* of the list is in the map with its time, every command of the map once in
\* the list (mark_command_seen keeps the two in step, so the cache can always
\* be emptied and never exceeds its size).
CacheAgrees ==
    /\ \A i \in 1 .. Len(order) : seen[order[i].id] = order[i].at
    /\ \A c \in Command : seen[c] # NotSeen =>
        \E i \in 1 .. Len(order) : order[i].id = c
    /\ \A i, j \in 1 .. Len(order) : order[i].id = order[j].id => i = j
    /\ Len(order) <= MaxSeen

\* A redelivered command is taken for new, in one life of the runtime, only
\* after the clock passed its ttl or MaxSeen other commands were marked:
\* nothing else makes the agent execute it twice (mark_command_seen).
RerunNeedsEviction ==
    [][\A c \in Command : marks[c] > 0 /\ marks'[c] > marks[c] =>
        lapsed[c] \/ others[c] >= MaxSeen]_vars

\* When stop() has returned, nothing of the old life is left to run: no
\* handler, no queued command, no job (the order of stop()).
QuietWhenOff ==
    phase = "off" => DispatcherIdle /\ queue = <<>> /\ job = Idle

\* stop() returns: nobody it joins waits for something only it could provide.
StopReturns == phase = "closing" ~> phase = "off"

Accepted(c) == \E w \in Worker : hand[w] = c /\ step[w] = "enqueue"

\* A command acknowledged as accepted once start() has returned goes on to run,
\* also when the runtime is stopped meanwhile: stop() drains the dispatcher
\* before the execution worker and the worker's queue before it is joined.
\* (Before start() has returned, enqueue drops the command silently.)
AcceptedRuns ==
    \A c \in Command : [](Accepted(c) /\ phase \in {"up", "closing"} => <>(job = c))
=============================================================================
