------------------------------ MODULE AtDaemon ------------------------------
(***************************************************************************)
(* ubus-at-daemon on one serial port.  The uloop thread serves one ubus    *)
(* method at a time, the monitor thread looks after the port, and every    *)
(* open of the port starts a reader thread.  The port instance is shared   *)
(* between them: ports_mutex protects the list of instances, nothing       *)
(* protects is_open, should_stop, fd and reader_thread.                    *)
(***************************************************************************)
EXTENDS Integers, Sequences, FiniteSets

CONSTANTS
    MaxInst,    \* bound: port instances of one life of the daemon
    MaxOpen,    \* bound: opens of the device in one life of the daemon
    MaxCmd,     \* bound: AT commands
    MaxUnplug,  \* bound: times the device goes away
    MaxEvents   \* bound: AT commands and unplugs together

ASSUME AtDaemonAssumption ==
    /\ MaxInst \in Nat \ {0} /\ MaxOpen \in Nat \ {0}
    /\ MaxCmd \in Nat \ {0} /\ MaxUnplug \in Nat /\ MaxEvents \in Nat

Inst == 1 .. MaxInst            \* memory of a port instance, in order of allocation
Open == 1 .. MaxOpen            \* a descriptor, and the reader started with it
Cmd == 1 .. MaxCmd
Thread == {"uloop", "monitor"}  \* the threads that open and close a port

VARIABLES
    file,       \* does the device node exist?
    unplugs,    \* times it went away
    mem,        \* per instance: "unused", "listed" or "freed"
    port,       \* per instance: its at_port_instance_t
    fds,        \* descriptors the daemon holds
    attached,   \* those of them whose device is still there
    opens,      \* opens so far
    reader,     \* per reader thread: its state, its instance, its lines to process
    joined,     \* reader threads that were joined
    th,         \* per thread: where it is, what it does next, its instance
    mutex,      \* the holder of ports_mutex, or "free"
    running,    \* commands the modem has not answered yet
    line,       \* lines the modem sent that nobody read
    sent,       \* commands so far
    out,        \* per command: what its caller was told
    slipped     \* history: "failed" a reader, "met" an open or close another one

device == <<file, unplugs, running, line>>
kernel == <<fds, attached, opens, reader, joined>>
calls == <<sent, out>>
vars == <<device, mem, port, kernel, th, mutex, calls, slipped>>

None == 0
Steps == {"idle", "open", "access", "mark", "spawn", "opened", "failed", "close", "join",
          "joining", "closefd", "destroy", "djoin", "unlink", "auto", "send", "write", "wait", "done"}
Outcome == {"new", "busy", "success", "timeout", "error", "sendonly"}

\* The daemon's variables keep their types.
TypeOK ==
    /\ file \in BOOLEAN /\ unplugs \in 0 .. MaxUnplug
    /\ mem \in [Inst -> {"unused", "listed", "freed"}]
    /\ port \in [Inst -> [fd : Open \cup {None}, is_open : BOOLEAN, should_stop : BOOLEAN,
                          thread : Open \cup {None}, waiting : BOOLEAN, by : Cmd \cup {None},
                          due : BOOLEAN]]
    /\ fds \subseteq Open /\ attached \subseteq fds /\ opens \in 0 .. MaxOpen
    /\ reader \in [Open -> [state : {"none", "run", "done"}, inst : Inst, lines : Seq(Cmd)]]
    /\ joined \subseteq Open
    /\ th \in [Thread -> [pc : Steps, then : Steps \cup {"destroyed"}, inst : Inst, got : Open \cup {None},
                          target : Open \cup {None}, op : {"none", "open", "new", "send", "sendonly", "close"}]]
    /\ mutex \in {"free", "uloop", "monitor"}
    /\ running \in Seq(Cmd) /\ line \in Seq(Cmd) /\ sent \in 0 .. MaxCmd
    /\ out \in [Cmd -> [st : Outcome, by : Cmd \cup {None}]]
    /\ slipped \subseteq {"failed", "met"}

NewPort == [fd |-> None, is_open |-> FALSE, should_stop |-> FALSE, thread |-> None,
            waiting |-> FALSE, by |-> None, due |-> FALSE]
Resting == [pc |-> "idle", then |-> "idle", inst |-> 1, got |-> None, target |-> None,
            op |-> "none"]

InitDaemon(mem0, port0, fds0, attached0, opens0, reader0, joined0, th0, mutex0) ==
    /\ mem0 = [i \in Inst |-> "unused"] /\ port0 = [i \in Inst |-> NewPort]
    /\ fds0 = {} /\ attached0 = {} /\ opens0 = 0 /\ joined0 = {}
    /\ reader0 = [r \in Open |-> [state |-> "none", inst |-> 1, lines |-> <<>>]]
    /\ th0 = [t \in Thread |-> Resting] /\ mutex0 = "free"

Init ==
    /\ file \in BOOLEAN /\ unplugs = 0 /\ running = <<>> /\ line = <<>>
    /\ InitDaemon(mem, port, fds, attached, opens, reader, joined, th, mutex)
    /\ sent = 0 /\ out = [c \in Cmd |-> [st |-> "new", by |-> None]] /\ slipped = {}

-----------------------------------------------------------------------------
(* Helpers. *)

Listed == {i \in Inst : mem[i] = "listed"}
At(t, s) == th[t].pc = s
MyPort(t) == port[th[t].inst]
Go(t, s) == th' = [th EXCEPT ![t] = IF s = "idle" THEN Resting ELSE [@ EXCEPT !.pc = s]]

\* Threads whose memory or thread handle is gone: what they do is undefined.
Undefined ==
    \/ \E r \in Open : reader[r].state = "run" /\ mem[reader[r].inst] = "freed"
    \/ \E t \in Thread : th[t].pc = "joining" /\ th[t].target \in joined

\* Is the thread inside an open, a close or a destroy of a port?
Inside(t) == th[t].pc \in {"open", "access", "mark", "spawn", "close", "join", "joining", "closefd",
                           "destroy", "djoin", "unlink"}
Meeting == th["uloop"].inst = th["monitor"].inst /\ Inside("uloop") /\ Inside("monitor")
NoteMeeting == slipped' = slipped \cup (IF Meeting' THEN {"met"} ELSE {})

-----------------------------------------------------------------------------
(* open_at_port and close_at_port, run by the uloop and by the monitor. *)

\* Mutant: an open port is opened over.
OpenOver(t) ==
    /\ At(t, "open") /\ Go(t, "access")
    /\ UNCHANGED <<device, mem, port, kernel, mutex, calls, slipped>>

\* A port that is open is closed first.
OpenBegin(t) ==
    /\ At(t, "open")
    /\ IF MyPort(t).is_open
       THEN th' = [th EXCEPT ![t].pc = "close", ![t].then = "access"]
       ELSE Go(t, "access")
    /\ UNCHANGED <<device, mem, port, kernel, mutex, calls, slipped>>

\* access() and open(): the node is missing or the open is refused ...
OpenFails(t) ==
    /\ At(t, "access")
    /\ \/ ~file /\ UNCHANGED port
       \/ file /\ port' = [port EXCEPT ![th[t].inst].fd = None]
    /\ Go(t, "failed")
    /\ UNCHANGED <<device, mem, kernel, mutex, calls, slipped>>

\* ... or the port has a new descriptor; an old one is forgotten.
OpenFd(t) ==
    /\ At(t, "access") /\ file /\ opens < MaxOpen
    /\ opens' = opens + 1
    /\ fds' = fds \cup {opens'} /\ attached' = attached \cup {opens'}
    /\ port' = [port EXCEPT ![th[t].inst].fd = opens']
    /\ th' = [th EXCEPT ![t].pc = "mark", ![t].got = opens']
    /\ UNCHANGED <<device, mem, reader, joined, mutex, calls, slipped>>

\* The port is marked open before its reader exists.
OpenMark(t) ==
    /\ At(t, "mark")
    /\ port' = [port EXCEPT ![th[t].inst].is_open = TRUE, ![th[t].inst].should_stop = FALSE]
    /\ Go(t, "spawn")
    /\ UNCHANGED <<device, mem, kernel, mutex, calls, slipped>>

OpenSpawn(t) ==
    /\ At(t, "spawn")
    /\ reader' = [reader EXCEPT ![th[t].got] =
                    [state |-> "run", inst |-> th[t].inst, lines |-> <<>>]]
    /\ port' = [port EXCEPT ![th[t].inst].thread = th[t].got]
    /\ th' = [th EXCEPT ![t].pc = "opened", ![t].got = None]
    /\ UNCHANGED <<device, mem, fds, attached, opens, joined, mutex, calls, slipped>>

\* No reader thread: whatever descriptor the port has by now is closed again.
SpawnFails(t) ==
    /\ At(t, "spawn")
    /\ fds' = fds \ {MyPort(t).fd} /\ attached' = attached \ {MyPort(t).fd}
    /\ port' = [port EXCEPT ![th[t].inst].fd = None, ![th[t].inst].is_open = FALSE]
    /\ Go(t, "failed")
    /\ UNCHANGED <<device, mem, opens, reader, joined, mutex, calls, slipped>>

\* Mutant: the reader is joined without being told to stop.
CloseUntold(t) ==
    /\ At(t, "close")
    /\ IF MyPort(t).is_open THEN Go(t, "join")
       ELSE th' = [th EXCEPT ![t].pc = th[t].then, ![t].then = "idle"]
    /\ UNCHANGED <<device, mem, port, kernel, mutex, calls, slipped>>

CloseBegin(t) ==
    /\ At(t, "close")
    /\ IF MyPort(t).is_open
       THEN /\ port' = [port EXCEPT ![th[t].inst].should_stop = TRUE]
            /\ Go(t, "join")
       ELSE /\ th' = [th EXCEPT ![t].pc = th[t].then, ![t].then = "idle"]
            /\ UNCHANGED port
    /\ UNCHANGED <<device, mem, kernel, mutex, calls, slipped>>

\* The handle is read ...
CloseJoin(t) ==
    /\ At(t, "join")
    /\ th' = [th EXCEPT ![t].target = MyPort(t).thread,
                       ![t].pc = IF MyPort(t).thread = None THEN "closefd" ELSE "joining"]
    /\ UNCHANGED <<device, mem, port, kernel, mutex, calls, slipped>>

\* ... and pthread_join returns when that thread has ended.  close_at_port
\* clears the handle, destroy_port_instance keeps it and closes the port.
Joined(t) ==
    /\ At(t, "joining") /\ reader[th[t].target].state = "done"
    /\ joined' = joined \cup {th[t].target}
    /\ \/ /\ th[t].then # "destroyed"
          /\ port' = [port EXCEPT ![th[t].inst].thread = None]
          /\ th' = [th EXCEPT ![t].pc = "closefd", ![t].target = None]
       \/ /\ th[t].then = "destroyed"
          /\ th' = [th EXCEPT ![t].pc = "close", ![t].target = None, ![t].then = "unlink"]
          /\ UNCHANGED port
    /\ UNCHANGED <<device, mem, fds, attached, opens, reader, mutex, calls, slipped>>

CloseFd(t) ==
    /\ At(t, "closefd")
    /\ fds' = fds \ {MyPort(t).fd} /\ attached' = attached \ {MyPort(t).fd}
    /\ port' = [port EXCEPT ![th[t].inst].fd = None, ![th[t].inst].is_open = FALSE]
    /\ th' = [th EXCEPT ![t].pc = th[t].then, ![t].then = "idle"]
    /\ UNCHANGED <<device, mem, opens, reader, joined, mutex, calls, slipped>>

-----------------------------------------------------------------------------
(* destroy_port_instance, run by the uloop. *)

DestroyBegin ==
    /\ At("uloop", "destroy")
    /\ port' = [port EXCEPT ![th["uloop"].inst].should_stop = TRUE]
    /\ Go("uloop", "djoin")
    /\ UNCHANGED <<device, mem, kernel, mutex, calls, slipped>>

DestroyJoin ==
    /\ At("uloop", "djoin")
    /\ th' = [th EXCEPT !["uloop"] = IF MyPort("uloop").thread = None
            THEN [@ EXCEPT !.pc = "close", !.then = "unlink"]
            ELSE [@ EXCEPT !.pc = "joining", !.target = MyPort("uloop").thread,
                           !.then = "destroyed"]]
    /\ UNCHANGED <<device, mem, port, kernel, mutex, calls, slipped>>

\* Mutant: the list is changed without the mutex.
UnlinkUnlocked ==
    /\ At("uloop", "unlink")
    /\ mem' = [mem EXCEPT ![th["uloop"].inst] = "freed"]
    /\ Go("uloop", "idle")
    /\ UNCHANGED <<device, port, kernel, mutex, calls, slipped>>

\* Off the list, under the mutex; then the memory is freed.
Unlink ==
    /\ At("uloop", "unlink") /\ mutex = "free"
    /\ mem' = [mem EXCEPT ![th["uloop"].inst] = "freed"]
    /\ Go("uloop", "idle")
    /\ UNCHANGED <<device, port, kernel, mutex, calls, slipped>>

-----------------------------------------------------------------------------
(* The ubus methods. *)

\* find_port_instance, and create_port_instance where there is none: the
\* caller continues with the instance at step s as the call op.
WithInstance(op, fresh, s) ==
    IF Listed # {}
    THEN /\ \E i \in Listed : th' = [th EXCEPT !["uloop"] =
                    [@ EXCEPT !.pc = s, !.inst = i, !.op = op]]
         /\ UNCHANGED mem
    ELSE \E i \in Inst :
            /\ mem[i] = "unused" /\ \A j \in 1 .. i - 1 : mem[j] # "unused"
            /\ mem' = [mem EXCEPT ![i] = "listed"]
            /\ th' = [th EXCEPT !["uloop"] = [@ EXCEPT !.pc = s, !.inst = i, !.op = fresh]]

UbusOpen ==
    /\ At("uloop", "idle") /\ mutex = "free"
    /\ Listed # {} \/ file
    /\ WithInstance("open", "new", "open")
    /\ NoteMeeting
    /\ UNCHANGED <<device, port, kernel, mutex, calls>>

\* A failed open of an instance made for it destroys the instance.
UbusOpenReturns ==
    /\ th["uloop"].op \in {"open", "new"}
    /\ \/ At("uloop", "opened") /\ Go("uloop", "idle")
       \/ At("uloop", "failed") /\ Go("uloop", IF th["uloop"].op = "new" THEN "destroy" ELSE "idle")
    /\ NoteMeeting
    /\ UNCHANGED <<device, mem, port, kernel, mutex, calls>>

\* sendat, with or without waiting for the answer; a closed port is opened.
UbusSendat(op) ==
    /\ At("uloop", "idle") /\ mutex = "free" /\ sent < MaxCmd /\ sent + unplugs < MaxEvents
    /\ WithInstance(op, op, "auto")
    /\ sent' = sent + 1 /\ out' = [out EXCEPT ![sent'].st = "busy"]
    /\ UNCHANGED <<device, port, kernel, mutex, slipped>>

SendAuto ==
    /\ At("uloop", "auto")
    /\ Go("uloop", IF MyPort("uloop").is_open THEN "opened" ELSE "open")
    /\ NoteMeeting
    /\ UNCHANGED <<device, mem, port, kernel, mutex, calls>>

SendOpened ==
    /\ At("uloop", "opened")
    /\ \/ th["uloop"].op = "send" /\ Go("uloop", "send")
       \/ th["uloop"].op = "sendonly" /\ Go("uloop", "write")
    /\ UNCHANGED <<device, mem, port, kernel, mutex, calls, slipped>>

Reply(st, by) ==
    /\ out' = [out EXCEPT ![sent] = [st |-> st, by |-> by]]
    /\ Go("uloop", "idle")

\* A failure is reported as a timeout to a caller that waits.
Failure == IF th["uloop"].op = "send" THEN "timeout" ELSE "error"

SendOpenFails ==
    /\ At("uloop", "failed") /\ th["uloop"].op \in {"send", "sendonly"}
    /\ Reply(Failure, None)
    /\ UNCHANGED <<device, mem, port, kernel, mutex, sent, slipped>>

\* Mutant: the port does not wait, so the response of before is still there.
SendUnprepared ==
    /\ At("uloop", "send") /\ Go("uloop", "write")
    /\ UNCHANGED <<device, mem, port, kernel, mutex, calls, slipped>>

\* The previous response is cleared and the port waits for this one.
SendBegin ==
    /\ At("uloop", "send")
    /\ port' = [port EXCEPT ![th["uloop"].inst].waiting = TRUE, ![th["uloop"].inst].by = None]
    /\ Go("uloop", "write")
    /\ UNCHANGED <<device, mem, kernel, mutex, calls, slipped>>

SendWrites ==
    /\ At("uloop", "write") /\ MyPort("uloop").fd \in attached
    /\ running' = Append(running, sent)
    /\ IF th["uloop"].op = "send"
       THEN Go("uloop", "wait") /\ UNCHANGED out
       ELSE Reply("sendonly", None)
    /\ UNCHANGED <<file, unplugs, line, mem, port, kernel, mutex, sent, slipped>>

\* The write fails, or a raw command is no hexadecimal string.
WriteFails ==
    /\ At("uloop", "write")
    /\ port' = [port EXCEPT ![th["uloop"].inst].waiting =
                    IF th["uloop"].op = "send" THEN FALSE ELSE @]
    /\ Reply(Failure, None)
    /\ UNCHANGED <<device, mem, kernel, mutex, sent, slipped>>

SendAnswered ==
    /\ At("uloop", "wait") /\ ~MyPort("uloop").waiting
    /\ Reply("success", MyPort("uloop").by)
    /\ UNCHANGED <<device, mem, port, kernel, mutex, sent, slipped>>

\* The timeout may win against an answer that came in the same moment.
SendTimesOut ==
    /\ At("uloop", "wait")
    /\ port' = [port EXCEPT ![th["uloop"].inst].waiting = FALSE]
    /\ Reply("timeout", None)
    /\ UNCHANGED <<device, mem, kernel, mutex, sent, slipped>>

\* close of a port that is listed; any other is answered with an error.
UbusClose ==
    /\ At("uloop", "idle") /\ mutex = "free"
    /\ \E i \in Listed : th' = [th EXCEPT !["uloop"] =
            [@ EXCEPT !.pc = "close", !.then = "destroy", !.inst = i, !.op = "close"]]
    /\ NoteMeeting
    /\ UNCHANGED <<device, mem, port, kernel, mutex, calls>>

Uloop ==
    \/ OpenBegin("uloop") \/ OpenFails("uloop") \/ OpenFd("uloop") \/ OpenMark("uloop")
    \/ OpenSpawn("uloop") \/ SpawnFails("uloop")
    \/ CloseBegin("uloop") \/ CloseJoin("uloop") \/ Joined("uloop") \/ CloseFd("uloop")
    \/ DestroyBegin \/ DestroyJoin \/ Unlink
    \/ UbusOpenReturns \/ SendAuto \/ SendOpened \/ SendOpenFails \/ SendBegin
    \/ SendWrites \/ WriteFails \/ SendAnswered \/ SendTimesOut

-----------------------------------------------------------------------------
(* The monitor thread walks the list with ports_mutex held. *)

BadFd(i) == port[i].fd # None /\ port[i].fd \notin fds

\* check_interval passes.  It is long against an open or a close of the port,
\* so it does not pass while one is under way.
IntervalPasses ==
    /\ th["uloop"].pc \in {"idle", "wait"} /\ At("monitor", "idle")
    /\ \E i \in Listed :
        /\ ~port[i].due
        /\ port' = [port EXCEPT ![i].due = TRUE]
    /\ UNCHANGED <<device, mem, kernel, th, mutex, calls, slipped>>

\* check_and_reconnect_port: reopen a closed port, close one whose node is
\* gone, and reopen one whose descriptor is not open any more.
MonitorCheck ==
    /\ At("monitor", "idle") /\ mutex = "free"
    /\ \E i \in Listed :
        /\ port[i].due /\ port' = [port EXCEPT ![i].due = FALSE]
        /\ th' = [th EXCEPT !["monitor"] = [@ EXCEPT !.inst = i, !.pc =
                IF port[i].is_open THEN (IF file /\ ~BadFd(i) THEN "done" ELSE "close")
                ELSE IF file THEN "open" ELSE "done",
                                                     !.then = IF file THEN "open" ELSE "done"]]
    /\ mutex' = "monitor"
    /\ NoteMeeting
    /\ UNCHANGED <<device, mem, kernel, calls>>

MonitorDone ==
    /\ th["monitor"].pc \in {"opened", "failed", "done"}
    /\ Go("monitor", "idle") /\ mutex' = "free"
    /\ UNCHANGED <<device, mem, port, kernel, calls, slipped>>

Monitor ==
    \/ OpenBegin("monitor") \/ OpenFails("monitor") \/ OpenFd("monitor")
    \/ OpenMark("monitor") \/ OpenSpawn("monitor") \/ SpawnFails("monitor")
    \/ CloseBegin("monitor") \/ CloseJoin("monitor") \/ Joined("monitor") \/ CloseFd("monitor")
    \/ MonitorDone

-----------------------------------------------------------------------------
(* reader_thread_func: a reader reads whatever descriptor its port has. *)

Own(r) == port[reader[r].inst]
Runs(r) == reader[r].state = "run"

ReaderStops(r) ==
    /\ Runs(r) /\ reader[r].lines = <<>> /\ Own(r).should_stop
    /\ reader' = [reader EXCEPT ![r].state = "done"]
    /\ UNCHANGED <<device, mem, port, fds, attached, opens, joined, th, mutex, calls, slipped>>

\* One read takes some of the lines that have arrived.
ReaderReads(r) ==
    /\ Runs(r) /\ reader[r].lines = <<>> /\ ~Own(r).should_stop /\ Own(r).is_open
    /\ Own(r).fd \in attached
    /\ \E n \in 1 .. Len(line) :
        /\ reader' = [reader EXCEPT ![r].lines = SubSeq(line, 1, n)]
        /\ line' = SubSeq(line, n + 1, Len(line))
    /\ UNCHANGED <<file, unplugs, running, mem, port, fds, attached, opens, joined, th, mutex,
                   calls, slipped>>

\* A line with an end flag completes whatever response the port waits for.
ReaderLine(r) ==
    /\ Runs(r) /\ reader[r].lines # <<>>
    /\ port' = IF Own(r).waiting
               THEN [port EXCEPT ![reader[r].inst].waiting = FALSE,
                                 ![reader[r].inst].by = Head(reader[r].lines)]
               ELSE port
    /\ reader' = [reader EXCEPT ![r].lines = Tail(@)]
    /\ UNCHANGED <<device, mem, fds, attached, opens, joined, th, mutex, calls, slipped>>

\* The device is gone, or the descriptor closed: the port is marked closed,
\* its descriptor and its thread handle stay.
ReaderFails(r) ==
    /\ Runs(r) /\ reader[r].lines = <<>> /\ ~Own(r).should_stop /\ Own(r).is_open
    /\ Own(r).fd \notin attached
    /\ port' = [port EXCEPT ![reader[r].inst].is_open = FALSE]
    /\ reader' = [reader EXCEPT ![r].state = "done"]
    /\ slipped' = slipped \cup {"failed"}
    /\ UNCHANGED <<device, mem, fds, attached, opens, joined, th, mutex, calls>>

Reader(r) == ReaderStops(r) \/ ReaderReads(r) \/ ReaderLine(r) \/ ReaderFails(r)

-----------------------------------------------------------------------------
(* The modem, and the process as a whole. *)

\* The modem runs its commands in turn and ends each with a final line.
ModemAnswers ==
    /\ running # <<>>
    /\ line' = Append(line, Head(running)) /\ running' = Tail(running)
    /\ UNCHANGED <<file, unplugs, mem, port, kernel, th, mutex, calls, slipped>>

Unplug ==
    /\ file /\ unplugs < MaxUnplug /\ sent + unplugs < MaxEvents
    /\ file' = FALSE /\ unplugs' = unplugs + 1
    /\ running' = <<>> /\ line' = <<>> /\ attached' = {}
    /\ UNCHANGED <<mem, port, fds, opens, reader, joined, th, mutex, calls, slipped>>

Plug ==
    /\ ~file /\ file' = TRUE
    /\ UNCHANGED <<unplugs, running, line, mem, port, kernel, th, mutex, calls, slipped>>

\* Undefined behaviour may end the process; procd starts it again.
Crash ==
    /\ Undefined
    /\ InitDaemon(mem', port', fds', attached', opens', reader', joined', th', mutex')
    /\ out' = [c \in Cmd |-> IF out[c].st = "busy" THEN [st |-> "error", by |-> None] ELSE out[c]]
    /\ slipped' = {}
    /\ UNCHANGED <<device, sent>>

Next ==
    \/ UbusOpen \/ UbusSendat("send") \/ UbusSendat("sendonly") \/ UbusClose
    \/ Uloop \/ IntervalPasses \/ MonitorCheck \/ Monitor
    \/ \E r \in Open : Reader(r)
    \/ ModemAnswers \/ Unplug \/ Plug \/ Crash

Spec == Init /\ [][Next]_vars

\* Threads that can run do: each takes its steps in the end.
FairSpec ==
    /\ Spec /\ WF_vars(Uloop) /\ WF_vars(Monitor)
    /\ \A r \in Open : WF_vars(Reader(r))

-----------------------------------------------------------------------------
(* Properties. *)

\* A caller is told of success only on a final line the modem sent for its
\* own command or for an earlier one, and on one that no other caller was
\* told of.  As long as no reader has failed and no open or close met another
\* one, so that one reader hands on the lines, the answers lag by no more
\* commands than were given up before: timed out, failed, cut off by a crash or
\* sent without waiting (send_at_command_with_response clears the response,
\* not the line).
AnswersLagByGivenUp ==
    [][\A c \in Cmd : out[c].st # "success" /\ out'[c].st = "success" =>
         LET gaveUp == {d \in 1 .. c - 1 : out[d].st \in {"timeout", "sendonly", "error"}}
         IN  /\ out'[c].by \in 1 .. c
             /\ \A d \in Cmd \ {c} : out[d].st = "success" => out[d].by # out'[c].by
             /\ slipped = {} => c - out'[c].by <= Cardinality(gaveUp)]_vars

\* The monitor never works on a freed instance: destroy_port_instance takes
\* it off the list, with the mutex, before it frees it.
MonitorOnListed == th["monitor"].pc # "idle" => mem[th["monitor"].inst] = "listed"

\* Descriptors no port has and no open is about to use.
Lost == fds \ ({port[i].fd : i \in Listed}
                \cup {th[t].got : t \in {u \in Thread : th[u].pc \in {"mark", "spawn"}}})

\* As long as no reader has failed and no two threads were inside an open or
\* a close of the port, no descriptor is lost, every reader that runs is the
\* one its listed port would join, and nothing undefined happens (the shared
\* fields of at_port_instance_t are unprotected in open_at_port,
\* close_at_port and destroy_port_instance).
OrderlyIsClean ==
    slipped = {} => /\ Lost = {} /\ ~Undefined
                /\ \A r \in Open : Runs(r) =>
                    mem[reader[r].inst] = "listed" /\ Own(r).thread = r

\* Every ubus call is answered, whatever the device does: joins end, the
\* mutex is released and the wait for the modem times out, unless an open met
\* a close (should_stop is set by one and cleared by the other).
CallsReturn == ~At("uloop", "idle") ~> (At("uloop", "idle") \/ "met" \in slipped)
=============================================================================
