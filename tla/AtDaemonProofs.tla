--------------------------- MODULE AtDaemonProofs ---------------------------
(***************************************************************************)
(* The AT daemon, for any number of instances of a port, opens, commands   *)
(* and cable losses. The monitor works on the port that is listed; while   *)
(* no reader has failed and no open or close met another, the port has     *)
(* one descriptor and its one reader, or is being opened or closed by one  *)
(* thread; and the final lines of the modem stay in the order of their     *)
(* commands from the wire to the call that takes them.                     *)
(***************************************************************************)
EXTENDS AtDaemon, TLAPS

\* The type invariant by parts.
ThreadRecord ==
    [pc : Steps, then : Steps \cup {"destroyed"}, inst : Inst,
     got : Open \cup {0}, target : Open \cup {0},
     op : {"none", "open", "new", "send", "sendonly", "close"}]
PortRecord ==
    [fd : Open \cup {0}, is_open : BOOLEAN, should_stop : BOOLEAN,
     thread : Open \cup {0}, waiting : BOOLEAN, by : Cmd \cup {0}, due : BOOLEAN]
ReaderRecord == [state : {"none", "run", "done"}, inst : Inst, lines : Seq(Cmd)]
ThreadsTyped == th \in [Thread -> ThreadRecord]
PortsTyped ==
    /\ mem \in [Inst -> {"unused", "listed", "freed"}] /\ port \in [Inst -> PortRecord]
KernelTyped ==
    /\ fds \subseteq Open /\ attached \subseteq fds /\ opens \in 0 .. MaxOpen
    /\ joined \subseteq Open
ReadersTyped == reader \in [Open -> ReaderRecord] /\ line \in Seq(Cmd)
CallsTyped ==
    /\ running \in Seq(Cmd) /\ sent \in 0 .. MaxCmd
    /\ out \in [Cmd -> [st : Outcome, by : Cmd \cup {0}]]
FlagsTyped ==
    /\ file \in BOOLEAN /\ unplugs \in 0 .. MaxUnplug /\ mutex \in {"free", "uloop", "monitor"}
    /\ slipped \subseteq {"failed", "met"}

\* Where a thread is, what it still has to do and what it works with.
Closing == {"close", "join", "joining", "closefd"}
Goals == {"idle", "access", "open", "done", "destroy", "unlink", "destroyed"}
Sending == {"send", "sendonly"}
CallOf(t) ==
    /\ th[t].then \in Goals /\ (th[t].then = "destroyed" => th[t].pc = "joining")
    /\ th[t].pc \in Closing => th[t].then # "idle"
    /\ th[t].pc = "joining" => th[t].target \in Open
    /\ th[t].pc \in {"mark", "spawn"} => th[t].got \in Open
CommandOf ==
    /\ th["uloop"].op \in Sending => sent \in Cmd
    /\ th["uloop"].pc = "idle" => th["uloop"].op = "none"
    /\ th["uloop"].pc \in {"send", "write", "wait"} => th["uloop"].op \in Sending
CallInv == (\A t \in Thread : CallOf(t)) /\ CommandOf

\* One port at most is listed.  A thread that is under way works on it, and the
\* monitor does so with mutex held.
ListInv ==
    /\ \A i, j \in Listed : i = j
    /\ th["monitor"].pc # "idle" => mutex = "monitor" /\ th["monitor"].inst \in Listed
    /\ th["uloop"].pc # "idle" => th["uloop"].inst \in Listed

AtdTyped ==
    /\ ThreadsTyped /\ PortsTyped /\ KernelTyped /\ ReadersTyped /\ CallsTyped /\ FlagsTyped
    /\ CallInv /\ ListInv

\* What a step does to the thread that takes it: it goes on, or its call ends.
Others(t) == \A u \in Thread \ {t} : th'[u] = th[u]
Fate(t, pc1, then1, got1, target1) ==
    /\ ThreadsTyped' /\ Others(t)
    /\ th'[t].pc = pc1 /\ th'[t].then = then1 /\ th'[t].got = got1 /\ th'[t].target = target1
    /\ th'[t].inst = th[t].inst /\ th'[t].op = th[t].op
GoesTo(t, s) == Fate(t, s, th[t].then, th[t].got, th[t].target)
Rests(t) == ThreadsTyped' /\ Others(t) /\ th'[t] = Resting

\* A thread at rest is well typed.
LEMMA RestingTyped == Resting \in ThreadRecord
  BY AtDaemonAssumption DEF ThreadRecord, Resting, Steps, None, Inst

\* Go sends a thread on with all it works with ...
LEMMA GoGoes ==
    ASSUME ThreadsTyped, NEW t \in Thread, NEW s \in Steps \ {"idle"}, Go(t, s)
    PROVE  GoesTo(t, s)
  <1>1. th' = [th EXCEPT ![t] = [th[t] EXCEPT !.pc = s]] BY Zenon DEF Go
  <1>2. th[t] \in ThreadRecord BY Zenon DEF ThreadsTyped
  <1> QED BY <1>1, <1>2, Zenon DEF GoesTo, Fate, Others, ThreadsTyped, ThreadRecord

\* ... or lets it rest.
LEMMA GoRests ==
    ASSUME ThreadsTyped, NEW t \in Thread, Go(t, "idle") PROVE Rests(t)
  <1>1. th' = [th EXCEPT ![t] = Resting] BY Zenon DEF Go
  <1> QED BY <1>1, RestingTyped, Zenon DEF Rests, Others, ThreadsTyped

\* open_at_port.
LEMMA OpenBeginMoves ==
    ASSUME ThreadsTyped, NEW t \in Thread, OpenBegin(t)
    PROVE  \/ MyPort(t).is_open /\ Fate(t, "close", "access", th[t].got, th[t].target)
           \/ ~MyPort(t).is_open /\ GoesTo(t, "access")
  <1>1. CASE MyPort(t).is_open
    <2>1. th' = [th EXCEPT ![t].pc = "close", ![t].then = "access"] BY <1>1, Zenon DEF OpenBegin
    <2>2. "close" \in Steps /\ "access" \in Steps BY Zenon DEF Steps
    <2> QED BY <1>1, <2>1, <2>2, ZenonT(60) DEF Fate, Others, ThreadsTyped, ThreadRecord
  <1>2. CASE ~MyPort(t).is_open
    <2>1. Go(t, "access") BY <1>2, Zenon DEF OpenBegin
    <2> QED BY <1>2, <2>1, GoGoes, Zenon DEF Steps
  <1> QED BY <1>1, <1>2, Zenon

\* The rest of open_at_port, step by step.
LEMMA OpenMoves ==
    ASSUME ThreadsTyped, KernelTyped, NEW t \in Thread
    PROVE  /\ OpenFails(t) => GoesTo(t, "failed")
           /\ OpenFd(t) => opens' \in Open /\ Fate(t, "mark", th[t].then, opens', th[t].target)
           /\ OpenMark(t) => GoesTo(t, "spawn")
           /\ OpenSpawn(t) => Fate(t, "opened", th[t].then, 0, th[t].target)
           /\ SpawnFails(t) => GoesTo(t, "failed")
  <1>1. OpenFails(t) \/ SpawnFails(t) => Go(t, "failed")
       BY Zenon DEF OpenFails, SpawnFails
  <1>2. OpenMark(t) => Go(t, "spawn") BY Zenon DEF OpenMark
  <1>3. ASSUME OpenFd(t)
        PROVE  opens' \in Open /\ Fate(t, "mark", th[t].then, opens', th[t].target)
    <2>1. opens' = opens + 1 /\ opens < MaxOpen /\ th' = [th EXCEPT ![t].pc = "mark", ![t].got = opens']
         BY <1>3, Zenon DEF OpenFd
    <2>2. opens' \in Open BY <2>1, AtDaemonAssumption DEF KernelTyped, Open
    <2>3. "mark" \in Steps BY Zenon DEF Steps
    <2> QED BY <2>1, <2>2, <2>3, ZenonT(60) DEF Fate, Others, ThreadsTyped, ThreadRecord
  <1>4. ASSUME OpenSpawn(t) PROVE Fate(t, "opened", th[t].then, 0, th[t].target)
    <2>1. th' = [th EXCEPT ![t].pc = "opened", ![t].got = 0] BY <1>4, Zenon DEF OpenSpawn, None
    <2>2. "opened" \in Steps BY Zenon DEF Steps
    <2> QED BY <2>1, <2>2, ZenonT(60) DEF Fate, Others, ThreadsTyped, ThreadRecord
  <1> QED BY <1>1, <1>2, <1>3, <1>4, GoGoes, Zenon DEF Steps

\* close_at_port.
LEMMA CloseBeginMoves ==
    ASSUME AtdTyped, NEW t \in Thread, CloseBegin(t)
    PROVE  \/ MyPort(t).is_open /\ GoesTo(t, "join")
           \/ /\ ~MyPort(t).is_open /\ th[t].then \in Steps \ {"idle"}
              /\ Fate(t, th[t].then, "idle", th[t].got, th[t].target)
  <1>0. ThreadsTyped BY Zenon DEF AtdTyped
  <1>1. CASE MyPort(t).is_open
    <2>1. Go(t, "join") BY <1>1, Zenon DEF CloseBegin
    <2> QED BY <1>0, <1>1, <2>1, GoGoes, Zenon DEF Steps
  <1>2. CASE ~MyPort(t).is_open
    <2>1. th' = [th EXCEPT ![t].pc = th[t].then, ![t].then = "idle"] /\ th[t].pc = "close"
         BY <1>2, Zenon DEF CloseBegin, At
    <2>2. th[t].then \in Steps \ {"idle"} BY <2>1, Zenon DEF AtdTyped, CallInv, CallOf, Goals,
                                             Steps,
                                             Closing
    <2> QED BY <1>0, <1>2, <2>1, <2>2 DEF Fate, Others, ThreadsTyped, ThreadRecord, Steps
  <1> QED BY <1>1, <1>2, Zenon

\* close_at_port, and the join it waits in.
LEMMA CloseMoves ==
    ASSUME AtdTyped, NEW t \in Thread
    PROVE  /\ CloseJoin(t) =>
                Fate(t, IF MyPort(t).thread = 0 THEN "closefd" ELSE "joining", th[t].then,
                     th[t].got, MyPort(t).thread)
           /\ Joined(t) =>
                \/ th[t].then # "destroyed" /\ Fate(t, "closefd", th[t].then, th[t].got, 0)
                \/ th[t].then = "destroyed" /\ Fate(t, "close", "unlink", th[t].got, 0)
           /\ CloseFd(t) =>
                /\ th[t].then \in Steps \ {"idle"}
                /\ Fate(t, th[t].then, "idle", th[t].got, th[t].target)
  <1> USE DEF Fate, Others, ThreadsTyped, ThreadRecord
  <1>0. /\ ThreadsTyped /\ "close" \in Steps /\ "unlink" \in Steps
        /\ "closefd" \in Steps /\ "joining" \in Steps /\ "idle" \in Steps
       BY Zenon DEF AtdTyped, Steps
  <1>1. ASSUME CloseJoin(t)
        PROVE  Fate(t, IF MyPort(t).thread = 0 THEN "closefd" ELSE "joining", th[t].then,
                    th[t].got, MyPort(t).thread)
    <2>1. th' = [th EXCEPT ![t].target = MyPort(t).thread,
                           ![t].pc = IF MyPort(t).thread = 0 THEN "closefd" ELSE "joining"]
         BY <1>1, Zenon DEF CloseJoin, None
    <2>2. MyPort(t).thread \in Open \cup {0}
         BY <1>0, Zenon DEF MyPort, AtdTyped, PortsTyped, PortRecord
    <2> QED BY <1>0, <2>1, <2>2, ZenonT(60)
  <1>2. ASSUME Joined(t), th[t].then # "destroyed"
        PROVE  Fate(t, "closefd", th[t].then, th[t].got, 0)
    <2>1. th' = [th EXCEPT ![t].pc = "closefd", ![t].target = 0] BY <1>2, Zenon DEF Joined, None
    <2> QED BY <1>0, <2>1, ZenonT(60)
  <1>3. ASSUME Joined(t), th[t].then = "destroyed"
        PROVE  Fate(t, "close", "unlink", th[t].got, 0)
    <2>1. th' = [th EXCEPT ![t].pc = "close", ![t].target = 0, ![t].then = "unlink"]
         BY <1>3, Zenon DEF Joined, None
    <2> QED BY <1>0, <2>1, ZenonT(60)
  <1>4. ASSUME CloseFd(t)
        PROVE  /\ th[t].then \in Steps \ {"idle"}
               /\ Fate(t, th[t].then, "idle", th[t].got, th[t].target)
    <2>1. th' = [th EXCEPT ![t].pc = th[t].then, ![t].then = "idle"] /\ th[t].pc = "closefd"
         BY <1>4, Zenon DEF CloseFd, At
    <2>2. th[t].then \in Steps \ {"idle"} BY <2>1, Zenon DEF AtdTyped, CallInv, CallOf, Goals,
                                             Closing,
                                             Steps
    <2> QED BY <1>0, <2>1, <2>2, ZenonT(60)
  <1> QED BY <1>1, <1>2, <1>3, <1>4, Zenon

\* destroy_port_instance.
LEMMA DestroyMoves ==
    ASSUME AtdTyped
    PROVE  /\ DestroyBegin => GoesTo("uloop", "djoin")
           /\ DestroyJoin => \/ /\ MyPort("uloop").thread = 0
                                /\ Fate("uloop", "close", "unlink", th["uloop"].got, th["uloop"].target)
                             \/ /\ MyPort("uloop").thread \in Open
                                /\ Fate("uloop", "joining", "destroyed", th["uloop"].got,
                                        MyPort("uloop").thread)
           /\ Unlink => Rests("uloop")
  <1>0. /\ ThreadsTyped /\ "uloop" \in Thread /\ "close" \in Steps /\ "unlink" \in Steps
        /\ "joining" \in Steps /\ "djoin" \in Steps \ {"idle"}
       BY Zenon DEF AtdTyped, Steps, Thread
  <1>1. DestroyBegin => GoesTo("uloop", "djoin") BY <1>0, GoGoes, Zenon DEF DestroyBegin
  <1>2. MyPort("uloop").thread \in Open \cup {0}
       BY <1>0, Zenon DEF MyPort, AtdTyped, PortsTyped, PortRecord, ThreadsTyped, ThreadRecord
  <1>3. ASSUME DestroyJoin, MyPort("uloop").thread = 0
        PROVE  Fate("uloop", "close", "unlink", th["uloop"].got, th["uloop"].target)
    <2>1. th' = [th EXCEPT !["uloop"] = [th["uloop"] EXCEPT !.pc = "close", !.then = "unlink"]]
         BY <1>3, Zenon DEF DestroyJoin, None
    <2> QED BY <1>0, <2>1, ZenonT(60) DEF Fate, Others, ThreadsTyped, ThreadRecord
  <1>4. ASSUME DestroyJoin, MyPort("uloop").thread # 0
        PROVE  Fate("uloop", "joining", "destroyed", th["uloop"].got, MyPort("uloop").thread)
    <2>1. th' = [th EXCEPT !["uloop"] = [th["uloop"] EXCEPT
                    !.pc = "joining", !.target = MyPort("uloop").thread, !.then = "destroyed"]]
         BY <1>4, Zenon DEF DestroyJoin, None
    <2> QED BY <1>0, <1>2, <2>1, ZenonT(60) DEF Fate, Others, ThreadsTyped, ThreadRecord
  <1>5. Unlink => Rests("uloop") BY <1>0, GoRests, Zenon DEF Unlink
  <1> QED BY <1>1, <1>2, <1>3, <1>4, <1>5, Zenon

\* The methods of the daemon: a call takes the listed instance, and goes on.
Takes(t, i, s, n, o) ==
    /\ ThreadsTyped' /\ Others(t)
    /\ th'[t].pc = s /\ th'[t].then = n /\ th'[t].inst = i /\ th'[t].op = o
    /\ th'[t].got = th[t].got /\ th'[t].target = th[t].target
Fresh(i) ==
    /\ Listed = {} /\ i \in Inst /\ mem[i] = "unused" /\ mem' = [mem EXCEPT ![i] = "listed"]

\* A ubus call takes the port that is listed, or makes a new one.
LEMMA WithInstanceMoves ==
    ASSUME ThreadsTyped, NEW op \in {"none", "open", "new", "send", "sendonly", "close"},
           NEW fresh \in {"none", "open", "new", "send", "sendonly", "close"},
           NEW s \in Steps, WithInstance(op, fresh, s)
    PROVE  \/ UNCHANGED mem /\ \E i \in Listed : Takes("uloop", i, s, th["uloop"].then, op)
           \/ \E i \in Inst : Fresh(i) /\ Takes("uloop", i, s, th["uloop"].then, fresh)
  <1>0. "uloop" \in Thread /\ Listed \subseteq Inst BY Zenon DEF Thread, Listed
  <1>1. CASE Listed # {}
    <2>1. PICK i \in Listed : th' = [th EXCEPT !["uloop"] =
                    [th["uloop"] EXCEPT !.pc = s, !.inst = i, !.op = op]]
         BY <1>1, Zenon DEF WithInstance
    <2>2. UNCHANGED mem BY <1>1, Zenon DEF WithInstance
    <2>3. i \in Inst BY <1>0, Zenon
    <2>4. Takes("uloop", i, s, th["uloop"].then, op)
         BY <1>0, <2>1, <2>3, ZenonT(60) DEF Takes, Others, ThreadsTyped, ThreadRecord
    <2> QED BY <2>2, <2>4, Zenon
  <1>2. CASE Listed = {}
    <2>1. PICK i \in Inst :
            /\ mem[i] = "unused" /\ mem' = [mem EXCEPT ![i] = "listed"]
            /\ th' = [th EXCEPT !["uloop"] = [th["uloop"] EXCEPT !.pc = s, !.inst = i, !.op = fresh]]
         BY <1>2, Zenon DEF WithInstance
    <2>2. Takes("uloop", i, s, th["uloop"].then, fresh)
         BY <1>0, <2>1, ZenonT(60) DEF Takes, Others, ThreadsTyped, ThreadRecord
    <2>3. Fresh(i) BY <1>2, <2>1, Zenon DEF Fresh
    <2> QED BY <2>2, <2>3, Zenon
  <1> QED BY <1>1, <1>2, Zenon

\* ubus_close takes the listed port.
LEMMA UbusCloseMoves ==
    ASSUME ThreadsTyped, UbusClose
    PROVE  \E i \in Listed : Takes("uloop", i, "close", "destroy", "close")
  <1>1. PICK i \in Listed : th' = [th EXCEPT !["uloop"] =
            [th["uloop"] EXCEPT !.pc = "close", !.then = "destroy", !.inst = i, !.op = "close"]]
       BY Zenon DEF UbusClose
  <1>2. "uloop" \in Thread /\ i \in Inst /\ "close" \in Steps /\ "destroy" \in Steps
       BY Zenon DEF Thread, Listed, Steps
  <1>3. Takes("uloop", i, "close", "destroy", "close")
       BY <1>1, <1>2, ZenonT(60) DEF Takes, Others, ThreadsTyped, ThreadRecord
  <1> QED BY <1>3, Zenon

\* Where the steps of a call lead.
LEMMA CallMoves ==
    ASSUME ThreadsTyped
    PROVE  /\ UbusOpenReturns => \/ Rests("uloop")
                                 \/ At("uloop", "failed") /\ th["uloop"].op = "new" /\ GoesTo("uloop", "destroy")
           /\ SendAuto => GoesTo("uloop", IF MyPort("uloop").is_open THEN "opened" ELSE "open")
           /\ SendOpened => \/ GoesTo("uloop", "send") /\ th["uloop"].op \in Sending
                            \/ GoesTo("uloop", "write") /\ th["uloop"].op \in Sending
           /\ SendBegin => GoesTo("uloop", "write")
           /\ SendWrites => GoesTo("uloop", "wait") \/ Rests("uloop")
           /\ SendOpenFails \/ WriteFails \/ SendAnswered \/ SendTimesOut => Rests("uloop")
           /\ MonitorDone => Rests("monitor")
  <1>0. /\ "uloop" \in Thread /\ "monitor" \in Thread
        /\ {"destroy", "opened", "open", "send", "write", "wait"} \subseteq Steps \ {"idle"}
       BY Zenon DEF Steps, Thread
  <1>1. UbusOpenReturns =>
            \/ Go("uloop", "idle")
            \/ At("uloop", "failed") /\ th["uloop"].op = "new" /\ Go("uloop", "destroy")
       BY Zenon DEF UbusOpenReturns
  <1> DEFINE after == IF MyPort("uloop").is_open THEN "opened" ELSE "open"
  <1>2. SendAuto => GoesTo("uloop", after)
    <2>1. SendAuto => Go("uloop", after) BY Zenon DEF SendAuto
    <2>2. after \in Steps \ {"idle"} BY <1>0, Zenon
    <2> HIDE DEF after
    <2> QED BY <1>0, <2>1, <2>2, GoGoes, Zenon
  <1>3. /\ SendOpened => /\ Go("uloop", "send") \/ Go("uloop", "write")
                         /\ th["uloop"].op \in Sending
        /\ SendBegin => Go("uloop", "write")
       BY Zenon DEF SendOpened, SendBegin, Sending
  <1>4. SendWrites => Go("uloop", "wait") \/ Go("uloop", "idle") BY Zenon DEF SendWrites, Reply
  <1>5. SendOpenFails \/ WriteFails \/ SendAnswered \/ SendTimesOut => Go("uloop", "idle")
       BY Zenon DEF SendOpenFails, WriteFails, SendAnswered, SendTimesOut, Reply
  <1>6. MonitorDone => Go("monitor", "idle") BY Zenon DEF MonitorDone
  <1>7. \A s \in {"destroy", "opened", "open", "send", "write", "wait"} :
            Go("uloop", s) => GoesTo("uloop", s)
       BY <1>0, GoGoes, Zenon
  <1>8. \A t \in Thread : Go(t, "idle") => Rests(t) BY GoRests, Zenon
  <1> QED BY <1>0, <1>1, <1>2, <1>3, <1>4, <1>5, <1>6, <1>7, <1>8, Zenon

\* The monitor takes a port that is due.
LEMMA MonitorMoves ==
    ASSUME AtdTyped, MonitorCheck
    PROVE  \E i \in Listed, s \in {"done", "close", "open"}, n \in {"open", "done"} :
              /\ Takes("monitor", i, s, n, th["monitor"].op)
              /\ port[i].due /\ port' = [port EXCEPT ![i].due = FALSE]
              /\ s = "open" => ~port[i].is_open
  <1>0. ThreadsTyped BY Zenon DEF AtdTyped
  <1>1. PICK i \in Listed :
            /\ port[i].due /\ port' = [port EXCEPT ![i].due = FALSE]
            /\ th' = [th EXCEPT !["monitor"] = [th["monitor"] EXCEPT !.inst = i, !.pc =
                    IF port[i].is_open THEN (IF file /\ ~BadFd(i) THEN "done" ELSE "close")
                    ELSE IF file THEN "open" ELSE "done",
                                        !.then = IF file THEN "open" ELSE "done"]]
       BY Zenon DEF MonitorCheck
  <1> DEFINE n == IF file THEN "open" ELSE "done"
             s == IF port[i].is_open THEN (IF file /\ ~BadFd(i) THEN "done" ELSE "close")
                  ELSE IF file THEN "open" ELSE "done"
  <1>2. /\ s \in {"done", "close", "open"} /\ n \in {"open", "done"}
        /\ s = "open" => ~port[i].is_open
       BY Zenon
  <1>3. "monitor" \in Thread /\ i \in Inst /\ {"done", "close", "open"} \subseteq Steps
       BY Zenon DEF Thread, Listed, Steps
  <1>4. th' = [th EXCEPT !["monitor"] = [th["monitor"] EXCEPT !.inst = i, !.pc = s, !.then = n]]
       BY <1>1, Zenon
  <1> HIDE DEF s, n
  <1>5. s \in Steps /\ n \in Steps BY <1>2, <1>3, Zenon
  <1>6. Takes("monitor", i, s, n, th["monitor"].op)
       BY <1>0, <1>3, <1>4, <1>5, ZenonT(60) DEF Takes, Others, ThreadsTyped, ThreadRecord
  <1> QED BY <1>1, <1>2, <1>6, Zenon

-----------------------------------------------------------------------------
(* Types.                                                                  *)

\* The step of a thread other than the two below.
UloopCall ==
    \/ DestroyBegin \/ DestroyJoin \/ Unlink \/ UbusOpenReturns \/ SendAuto \/ SendOpened
    \/ SendOpenFails \/ SendBegin \/ SendWrites \/ WriteFails \/ SendAnswered \/ SendTimesOut
UloopStarts == UbusOpen \/ UbusSendat("send") \/ UbusSendat("sendonly") \/ UbusClose
PortStep(t) ==
    \/ OpenBegin(t) \/ OpenFails(t) \/ OpenFd(t) \/ OpenMark(t) \/ OpenSpawn(t) \/ SpawnFails(t)
    \/ CloseBegin(t) \/ CloseJoin(t) \/ Joined(t) \/ CloseFd(t)
LEMMA StepCases ==
    ASSUME [Next]_vars
    PROVE  \/ UNCHANGED vars \/ (\E t \in Thread : PortStep(t)) \/ UloopCall \/ UloopStarts
           \/ IntervalPasses \/ MonitorCheck \/ MonitorDone \/ (\E r \in Open : Reader(r))
           \/ ModemAnswers \/ Unplug \/ Plug \/ Crash
  <1>1. "uloop" \in Thread /\ "monitor" \in Thread BY Zenon DEF Thread
  <1> QED BY <1>1, Zenon DEF Next, Uloop, Monitor, UloopCall, UloopStarts, PortStep

\* Every step keeps the threads typed.
LEMMA ThreadsStep == ASSUME AtdTyped, [Next]_vars PROVE ThreadsTyped'
  <1>0. ThreadsTyped /\ KernelTyped BY Zenon DEF AtdTyped
  <1>1. ASSUME NEW t \in Thread, PortStep(t) PROVE ThreadsTyped'
    BY <1>0, <1>1, OpenBeginMoves, OpenMoves, CloseBeginMoves, CloseMoves, Zenon
       DEF PortStep, Fate, GoesTo
  <1>2. CASE UloopCall BY <1>0, <1>2, DestroyMoves, CallMoves, Zenon DEF UloopCall, Fate, GoesTo, Rests
  <1>3. CASE UloopStarts
    <2>1. "open" \in Steps /\ "auto" \in Steps BY Zenon DEF Steps
    <2>2. CASE UbusOpen BY <1>0, <2>1, <2>2, WithInstanceMoves, Zenon DEF UbusOpen, Takes
    <2>3. CASE UbusSendat("send") BY <1>0, <2>1, <2>3, WithInstanceMoves, Zenon DEF UbusSendat, Takes
    <2>4. CASE UbusSendat("sendonly") BY <1>0, <2>1, <2>4, WithInstanceMoves, Zenon DEF UbusSendat, Takes
    <2>5. CASE UbusClose BY <1>0, <2>5, UbusCloseMoves, Zenon DEF Takes
    <2> QED BY <1>3, <2>2, <2>3, <2>4, <2>5, Zenon DEF UloopStarts
  <1>4. CASE MonitorCheck \/ MonitorDone
    BY <1>0, <1>4, MonitorMoves, CallMoves, Zenon DEF Takes, Rests
  <1>5. CASE \/ UNCHANGED vars \/ IntervalPasses \/ (\E r \in Open : Reader(r))
             \/ ModemAnswers \/ Unplug \/ Plug
    <2>1. th' = th
      BY <1>5, Zenon DEF vars, IntervalPasses, Reader, ReaderStops, ReaderReads, ReaderLine,
         ReaderFails, ModemAnswers, Unplug, Plug
    <2> QED BY <1>0, <2>1, Zenon DEF ThreadsTyped
  <1>6. CASE Crash
    <2>1. th' = [t \in Thread |-> Resting] BY <1>6, Zenon DEF Crash, InitDaemon
    <2> QED BY <2>1, RestingTyped, Zenon DEF ThreadsTyped
  <1> QED BY <1>1, <1>2, <1>3, <1>4, <1>5, <1>6, StepCases, Zenon

\* A port that was just made is well typed.
LEMMA NewPortTyped == NewPort \in PortRecord
  BY Zenon DEF NewPort, PortRecord, None

\* The updates of a port that the daemon makes.
LEMMA PortUpdates ==
    ASSUME port \in [Inst -> PortRecord], NEW i \in Inst
    PROVE  /\ \A x \in Open \cup {0} : [port EXCEPT ![i].fd = x] \in [Inst -> PortRecord]
           /\ \A x \in Open \cup {0} : [port EXCEPT ![i].thread = x] \in [Inst -> PortRecord]
           /\ \A b \in BOOLEAN : [port EXCEPT ![i].due = b] \in [Inst -> PortRecord]
           /\ \A b \in BOOLEAN : [port EXCEPT ![i].waiting = b] \in [Inst -> PortRecord]
           /\ \A b \in BOOLEAN : [port EXCEPT ![i].should_stop = b] \in [Inst -> PortRecord]
           /\ [port EXCEPT ![i].is_open = FALSE] \in [Inst -> PortRecord]
           /\ [port EXCEPT ![i].fd = 0, ![i].is_open = FALSE] \in [Inst -> PortRecord]
           /\ [port EXCEPT ![i].is_open = TRUE, ![i].should_stop = FALSE] \in [Inst -> PortRecord]
           /\ \A b \in BOOLEAN, c \in Cmd \cup {0} :
                 [port EXCEPT ![i].waiting = b, ![i].by = c] \in [Inst -> PortRecord]
  <1>1. \A x \in Open \cup {0} : [port EXCEPT ![i].fd = x] \in [Inst -> PortRecord]
       BY Zenon DEF PortRecord
  <1>2. \A x \in Open \cup {0} : [port EXCEPT ![i].thread = x] \in [Inst -> PortRecord]
       BY Zenon DEF PortRecord
  <1>3. \A b \in BOOLEAN : [port EXCEPT ![i].due = b] \in [Inst -> PortRecord]
       BY Zenon DEF PortRecord
  <1>4. \A b \in BOOLEAN : [port EXCEPT ![i].waiting = b] \in [Inst -> PortRecord]
       BY Zenon DEF PortRecord
  <1>5. \A b \in BOOLEAN : [port EXCEPT ![i].should_stop = b] \in [Inst -> PortRecord]
       BY Zenon DEF PortRecord
  <1>6. [port EXCEPT ![i].is_open = FALSE] \in [Inst -> PortRecord]
       BY Zenon DEF PortRecord
  <1>7. [port EXCEPT ![i].fd = 0, ![i].is_open = FALSE] \in [Inst -> PortRecord]
       BY ZenonT(60) DEF PortRecord
  <1>8. [port EXCEPT ![i].is_open = TRUE, ![i].should_stop = FALSE] \in [Inst -> PortRecord]
       BY ZenonT(60) DEF PortRecord
  <1>9. \A b \in BOOLEAN, c \in Cmd \cup {0} :
            [port EXCEPT ![i].waiting = b, ![i].by = c] \in [Inst -> PortRecord]
       BY ZenonT(60) DEF PortRecord
  <1> QED BY <1>1, <1>2, <1>3, <1>4, <1>5, <1>6, <1>7, <1>8, <1>9, Zenon

\* Memory, and the fields of a port.
LEMMA PortsStep == ASSUME AtdTyped, [Next]_vars PROVE PortsTyped'
  <1>0. /\ mem \in [Inst -> {"unused", "listed", "freed"}] /\ port \in [Inst -> PortRecord]
        /\ \A t \in Thread : th[t].inst \in Inst /\ th[t].got \in Open \cup {0}
        /\ KernelTyped /\ "uloop" \in Thread /\ None = 0
       BY Zenon DEF AtdTyped, PortsTyped, ThreadsTyped, ThreadRecord, Thread, None
  <1>1. ASSUME NEW t \in Thread, PortStep(t) PROVE PortsTyped'
    <2>1. mem' = mem
      BY <1>1, Zenon DEF PortStep, OpenBegin, OpenFails, OpenFd, OpenMark, OpenSpawn, SpawnFails,
         CloseBegin, CloseJoin, Joined, CloseFd
    <2>2. th[t].inst \in Inst BY <1>0, Zenon
    <2>3. CASE OpenFd(t)
      <3>1. port' = [port EXCEPT ![th[t].inst].fd = opens'] BY <2>3, Zenon DEF OpenFd
      <3>2. opens' \in Open BY <1>0, <2>3, OpenMoves, Zenon DEF AtdTyped
      <3> QED BY <1>0, <2>1, <2>2, <3>1, <3>2, PortUpdates, Zenon DEF PortsTyped
    <2>4. CASE OpenSpawn(t)
      <3>1. port' = [port EXCEPT ![th[t].inst].thread = th[t].got] BY <2>4, Zenon DEF OpenSpawn
      <3> QED BY <1>0, <2>1, <2>2, <3>1, PortUpdates, Zenon DEF PortsTyped
    <2>5. CASE OpenMark(t)
      <3>1. port' = [port EXCEPT ![th[t].inst].is_open = TRUE, ![th[t].inst].should_stop = FALSE]
           BY <2>5, Zenon DEF OpenMark
      <3> QED BY <1>0, <2>1, <2>2, <3>1, PortUpdates, Zenon DEF PortsTyped
    <2>6. CASE SpawnFails(t) \/ CloseFd(t)
      <3>1. port' = [port EXCEPT ![th[t].inst].fd = 0, ![th[t].inst].is_open = FALSE]
           BY <1>0, <2>6, Zenon DEF SpawnFails, CloseFd
      <3> QED BY <1>0, <2>1, <2>2, <3>1, PortUpdates, Zenon DEF PortsTyped
    <2>7. CASE OpenBegin(t) \/ OpenFails(t) \/ CloseBegin(t) \/ CloseJoin(t) \/ Joined(t)
      <3>1. \/ port' = port \/ port' = [port EXCEPT ![th[t].inst].fd = 0]
            \/ port' = [port EXCEPT ![th[t].inst].should_stop = TRUE]
            \/ port' = [port EXCEPT ![th[t].inst].thread = 0]
           BY <1>0, <2>7, Zenon DEF OpenBegin, OpenFails, CloseBegin, CloseJoin, Joined
      <3>2. CASE port' = port BY <1>0, <2>1, <3>2, Zenon DEF PortsTyped
      <3>3. CASE port' = [port EXCEPT ![th[t].inst].fd = 0]
        BY <1>0, <2>1, <2>2, <3>3, PortUpdates, Zenon DEF PortsTyped
      <3>4. CASE port' = [port EXCEPT ![th[t].inst].should_stop = TRUE]
        BY <1>0, <2>1, <2>2, <3>4, PortUpdates, Zenon DEF PortsTyped
      <3>5. CASE port' = [port EXCEPT ![th[t].inst].thread = 0]
        BY <1>0, <2>1, <2>2, <3>5, PortUpdates, Zenon DEF PortsTyped
      <3> QED BY <3>1, <3>2, <3>3, <3>4, <3>5, Zenon
    <2> QED BY <1>1, <2>3, <2>4, <2>5, <2>6, <2>7, Zenon DEF PortStep
  <1>2. CASE UloopCall
    <2>1. th["uloop"].inst \in Inst BY <1>0, Zenon
    <2>2. mem' = mem \/ mem' = [mem EXCEPT ![th["uloop"].inst] = "freed"]
      BY <1>2, Zenon DEF UloopCall, DestroyBegin, DestroyJoin, Unlink, UbusOpenReturns, SendAuto,
         SendOpened, SendOpenFails, SendBegin, SendWrites, WriteFails, SendAnswered, SendTimesOut
    <2>3. \/ port' = port
          \/ port' = [port EXCEPT ![th["uloop"].inst].should_stop = TRUE]
          \/ port' = [port EXCEPT ![th["uloop"].inst].waiting = TRUE, ![th["uloop"].inst].by = 0]
          \/ \E w \in BOOLEAN : port' = [port EXCEPT ![th["uloop"].inst].waiting = w]
      <3>1. ~WriteFails => \/ port' = port
          \/ port' = [port EXCEPT ![th["uloop"].inst].should_stop = TRUE]
          \/ port' = [port EXCEPT ![th["uloop"].inst].waiting = TRUE, ![th["uloop"].inst].by = 0]
          \/ port' = [port EXCEPT ![th["uloop"].inst].waiting = FALSE]
        BY <1>0, <1>2, Zenon DEF UloopCall, DestroyBegin, DestroyJoin, Unlink, UbusOpenReturns,
           SendAuto, SendOpened, SendOpenFails, SendBegin, SendWrites, SendAnswered, SendTimesOut
      <3>2. ASSUME WriteFails
            PROVE  \E w \in BOOLEAN : port' = [port EXCEPT ![th["uloop"].inst].waiting = w]
        <4> DEFINE w == IF th["uloop"].op = "send" THEN FALSE ELSE port[th["uloop"].inst].waiting
        <4>1. port' = [port EXCEPT ![th["uloop"].inst].waiting = w] BY <3>2, Zenon DEF WriteFails
        <4>2. w \in BOOLEAN BY <1>0, <2>1, Zenon DEF PortRecord
        <4> HIDE DEF w
        <4> QED BY <4>1, <4>2, Zenon
      <3> QED BY <3>1, <3>2, Zenon
    <2>4. port' \in [Inst -> PortRecord]
      <3>1. CASE port' = port BY <1>0, <3>1, Zenon
      <3>2. CASE port' = [port EXCEPT ![th["uloop"].inst].should_stop = TRUE]
        BY <1>0, <2>1, <3>2, PortUpdates, Zenon
      <3>3. CASE port' = [port EXCEPT ![th["uloop"].inst].waiting = TRUE, ![th["uloop"].inst].by = 0]
        BY <1>0, <2>1, <3>3, PortUpdates, Zenon
      <3>4. ASSUME NEW w \in BOOLEAN, port' = [port EXCEPT ![th["uloop"].inst].waiting = w]
            PROVE  port' \in [Inst -> PortRecord]
        BY <1>0, <2>1, <3>4, PortUpdates, Zenon
      <3> QED BY <2>3, <3>1, <3>2, <3>3, <3>4, Zenon
    <2> QED BY <1>0, <2>1, <2>2, <2>4, Zenon DEF PortsTyped
  <1>3. CASE UloopStarts
    <2>1. port' = port BY <1>3, Zenon DEF UloopStarts, UbusOpen, UbusSendat, UbusClose
    <2>2. mem' = mem \/ \E i \in Inst : mem' = [mem EXCEPT ![i] = "listed"]
      BY <1>3, Zenon DEF UloopStarts, UbusOpen, UbusSendat, UbusClose, WithInstance
    <2> QED BY <1>0, <2>1, <2>2, Zenon DEF PortsTyped
  <1>4. CASE IntervalPasses \/ MonitorCheck \/ MonitorDone
    <2>1. mem' = mem BY <1>4, Zenon DEF IntervalPasses, MonitorCheck, MonitorDone
    <2>2. port' = port \/ \E i \in Inst, b \in BOOLEAN : port' = [port EXCEPT ![i].due = b]
      BY <1>4, Zenon DEF IntervalPasses, MonitorCheck, MonitorDone, Listed
    <2>3. CASE port' = port BY <1>0, <2>1, <2>3, Zenon DEF PortsTyped
    <2>4. ASSUME NEW i \in Inst, NEW b \in BOOLEAN, port' = [port EXCEPT ![i].due = b] PROVE PortsTyped'
      BY <1>0, <2>1, <2>4, PortUpdates, Zenon DEF PortsTyped
    <2> QED BY <2>2, <2>3, <2>4, Zenon
  <1>5. ASSUME NEW r \in Open, Reader(r) PROVE PortsTyped'
    <2>1. reader[r].inst \in Inst /\ reader[r].lines \in Seq(Cmd)
         BY Zenon DEF AtdTyped, ReadersTyped, ReaderRecord
    <2>2. mem' = mem
      BY <1>5, Zenon DEF Reader, ReaderStops, ReaderReads, ReaderLine, ReaderFails
    <2>3. CASE ReaderLine(r)
      <3>1. Head(reader[r].lines) \in Cmd BY <2>1, <2>3 DEF ReaderLine
      <3>2. port' = port \/ port' = [port EXCEPT ![reader[r].inst].waiting = FALSE,
                                                 ![reader[r].inst].by = Head(reader[r].lines)]
           BY <2>3, Zenon DEF ReaderLine
      <3>3. CASE port' = port BY <1>0, <2>2, <3>3, Zenon DEF PortsTyped
      <3>4. CASE port' = [port EXCEPT ![reader[r].inst].waiting = FALSE,
                                      ![reader[r].inst].by = Head(reader[r].lines)]
        BY <1>0, <2>1, <2>2, <3>1, <3>4, PortUpdates, Zenon DEF PortsTyped
      <3> QED BY <3>2, <3>3, <3>4, Zenon
    <2>4. CASE ReaderStops(r) \/ ReaderReads(r) \/ ReaderFails(r)
      <3>1. port' = port \/ port' = [port EXCEPT ![reader[r].inst].is_open = FALSE]
           BY <2>4, Zenon DEF ReaderStops, ReaderReads, ReaderFails
      <3>2. CASE port' = port BY <1>0, <2>2, <3>2, Zenon DEF PortsTyped
      <3>3. CASE port' = [port EXCEPT ![reader[r].inst].is_open = FALSE]
        BY <1>0, <2>1, <2>2, <3>3, PortUpdates, Zenon DEF PortsTyped
      <3> QED BY <3>1, <3>2, <3>3, Zenon
    <2> QED BY <1>5, <2>3, <2>4, Zenon DEF Reader
  <1>6. CASE UNCHANGED vars \/ ModemAnswers \/ Unplug \/ Plug
    <2>1. mem' = mem /\ port' = port BY <1>6, Zenon DEF vars, ModemAnswers, Unplug, Plug
    <2> QED BY <1>0, <2>1, Zenon DEF PortsTyped
  <1>7. CASE Crash
    <2>1. mem' = [i \in Inst |-> "unused"] /\ port' = [i \in Inst |-> NewPort]
         BY <1>7, Zenon DEF Crash, InitDaemon
    <2> QED BY <2>1, NewPortTyped, Zenon DEF PortsTyped
  <1> QED BY <1>1, <1>2, <1>3, <1>4, <1>5, <1>6, <1>7, StepCases, Zenon

\* Descriptors, readers, and the lines they read.
LEMMA KernelStep == ASSUME AtdTyped, [Next]_vars PROVE KernelTyped'
  <1>0. KernelTyped /\ ThreadsTyped BY Zenon DEF AtdTyped
  <1>1. ASSUME NEW t \in Thread, PortStep(t) PROVE KernelTyped'
    <2>1. CASE OpenFd(t)
      <3>1. /\ opens' \in Open /\ fds' = fds \cup {opens'} /\ attached' = attached \cup {opens'}
            /\ joined' = joined
           BY <1>0, <2>1, OpenMoves, Zenon DEF OpenFd
      <3> QED BY <1>0, <3>1, AtDaemonAssumption DEF KernelTyped, Open
    <2>2. CASE SpawnFails(t) \/ CloseFd(t)
      <3>1. /\ opens' = opens /\ joined' = joined
            /\ fds' = fds \ {MyPort(t).fd} /\ attached' = attached \ {MyPort(t).fd}
           BY <2>2, Zenon DEF SpawnFails, CloseFd
      <3> QED BY <1>0, <3>1, Zenon DEF KernelTyped
    <2>3. CASE Joined(t)
      <3>1. /\ UNCHANGED <<fds, attached, opens>> /\ joined' = joined \cup {th[t].target}
            /\ th[t].pc = "joining"
           BY <2>3, Zenon DEF Joined, At
      <3>2. th[t].target \in Open BY <3>1, Zenon DEF AtdTyped, CallInv, CallOf
      <3> QED BY <1>0, <3>1, <3>2, Zenon DEF KernelTyped
    <2>4. CASE \/ OpenBegin(t) \/ OpenFails(t) \/ OpenMark(t) \/ OpenSpawn(t) \/ CloseBegin(t)
               \/ CloseJoin(t)
      <3>1. UNCHANGED <<fds, attached, opens, joined>>
           BY <2>4, Zenon DEF OpenBegin, OpenFails, OpenMark, OpenSpawn, CloseBegin, CloseJoin, kernel
      <3> QED BY <1>0, <3>1, Zenon DEF KernelTyped
    <2> QED BY <1>1, <2>1, <2>2, <2>3, <2>4, Zenon DEF PortStep
  <1>2. CASE UloopCall \/ UloopStarts
    <2>1. UNCHANGED <<fds, attached, opens, joined>>
      BY <1>2, Zenon DEF UloopCall, DestroyBegin, DestroyJoin, Unlink, UbusOpenReturns, SendAuto,
         SendOpened, SendOpenFails, SendBegin, SendWrites, WriteFails, SendAnswered, SendTimesOut,
         UloopStarts, UbusOpen, UbusSendat, UbusClose, kernel
    <2> QED BY <1>0, <2>1, Zenon DEF KernelTyped
  <1>3. CASE UNCHANGED vars \/ IntervalPasses \/ MonitorCheck \/ MonitorDone \/ ModemAnswers \/ Plug
    <2>1. UNCHANGED <<fds, attached, opens, joined>>
      BY <1>3, Zenon DEF vars, IntervalPasses, MonitorCheck, MonitorDone, ModemAnswers, Plug, kernel
    <2> QED BY <1>0, <2>1, Zenon DEF KernelTyped
  <1>4. CASE \E r \in Open : Reader(r)
    <2>1. UNCHANGED <<fds, attached, opens, joined>>
      BY <1>4, Zenon DEF Reader, ReaderStops, ReaderReads, ReaderLine, ReaderFails
    <2> QED BY <1>0, <2>1, Zenon DEF KernelTyped
  <1>5. CASE Unplug \/ Crash
    <2>1. attached' = {} /\ (opens' = opens \/ opens' = 0) /\ (fds' = fds \/ fds' = {})
          /\ (joined' = joined \/ joined' = {})
      BY <1>5, Zenon DEF Unplug, Crash, InitDaemon
    <2> QED BY <1>0, <2>1, AtDaemonAssumption DEF KernelTyped
  <1> QED BY <1>1, <1>2, <1>3, <1>4, <1>5, StepCases, Zenon

\* Readers, and the lines they have read.
LEMMA ReadersStep == ASSUME AtdTyped, [Next]_vars PROVE ReadersTyped'
  <1>0. /\ reader \in [Open -> ReaderRecord] /\ line \in Seq(Cmd) /\ running \in Seq(Cmd)
       BY Zenon DEF AtdTyped, ReadersTyped, CallsTyped
  <1>1. ASSUME NEW t \in Thread, PortStep(t) PROVE ReadersTyped'
    <2>1. line' = line
      BY <1>1, Zenon DEF PortStep, OpenBegin, OpenFails, OpenFd, OpenMark, OpenSpawn, SpawnFails,
         CloseBegin, CloseJoin, Joined, CloseFd, device
    <2>2. CASE OpenSpawn(t)
      <3>1. reader' = [reader EXCEPT ![th[t].got] =
                         [state |-> "run", inst |-> th[t].inst, lines |-> <<>>]]
           BY <2>2, Zenon DEF OpenSpawn
      <3>2. th[t].inst \in Inst BY Zenon DEF AtdTyped, ThreadsTyped, ThreadRecord
      <3>3. [state |-> "run", inst |-> th[t].inst, lines |-> <<>>] \in ReaderRecord
           BY <3>2 DEF ReaderRecord
      <3> QED BY <1>0, <2>1, <3>1, <3>3, Zenon DEF ReadersTyped
    <2>3. CASE ~OpenSpawn(t)
      <3>1. reader' = reader
        BY <1>1, <2>3, Zenon DEF PortStep, OpenBegin, OpenFails, OpenFd, OpenMark, SpawnFails,
           CloseBegin, CloseJoin, Joined, CloseFd, kernel
      <3> QED BY <1>0, <2>1, <3>1, Zenon DEF ReadersTyped
    <2> QED BY <2>2, <2>3, Zenon
  <1>2. CASE UloopCall \/ UloopStarts
    <2>1. UNCHANGED <<reader, line>>
      BY <1>2, Zenon DEF UloopCall, DestroyBegin, DestroyJoin, Unlink, UbusOpenReturns, SendAuto,
         SendOpened, SendOpenFails, SendBegin, SendWrites, WriteFails, SendAnswered, SendTimesOut,
         UloopStarts, UbusOpen, UbusSendat, UbusClose, kernel, device
    <2> QED BY <1>0, <2>1, Zenon DEF ReadersTyped
  <1>3. CASE UNCHANGED vars \/ IntervalPasses \/ MonitorCheck \/ MonitorDone \/ Plug
    <2>1. UNCHANGED <<reader, line>>
      BY <1>3, Zenon DEF vars, IntervalPasses, MonitorCheck, MonitorDone, Plug, kernel, device
    <2> QED BY <1>0, <2>1, Zenon DEF ReadersTyped
  <1>4. ASSUME NEW r \in Open, Reader(r) PROVE ReadersTyped'
    <2>0. reader[r] \in ReaderRecord /\ reader[r].lines \in Seq(Cmd) BY <1>0, Zenon
                                                                        DEF ReaderRecord
    <2>1. CASE ReaderStops(r) \/ ReaderFails(r)
      <3>1. reader' = [reader EXCEPT ![r].state = "done"] /\ line' = line
           BY <2>1, Zenon DEF ReaderStops, ReaderFails, device
      <3> QED BY <1>0, <3>1, Zenon DEF ReadersTyped, ReaderRecord
    <2>2. CASE ReaderReads(r)
      <3>1. PICK n \in 1 .. Len(line) :
              /\ reader' = [reader EXCEPT ![r].lines = SubSeq(line, 1, n)]
              /\ line' = SubSeq(line, n + 1, Len(line))
           BY <2>2, Zenon DEF ReaderReads
      <3>2. SubSeq(line, 1, n) \in Seq(Cmd) /\ SubSeq(line, n + 1, Len(line)) \in Seq(Cmd)
           BY <1>0
      <3> QED BY <1>0, <3>1, <3>2, Zenon DEF ReadersTyped, ReaderRecord
    <2>3. CASE ReaderLine(r)
      <3>1. /\ reader[r].lines # <<>> /\ line' = line
            /\ reader' = [reader EXCEPT ![r].lines = Tail(reader[r].lines)]
           BY <2>3, Zenon DEF ReaderLine, device
      <3>2. Tail(reader[r].lines) \in Seq(Cmd) BY <2>0, <3>1
      <3> QED BY <1>0, <3>1, <3>2, Zenon DEF ReadersTyped, ReaderRecord
    <2> QED BY <1>4, <2>1, <2>2, <2>3, Zenon DEF Reader
  <1>5. CASE ModemAnswers
    <2>1. running # <<>> /\ line' = Append(line, Head(running)) /\ reader' = reader
         BY <1>5, Zenon DEF ModemAnswers, kernel
    <2>2. line' \in Seq(Cmd) BY <1>0, <2>1
    <2> QED BY <1>0, <2>1, <2>2, Zenon DEF ReadersTyped
  <1>6. CASE Unplug
    <2>1. line' = <<>> /\ reader' = reader BY <1>6, Zenon DEF Unplug
    <2> QED BY <1>0, <2>1 DEF ReadersTyped
  <1>7. CASE Crash
    <2>1. /\ line' = line
          /\ reader' = [r \in Open |-> [state |-> "none", inst |-> 1, lines |-> <<>>]]
         BY <1>7, Zenon DEF Crash, InitDaemon, device
    <2>2. [state |-> "none", inst |-> 1, lines |-> <<>>] \in ReaderRecord
         BY AtDaemonAssumption DEF ReaderRecord, Inst
    <2> QED BY <1>0, <2>1, <2>2, Zenon DEF ReadersTyped
  <1> QED BY <1>1, <1>2, <1>3, <1>4, <1>5, <1>6, <1>7, StepCases, Zenon

\* Calls and their answers.
LEMMA CallsStep == ASSUME AtdTyped, [Next]_vars PROVE CallsTyped'
  <1>0. /\ CallsTyped /\ running \in Seq(Cmd) /\ sent \in 0 .. MaxCmd
        /\ out \in [Cmd -> [st : Outcome, by : Cmd \cup {0}]] /\ None = 0
       BY Zenon DEF AtdTyped, CallsTyped, None
  <1>1. ASSUME NEW c \in Cmd, NEW s \in Outcome, NEW b \in Cmd \cup {0},
               out' = [out EXCEPT ![c] = [st |-> s, by |-> b]]
        PROVE  out' \in [Cmd -> [st : Outcome, by : Cmd \cup {0}]]
    <2>1. [st |-> s, by |-> b] \in [st : Outcome, by : Cmd \cup {0}] BY Zenon
    <2> QED BY <1>0, <1>1, <2>1, Zenon
  <1>2. CASE UloopCall
    <2>1. sent' = sent
      BY <1>2, Zenon DEF UloopCall, DestroyBegin, DestroyJoin, Unlink, UbusOpenReturns, SendAuto,
         SendOpened, SendOpenFails, SendBegin, SendWrites, WriteFails, SendAnswered, SendTimesOut, calls
    <2>2. CASE SendWrites
      <3>1. sent \in Cmd BY <2>2, Zenon DEF SendWrites, At, AtdTyped, CallInv, CommandOf
      <3>2. running' = Append(running, sent) BY <2>2, Zenon DEF SendWrites
      <3>3. running' \in Seq(Cmd) BY <1>0, <3>1, <3>2
      <3>4. out' = out \/ out' = [out EXCEPT ![sent] = [st |-> "sendonly", by |-> 0]]
           BY <1>0, <2>2, Zenon DEF SendWrites, Reply
      <3>5. "sendonly" \in Outcome BY Zenon DEF Outcome
      <3>6. out' \in [Cmd -> [st : Outcome, by : Cmd \cup {0}]]
           BY <1>0, <1>1, <3>1, <3>4, <3>5, Zenon
      <3> QED BY <1>0, <2>1, <3>3, <3>6, Zenon DEF CallsTyped
    <2>3. CASE SendOpenFails \/ WriteFails \/ SendAnswered \/ SendTimesOut
      <3>1. running' = running
        BY <2>3, Zenon DEF SendOpenFails, WriteFails, SendAnswered, SendTimesOut, device
      <3>2. sent \in Cmd
        BY <2>3, Zenon DEF SendOpenFails, WriteFails, SendAnswered, SendTimesOut, At, AtdTyped,
           CallInv, CommandOf, Sending
      <3>3. th["uloop"].inst \in Inst /\ MyPort("uloop").by \in Cmd \cup {0}
        BY Zenon DEF AtdTyped, ThreadsTyped, ThreadRecord, PortsTyped, PortRecord, MyPort,
           Thread
      <3>4. \E s \in Outcome, b \in Cmd \cup {0} : out' = [out EXCEPT ![sent] = [st |-> s, by |-> b]]
        <4>1. {"timeout", "error", "success"} \subseteq Outcome /\ Failure \in Outcome
             BY Zenon DEF Outcome, Failure
        <4> QED BY <1>0, <2>3, <3>3, <4>1, Zenon DEF SendOpenFails, WriteFails, SendAnswered, SendTimesOut, Reply
      <3> QED BY <1>0, <1>1, <2>1, <3>1, <3>2, <3>4, Zenon DEF CallsTyped
    <2>4. CASE \/ DestroyBegin \/ DestroyJoin \/ Unlink \/ UbusOpenReturns \/ SendAuto \/ SendOpened
               \/ SendBegin
      <3>1. UNCHANGED <<running, out>>
        BY <2>4, Zenon DEF DestroyBegin, DestroyJoin, Unlink, UbusOpenReturns, SendAuto, SendOpened,
           SendBegin, device, calls
      <3> QED BY <1>0, <2>1, <3>1, Zenon DEF CallsTyped
    <2> QED BY <1>2, <2>2, <2>3, <2>4, Zenon DEF UloopCall
  <1>3. CASE UloopStarts
    <2>1. CASE UbusOpen \/ UbusClose
      <3>1. UNCHANGED <<running, sent, out>> BY <2>1, Zenon DEF UbusOpen, UbusClose, device, calls
      <3> QED BY <1>0, <3>1, Zenon DEF CallsTyped
    <2>2. CASE UbusSendat("send") \/ UbusSendat("sendonly")
      <3>1. /\ running' = running /\ sent < MaxCmd /\ sent' = sent + 1
            /\ out' = [out EXCEPT ![sent'].st = "busy"]
           BY <2>2, Zenon DEF UbusSendat, device
      <3>2. sent' \in Cmd /\ sent' \in 0 .. MaxCmd BY <1>0, <3>1, AtDaemonAssumption DEF Cmd
      <3>3. "busy" \in Outcome BY Zenon DEF Outcome
      <3>4. out' \in [Cmd -> [st : Outcome, by : Cmd \cup {0}]] BY <1>0, <3>1, <3>2, <3>3, Zenon
      <3> QED BY <1>0, <3>1, <3>2, <3>4, Zenon DEF CallsTyped
    <2> QED BY <1>3, <2>1, <2>2, Zenon DEF UloopStarts
  <1>4. ASSUME NEW t \in Thread, PortStep(t) PROVE CallsTyped'
    <2>1. UNCHANGED <<running, sent, out>>
      BY <1>4, Zenon DEF PortStep, OpenBegin, OpenFails, OpenFd, OpenMark, OpenSpawn, SpawnFails,
         CloseBegin, CloseJoin, Joined, CloseFd, device, calls
    <2> QED BY <1>0, <2>1, Zenon DEF CallsTyped
  <1>5. CASE UNCHANGED vars \/ IntervalPasses \/ MonitorCheck \/ MonitorDone \/ Plug
    <2>1. UNCHANGED <<running, sent, out>>
      BY <1>5, Zenon DEF vars, IntervalPasses, MonitorCheck, MonitorDone, Plug, device, calls
    <2> QED BY <1>0, <2>1, Zenon DEF CallsTyped
  <1>6. CASE \E r \in Open : Reader(r)
    <2>1. UNCHANGED <<running, sent, out>>
      BY <1>6, Zenon DEF Reader, ReaderStops, ReaderReads, ReaderLine, ReaderFails, device, calls
    <2> QED BY <1>0, <2>1, Zenon DEF CallsTyped
  <1>7. CASE ModemAnswers \/ Unplug
    <2>1. /\ UNCHANGED <<sent, out>>
          /\ (running # <<>> /\ running' = Tail(running)) \/ running' = <<>>
      BY <1>7, Zenon DEF ModemAnswers, Unplug, calls
    <2>2. running # <<>> => Tail(running) \in Seq(Cmd) BY <1>0
    <2>3. <<>> \in Seq(Cmd) OBVIOUS
    <2>4. running' \in Seq(Cmd) BY <2>1, <2>2, <2>3, Zenon
    <2> QED BY <1>0, <2>1, <2>4, Zenon DEF CallsTyped
  <1>8. CASE Crash
    <2>1. /\ UNCHANGED <<running, sent>>
          /\ out' = [c \in Cmd |-> IF out[c].st = "busy" THEN [st |-> "error", by |-> 0] ELSE out[c]]
         BY <1>0, <1>8, Zenon DEF Crash, device
    <2>2. out' \in [Cmd -> [st : Outcome, by : Cmd \cup {0}]] BY <1>0, <2>1, Zenon DEF Outcome
    <2> QED BY <1>0, <2>1, <2>2, Zenon DEF CallsTyped
  <1> QED BY <1>2, <1>3, <1>4, <1>5, <1>6, <1>7, <1>8, StepCases, Zenon

\* The device node, the mutex and the history.
LEMMA FlagsStep == ASSUME AtdTyped, [Next]_vars PROVE FlagsTyped'
  <1>0. FlagsTyped BY Zenon DEF AtdTyped
  <1>1. ASSUME NEW t \in Thread, PortStep(t) PROVE FlagsTyped'
    <2>1. UNCHANGED <<file, unplugs, mutex, slipped>>
      BY <1>1, Zenon DEF PortStep, OpenBegin, OpenFails, OpenFd, OpenMark, OpenSpawn, SpawnFails,
         CloseBegin, CloseJoin, Joined, CloseFd, device
    <2> QED BY <1>0, <2>1, Zenon DEF FlagsTyped
  <1>2. CASE UloopCall \/ UloopStarts
    <2>1. UNCHANGED <<file, unplugs, mutex>> /\ (slipped' = slipped \/ NoteMeeting)
      BY <1>2, Zenon DEF UloopCall, DestroyBegin, DestroyJoin, Unlink, UbusOpenReturns, SendAuto,
         SendOpened, SendOpenFails, SendBegin, SendWrites, WriteFails, SendAnswered, SendTimesOut,
         UloopStarts, UbusOpen, UbusSendat, UbusClose, device
    <2>2. slipped' \subseteq {"failed", "met"} BY <1>0, <2>1, Zenon DEF FlagsTyped, NoteMeeting
    <2> QED BY <1>0, <2>1, <2>2, Zenon DEF FlagsTyped
  <1>3. CASE UNCHANGED vars \/ IntervalPasses \/ MonitorCheck \/ MonitorDone \/ ModemAnswers
    <2>1. /\ UNCHANGED <<file, unplugs>> /\ (mutex' = mutex \/ mutex' = "monitor" \/ mutex' = "free")
          /\ (slipped' = slipped \/ NoteMeeting)
      BY <1>3, Zenon DEF vars, IntervalPasses, MonitorCheck, MonitorDone, ModemAnswers, device
    <2>2. slipped' \subseteq {"failed", "met"} BY <1>0, <2>1, Zenon DEF FlagsTyped, NoteMeeting
    <2> QED BY <1>0, <2>1, <2>2, Zenon DEF FlagsTyped
  <1>4. CASE \E r \in Open : Reader(r)
    <2>1. UNCHANGED <<file, unplugs, mutex>> /\ (slipped' = slipped \/ slipped' = slipped \cup {"failed"})
      BY <1>4, Zenon DEF Reader, ReaderStops, ReaderReads, ReaderLine, ReaderFails, device
    <2> QED BY <1>0, <2>1, Zenon DEF FlagsTyped
  <1>5. CASE Unplug \/ Plug
    <2>1. /\ UNCHANGED <<mutex, slipped>>
          /\ unplugs' = unplugs \/ (unplugs < MaxUnplug /\ unplugs' = unplugs + 1)
      BY <1>5, Zenon DEF Unplug, Plug
    <2>2. file' \in BOOLEAN BY <1>5, Zenon DEF Unplug, Plug
    <2> QED BY <1>0, <2>1, <2>2, AtDaemonAssumption DEF FlagsTyped
  <1>6. CASE Crash
    <2>1. UNCHANGED <<file, unplugs>> /\ mutex' = "free" /\ slipped' = {}
      BY <1>6, Zenon DEF Crash, InitDaemon, device
    <2> QED BY <1>0, <2>1, Zenon DEF FlagsTyped
  <1> QED BY <1>1, <1>2, <1>3, <1>4, <1>5, <1>6, StepCases, Zenon

-----------------------------------------------------------------------------
(* Calls, the list and the mutex.                                          *)

\* A step of t leaves the other thread its call.
LEMMA CallKept ==
    ASSUME CallInv, NEW t \in Thread, Others(t), CallOf(t)',
           CommandOf' \/ (t # "uloop" /\ sent' = sent)
    PROVE  CallInv'
  <1>1. \A u \in Thread \ {t} : CallOf(u)' BY Zenon DEF CallInv, CallOf, Others
  <1>2. \A u \in Thread : CallOf(u)' BY <1>1, Zenon
  <1>3. CommandOf'
    <2>1. CASE t # "uloop" /\ sent' = sent
      <3>1. th'["uloop"] = th["uloop"] BY <2>1, Zenon DEF Others, Thread
      <3> QED BY <2>1, <3>1, Zenon DEF CallInv, CommandOf
    <2> QED BY <2>1, Zenon
  <1> QED BY <1>2, <1>3, Zenon DEF CallInv

\* A step that keeps the call, at a place where no command is sent.
LEMMA FateKept ==
    ASSUME CallInv, NEW t \in Thread, NEW s \in Steps, NEW n \in Goals, NEW g, NEW x,
           Fate(t, s, n, g, x), sent' = sent, s # "idle", s \notin {"send", "write", "wait"},
           n = "destroyed" => s = "joining", s \in Closing => n # "idle",
           s = "joining" => x \in Open, s \in {"mark", "spawn"} => g \in Open
    PROVE  CallInv'
  <1>1. CallOf(t)' BY Zenon DEF CallOf, Fate
  <1>2. CommandOf' \/ t # "uloop" BY Zenon DEF CallInv, CommandOf, Fate
  <1> QED BY <1>1, <1>2, CallKept, Zenon DEF Fate

\* A thread that comes to rest has none.
LEMMA RestKept ==
    ASSUME CallInv, NEW t \in Thread, Rests(t), sent' = sent PROVE CallInv'
  <1>1. CallOf(t)' BY DEF CallOf, Rests, Resting, Goals, Closing
  <1>2. CommandOf' \/ t # "uloop" BY DEF CommandOf, Rests, Resting, Sending
  <1> QED BY <1>1, <1>2, CallKept, Zenon DEF Rests

\* CallInv through the steps of open and close ...
LEMMA PortStepCall == ASSUME AtdTyped, NEW t \in Thread, PortStep(t) PROVE CallInv'
  <1>0. CallInv /\ ThreadsTyped /\ KernelTyped /\ CallOf(t) BY Zenon DEF AtdTyped, CallInv
  <1>1. sent' = sent
    BY Zenon DEF PortStep, OpenBegin, OpenFails, OpenFd, OpenMark, OpenSpawn, SpawnFails,
       CloseBegin, CloseJoin, Joined, CloseFd, calls
  <1>2. CASE OpenBegin(t)
    <2>1. th[t].pc = "open" BY <1>2, Zenon DEF OpenBegin, At
    <2>2. th[t].then \in Goals /\ th[t].then # "destroyed" BY <1>0, <2>1, Zenon DEF CallOf
    <2>3. {"close", "access"} \subseteq Steps /\ "access" \in Goals /\ "access" \notin Closing
         BY Zenon DEF Steps, Goals, Closing
    <2> QED BY <1>0, <1>1, <1>2, <2>2, <2>3, FateKept, OpenBeginMoves DEF GoesTo
  <1>3. CASE OpenFails(t) \/ OpenMark(t) \/ OpenSpawn(t) \/ SpawnFails(t) \/ OpenFd(t)
    <2>1. th[t].pc \in {"access", "mark", "spawn"}
         BY <1>3, Zenon DEF OpenFails, OpenMark, OpenSpawn, SpawnFails, OpenFd, At
    <2>2. th[t].then \in Goals /\ th[t].then # "destroyed" BY <1>0, <2>1, Zenon DEF CallOf
    <2>3. OpenMark(t) => th[t].got \in Open BY <1>0, Zenon DEF OpenMark, At, CallOf
    <2>4. {"failed", "spawn", "opened", "mark"} \subseteq Steps \ Closing BY Zenon DEF Steps,
                                                                             Closing
    <2> QED BY <1>0, <1>1, <1>3, <2>2, <2>3, <2>4, FateKept, OpenMoves DEF GoesTo
  <1>4. CASE CloseBegin(t) \/ CloseFd(t)
    <2>1. th[t].pc \in {"close", "closefd"} BY <1>4, Zenon DEF CloseBegin, CloseFd, At
    <2>2. th[t].then \in Goals \ {"idle", "destroyed"} BY <1>0, <2>1, Zenon DEF CallOf, Closing
    <2>3. "join" \in Steps /\ "idle" \in Goals BY Zenon DEF Steps, Goals
    <2>4. th[t].then \notin Closing \cup {"send", "write", "wait", "mark", "spawn"}
         BY <2>2, Zenon DEF Goals, Closing
    <2>5. CASE GoesTo(t, "join") BY <1>0, <1>1, <2>2, <2>3, <2>5, FateKept, Zenon DEF GoesTo
    <2>6. CASE Fate(t, th[t].then, "idle", th[t].got, th[t].target) /\ th[t].then \in Steps \ {"idle"}
      <3> DEFINE s == th[t].then
      <3>1. /\ s \in Steps /\ s # "idle" /\ s \notin {"send", "write", "wait"} /\ s \notin Closing
            /\ s # "joining" /\ s \notin {"mark", "spawn"} /\ "idle" # "destroyed"
           BY <2>4, <2>6, Zenon DEF Closing
      <3>2. Fate(t, s, "idle", th[t].got, th[t].target) BY <2>6, Zenon
      <3> HIDE DEF s
      <3> QED BY <1>0, <1>1, <2>3, <3>1, <3>2, FateKept, Zenon
    <2> QED BY <1>4, <2>5, <2>6, CloseBeginMoves, CloseMoves, Zenon
  <1>5. CASE CloseJoin(t)
    <2>1. th[t].pc = "join" BY <1>5, Zenon DEF CloseJoin, At
    <2>2. th[t].then \in Goals \ {"idle", "destroyed"} BY <1>0, <2>1, Zenon DEF CallOf, Closing
    <2>3. MyPort(t).thread \in Open \cup {0}
         BY Zenon DEF MyPort, AtdTyped, PortsTyped, PortRecord, ThreadsTyped, ThreadRecord
    <2>4. {"closefd", "joining"} \subseteq Steps BY Zenon DEF Steps
    <2> DEFINE s == IF MyPort(t).thread = 0 THEN "closefd" ELSE "joining"
    <2>5. Fate(t, s, th[t].then, th[t].got, MyPort(t).thread) BY <1>5, CloseMoves, Zenon
    <2>6. s \in {"closefd", "joining"} /\ (s = "joining" => MyPort(t).thread \in Open) BY <2>3,
                                                                                          Zenon
    <2> HIDE DEF s
    <2> QED BY <1>0, <1>1, <2>2, <2>4, <2>5, <2>6, FateKept, Zenon
  <1>6. CASE Joined(t)
    <2>1. th[t].pc = "joining" BY <1>6, Zenon DEF Joined, At
    <2>2. th[t].then \in Goals \ {"idle"} BY <1>0, <2>1, Zenon DEF CallOf, Closing
    <2>3. {"closefd", "close"} \subseteq Steps /\ "unlink" \in Goals BY Zenon DEF Steps, Goals
    <2> QED BY <1>0, <1>1, <1>6, <2>2, <2>3, FateKept, CloseMoves, Zenon
  <1> QED BY <1>2, <1>3, <1>4, <1>5, <1>6, Zenon DEF PortStep

\* ... through the calls of the uloop thread ...
LEMMA UloopCallCall == ASSUME AtdTyped, UloopCall PROVE CallInv'
  <1>0. /\ CallInv /\ ThreadsTyped /\ "uloop" \in Thread /\ CallOf("uloop") /\ CommandOf
       BY Zenon DEF AtdTyped, CallInv, Thread
  <1>1. sent' = sent
      BY Zenon DEF UloopCall, DestroyBegin, DestroyJoin, Unlink, UbusOpenReturns, SendAuto,
         SendOpened, SendOpenFails, SendBegin, SendWrites, WriteFails, SendAnswered, SendTimesOut, calls
  <1>2. ASSUME Rests("uloop") PROVE CallInv' BY <1>0, <1>1, <1>2, RestKept, Zenon
  <1>3. ASSUME NEW s \in {"djoin", "destroy", "open", "opened", "send", "write", "wait"},
               th["uloop"].then # "destroyed", GoesTo("uloop", s),
               s \in {"send", "write", "wait"} => th["uloop"].op \in Sending
        PROVE  CallInv'
    <2>1. th["uloop"].then \in Goals BY <1>0, Zenon DEF CallOf
    <2>2. CallOf("uloop")' BY <1>3, <2>1, Zenon DEF CallOf, GoesTo, Fate, Closing
    <2>3. CommandOf' BY <1>0, <1>1, <1>3, Zenon DEF CommandOf, GoesTo, Fate
    <2> QED BY <1>0, <1>3, <2>2, <2>3, CallKept, Zenon DEF GoesTo, Fate
  <1>4. CASE DestroyJoin
    <2>1. {"close", "joining"} \subseteq Steps /\ {"unlink", "destroyed"} \subseteq Goals
         BY Zenon DEF Steps, Goals
    <2> QED BY <1>0, <1>1, <1>4, <2>1, FateKept, DestroyMoves, Zenon
  <1>5. CASE DestroyBegin \/ Unlink
    <2>1. th["uloop"].pc # "joining" BY <1>5, Zenon DEF DestroyBegin, Unlink, At
    <2> QED BY <1>0, <1>2, <1>3, <1>5, <2>1, DestroyMoves, Zenon DEF CallOf
  <1>6. CASE UbusOpenReturns \/ SendAuto \/ SendOpened
    <2>1. th["uloop"].pc # "joining" BY <1>6, Zenon DEF UbusOpenReturns, SendAuto, SendOpened,
                                        At
    <2>2. th["uloop"].then # "destroyed" BY <1>0, <2>1, Zenon DEF CallOf
    <2> QED BY <1>0, <1>2, <1>3, <1>6, <2>2, CallMoves, Zenon
  <1>7. CASE SendBegin \/ SendWrites
    <2>1. th["uloop"].pc \in {"send", "write"} BY <1>7, Zenon DEF SendBegin, SendWrites, At
    <2>2. th["uloop"].then # "destroyed" /\ th["uloop"].op \in Sending
         BY <1>0, <2>1, Zenon DEF CallOf, CommandOf
    <2> QED BY <1>0, <1>2, <1>3, <1>7, <2>2, CallMoves, Zenon
  <1>8. CASE SendOpenFails \/ WriteFails \/ SendAnswered \/ SendTimesOut
    BY <1>0, <1>2, <1>8, CallMoves, Zenon
  <1> QED BY <1>4, <1>5, <1>6, <1>7, <1>8, Zenon DEF UloopCall

\* ... and through every step.
LEMMA CallStep == ASSUME AtdTyped, [Next]_vars PROVE CallInv'
  <1>0. /\ CallInv /\ ThreadsTyped /\ "uloop" \in Thread /\ "monitor" \in Thread /\ "uloop" # "monitor"
        /\ CallOf("uloop") /\ CallOf("monitor") /\ CommandOf
       BY Zenon DEF AtdTyped, CallInv, Thread
  <1>1. CASE UloopStarts
    <2>1. "open" \in Steps /\ "auto" \in Steps BY Zenon DEF Steps
    <2>2. th["uloop"].pc = "idle" BY <1>1, Zenon DEF UloopStarts, UbusOpen, UbusSendat, UbusClose, At
    <2>3. th["uloop"].then \in Goals /\ th["uloop"].then # "destroyed" BY <1>0, <2>2, Zenon
                                                                          DEF CallOf
    <2>4. CASE UbusOpen
      <3>1. \E i \in Inst, op \in {"open", "new"} : Takes("uloop", i, "open", th["uloop"].then, op)
           BY <1>0, <2>1, <2>4, WithInstanceMoves, Zenon DEF UbusOpen, Listed
      <3>2. CallOf("uloop")' /\ Others("uloop") BY <2>3, <3>1, Zenon DEF CallOf, Takes, Closing
      <3>3. CommandOf' BY <3>1, Zenon DEF CommandOf, Takes, Sending
      <3> QED BY <1>0, <3>2, <3>3, CallKept, Zenon
    <2>5. ASSUME NEW o \in Sending, UbusSendat(o) PROVE CallInv'
      <3>1. \E i \in Inst : Takes("uloop", i, "auto", th["uloop"].then, o)
           BY <1>0, <2>1, <2>5, WithInstanceMoves, Zenon DEF UbusSendat, Listed, Sending
      <3>2. CallOf("uloop")' /\ Others("uloop") BY <2>3, <3>1, Zenon DEF CallOf, Takes, Closing
      <3>3. sent' \in Cmd
        BY <2>5, AtDaemonAssumption DEF UbusSendat, AtdTyped, CallsTyped, Cmd
      <3>4. CommandOf' BY <2>5, <3>1, <3>3, Zenon DEF CommandOf, Takes, Sending
      <3> QED BY <1>0, <3>2, <3>4, CallKept, Zenon
    <2>6. CASE UbusClose
      <3>1. \E i \in Inst : Takes("uloop", i, "close", "destroy", "close")
           BY <1>0, <2>6, UbusCloseMoves, Zenon DEF Listed
      <3>2. CallOf("uloop")' /\ Others("uloop") BY <3>1, Zenon DEF CallOf, Takes, Closing, Goals
      <3>3. CommandOf' BY <3>1, Zenon DEF CommandOf, Takes, Sending
      <3> QED BY <1>0, <3>2, <3>3, CallKept, Zenon
    <2> QED BY <1>1, <2>4, <2>5, <2>6, Zenon DEF UloopStarts, Sending
  <1>2. CASE MonitorCheck
    <2>1. sent' = sent BY <1>2, Zenon DEF MonitorCheck, calls
    <2>2. PICK i \in Listed, s \in {"done", "close", "open"}, n \in {"open", "done"} :
             Takes("monitor", i, s, n, th["monitor"].op)
         BY <1>2, MonitorMoves, Zenon
    <2>3. CallOf("monitor")' /\ Others("monitor") BY <2>2, Zenon DEF CallOf, Takes, Closing,
                                                     Goals
    <2> QED BY <1>0, <2>1, <2>3, CallKept, Zenon
  <1>3. CASE MonitorDone
    <2>1. sent' = sent BY <1>3, Zenon DEF MonitorDone, calls
    <2> QED BY <1>0, <1>3, <2>1, CallMoves, RestKept, Zenon
  <1>4. CASE \/ UNCHANGED vars \/ IntervalPasses \/ (\E r \in Open : Reader(r))
             \/ ModemAnswers \/ Unplug \/ Plug
    <2>1. th' = th /\ sent' = sent
      BY <1>4, Zenon DEF vars, IntervalPasses, Reader, ReaderStops, ReaderReads, ReaderLine,
         ReaderFails, ModemAnswers, Unplug, Plug, calls
    <2> QED BY <1>0, <2>1, Zenon DEF CallInv, CallOf, CommandOf
  <1>5. CASE Crash
    <2>1. th' = [t \in Thread |-> Resting] BY <1>5, Zenon DEF Crash, InitDaemon
    <2> QED BY <2>1, Zenon DEF CallInv, CallOf, CommandOf, Resting, Goals, Closing, Sending,
               Thread
  <1> QED BY <1>1, <1>2, <1>3, <1>4, <1>5, StepCases, PortStepCall, UloopCallCall, Zenon

\* One port at most stays listed, and the threads under way stay on it.
LEMMA ListStep == ASSUME AtdTyped, [Next]_vars PROVE ListInv'
  <1>0. /\ ListInv /\ ThreadsTyped /\ KernelTyped /\ mem \in [Inst -> {"unused", "listed", "freed"}]
        /\ "uloop" \in Thread /\ "monitor" \in Thread /\ "uloop" # "monitor"
       BY Zenon DEF AtdTyped, PortsTyped, Thread
  <1>1. ASSUME NEW t \in Thread, PortStep(t) PROVE ListInv'
    <2>1. mem' = mem /\ mutex' = mutex
      BY <1>1, Zenon DEF PortStep, OpenBegin, OpenFails, OpenFd, OpenMark, OpenSpawn, SpawnFails,
         CloseBegin, CloseJoin, Joined, CloseFd
    <2>2. th[t].pc # "idle"
      BY <1>1, Zenon DEF PortStep, OpenBegin, OpenFails, OpenFd, OpenMark, OpenSpawn, SpawnFails,
         CloseBegin, CloseJoin, Joined, CloseFd, At
    <2>3. Others(t) /\ th'[t].inst = th[t].inst
      BY <1>0, <1>1, OpenBeginMoves, OpenMoves, CloseBeginMoves, CloseMoves, Zenon
         DEF PortStep, Fate, GoesTo
    <2> QED BY <1>0, <2>1, <2>2, <2>3 DEF ListInv, Listed, Others, Thread
  <1>2. CASE Unlink
    <2>1. /\ mutex = "free" /\ mem' = [mem EXCEPT ![th["uloop"].inst] = "freed"] /\ mutex' = mutex
         BY <1>2, Zenon DEF Unlink
    <2>2. Rests("uloop") BY <1>2, DestroyMoves, Zenon
    <2>3. th'["uloop"].pc = "idle" /\ th'["monitor"] = th["monitor"]
         BY <1>0, <2>2 DEF Rests, Resting, Others
    <2>4. Listed' \subseteq Listed BY <1>0, <2>1, Zenon DEF Listed
    <2> QED BY <1>0, <2>1, <2>3, <2>4, Zenon DEF ListInv
  <1>3. CASE UloopCall /\ ~Unlink
    <2>1. mem' = mem /\ mutex' = mutex
      BY <1>3, Zenon DEF UloopCall, DestroyBegin, DestroyJoin, UbusOpenReturns, SendAuto,
         SendOpened, SendOpenFails, SendBegin, SendWrites, WriteFails, SendAnswered, SendTimesOut
    <2>2. th["uloop"].pc # "idle"
      BY <1>3, Zenon DEF UloopCall, DestroyBegin, DestroyJoin, UbusOpenReturns, SendAuto,
         SendOpened, SendOpenFails, SendBegin, SendWrites, WriteFails, SendAnswered,
         SendTimesOut, At
    <2>3. /\ Others("uloop")
          /\ th'["uloop"].inst = th["uloop"].inst \/ th'["uloop"] = Resting
      BY <1>0, <1>3, DestroyMoves, CallMoves, Zenon DEF UloopCall, Fate, GoesTo, Rests
    <2>4. th'["monitor"] = th["monitor"] BY <1>0, <2>3, Zenon DEF Others
    <2>5. Resting.pc = "idle" BY Zenon DEF Resting
    <2>6. th'["uloop"].pc = "idle" \/ th'["uloop"].inst = th["uloop"].inst BY <2>3, <2>5, Zenon
    <2> QED BY <1>0, <2>1, <2>2, <2>4, <2>6, Zenon DEF ListInv, Listed
  <1>4. CASE UloopStarts
    <2>1. "open" \in Steps /\ "auto" \in Steps BY Zenon DEF Steps
    <2>2. mutex' = mutex BY <1>4, Zenon DEF UloopStarts, UbusOpen, UbusSendat, UbusClose
    <2> DEFINE ops == {"none", "open", "new", "send", "sendonly", "close"}
               Starts == \E i \in Inst : /\ (mem' = mem /\ i \in Listed) \/ Fresh(i)
                                         /\ \E s, n, o : Takes("uloop", i, s, n, o)
    <2>3. Starts
      <3>0. Listed \subseteq Inst BY Zenon DEF Listed
      <3>1. ASSUME NEW o \in ops, NEW f \in ops, NEW s \in {"open", "auto"}, WithInstance(o, f, s)
            PROVE  Starts
        <4>1. s \in Steps BY <2>1, Zenon
        <4>2. \/ UNCHANGED mem /\ \E i \in Listed : Takes("uloop", i, s, th["uloop"].then, o)
              \/ \E i \in Inst : Fresh(i) /\ Takes("uloop", i, s, th["uloop"].then, f)
             BY <1>0, <3>1, <4>1, WithInstanceMoves, Zenon
        <4> QED BY <3>0, <4>2, Zenon
      <3>2. UbusOpen => WithInstance("open", "new", "open") BY Zenon DEF UbusOpen
      <3>3. \A o \in Sending : UbusSendat(o) => WithInstance(o, o, "auto") BY Zenon DEF UbusSendat
      <3>4. CASE UbusClose
        <4>1. mem' = mem BY <3>4, Zenon DEF UbusClose
        <4> QED BY <1>0, <3>0, <3>4, <4>1, UbusCloseMoves, Zenon
      <3>5. /\ Sending \subseteq ops /\ {"open", "new"} \subseteq ops
            /\ "send" \in Sending /\ "sendonly" \in Sending
           BY Zenon DEF Sending
      <3> HIDE DEF ops, Starts
      <3> QED BY <1>4, <3>1, <3>2, <3>3, <3>4, <3>5, Zenon DEF UloopStarts
    <2> PICK i \in Inst : /\ (mem' = mem /\ i \in Listed) \/ Fresh(i)
                         /\ \E s, n, o : Takes("uloop", i, s, n, o)
       BY <2>3, Zenon
    <2>4. th'["uloop"].inst = i /\ th'["monitor"] = th["monitor"] BY <1>0, Zenon DEF Takes,
                                                                     Others
    <2>5. CASE mem' = mem /\ i \in Listed BY <1>0, <2>2, <2>4, <2>5 DEF ListInv, Listed
    <2>6. CASE Fresh(i)
      <3>1. Listed' = {i} /\ th["monitor"].pc = "idle" BY <1>0, <2>6, Zenon DEF Fresh, Listed,
                                                          ListInv
      <3> QED BY <2>4, <3>1, Zenon DEF ListInv
    <2> QED BY <2>5, <2>6, Zenon
  <1>5. CASE MonitorCheck
    <2>1. mem' = mem /\ mutex' = "monitor" BY <1>5, Zenon DEF MonitorCheck
    <2>2. PICK i \in Listed, s \in {"done", "close", "open"}, n \in {"open", "done"} :
             Takes("monitor", i, s, n, th["monitor"].op)
         BY <1>5, MonitorMoves, Zenon
    <2>3. th'["monitor"].inst = i /\ th'["uloop"] = th["uloop"] BY <1>0, <2>2, Zenon DEF Takes,
                                                                   Others
    <2> QED BY <1>0, <2>1, <2>2, <2>3, Zenon DEF ListInv, Listed
  <1>6. CASE MonitorDone
    <2>1. mem' = mem BY <1>6, Zenon DEF MonitorDone
    <2>2. th'["monitor"].pc = "idle" /\ th'["uloop"] = th["uloop"]
         BY <1>0, <1>6, CallMoves DEF Rests, Resting, Others
    <2> QED BY <1>0, <2>1, <2>2, Zenon DEF ListInv, Listed
  <1>7. CASE \/ UNCHANGED vars \/ IntervalPasses \/ (\E r \in Open : Reader(r))
             \/ ModemAnswers \/ Unplug \/ Plug
    <2>1. th' = th /\ mem' = mem /\ mutex' = mutex
      BY <1>7, Zenon DEF vars, IntervalPasses, Reader, ReaderStops, ReaderReads, ReaderLine,
         ReaderFails, ModemAnswers, Unplug, Plug
    <2> QED BY <1>0, <2>1, Zenon DEF ListInv, Listed
  <1>8. CASE Crash
    <2>1. th' = [t \in Thread |-> Resting] /\ mem' = [i \in Inst |-> "unused"]
         BY <1>8, Zenon DEF Crash, InitDaemon
    <2> QED BY <2>1, Zenon DEF ListInv, Listed, Resting, Thread
  <1> QED BY <1>1, <1>2, <1>3, <1>4, <1>5, <1>6, <1>7, <1>8, StepCases, Zenon

-----------------------------------------------------------------------------
(* What holds of the daemon in every state.                                *)

\* A daemon that starts is well typed.
LEMMA DaemonStarts == Init => AtdTyped
  <1> SUFFICES ASSUME Init PROVE AtdTyped BY Zenon
  <1> USE DEF Init, InitDaemon
  <1>1. ThreadsTyped BY RestingTyped, Zenon DEF ThreadsTyped
  <1>2. PortsTyped BY NewPortTyped, Zenon DEF PortsTyped
  <1>3. KernelTyped BY AtDaemonAssumption DEF KernelTyped
  <1>4. ReadersTyped BY AtDaemonAssumption DEF ReadersTyped, ReaderRecord, Inst
  <1>5. CallsTyped BY AtDaemonAssumption DEF CallsTyped, Outcome, None
  <1>6. FlagsTyped BY AtDaemonAssumption DEF FlagsTyped
  <1>7. CallInv BY Zenon DEF CallInv, CallOf, CommandOf, Resting, Goals, Closing, Sending,
                   Thread
  <1>8. ListInv BY Zenon DEF ListInv, Listed, Resting, Thread
  <1> QED BY <1>1, <1>2, <1>3, <1>4, <1>5, <1>6, <1>7, <1>8, Zenon DEF AtdTyped

\* Every step keeps it so.
LEMMA DaemonStep == AtdTyped /\ [Next]_vars => AtdTyped'
  BY ThreadsStep, PortsStep, KernelStep, ReadersStep, CallsStep, FlagsStep, CallStep, ListStep, Zenon
     DEF AtdTyped

\* AtdTyped in every reachable state.
LEMMA DaemonAlways == Spec => []AtdTyped
  BY DaemonStarts, DaemonStep, PTL DEF Spec

\* Type correctness of the daemon.
THEOREM DaemonTypeCorrect == Spec => []TypeOK
  <1>1. AtdTyped => TypeOK
    BY Zenon DEF AtdTyped, TypeOK, ThreadsTyped, ThreadRecord, PortsTyped, PortRecord, KernelTyped,
       ReadersTyped, ReaderRecord, CallsTyped, FlagsTyped, None
  <1> QED BY <1>1, DaemonAlways, PTL

\* The monitor works on a listed instance as long as it is under way: it holds
\* ports_mutex, and destroy_port_instance waits for it before it frees one.
THEOREM MonitorOnListedHolds == Spec => []MonitorOnListed
  <1>1. AtdTyped => MonitorOnListed BY Zenon DEF AtdTyped, ListInv, Listed, MonitorOnListed
  <1> QED BY <1>1, DaemonAlways, PTL

-----------------------------------------------------------------------------
(* An orderly life of the daemon.  With no reader failed and no two threads *)
(* inside an open or a close, the port is at rest when nobody is inside,    *)
(* and otherwise as far as the one thread that is inside has brought it.    *)

\* A port without a descriptor and without a reader.
Blank(i) == ~port[i].is_open /\ port[i].fd = 0 /\ port[i].thread = 0
Closed == fds = {} /\ (\A i \in Listed : Blank(i)) /\ \A r \in Open : ~Runs(r)
\* Port i has descriptor r and reader r, and no other exists.
Holds(i, r) ==
    /\ fds = {r} /\ port[i].is_open /\ port[i].fd = r /\ port[i].thread = r
    /\ reader[r].state # "none" /\ reader[r].inst = i /\ r \notin joined
    /\ \A q \in Open : Runs(q) => q = r
Opened == \E i \in Listed, r \in Open : Holds(i, r) /\ Runs(r) /\ ~port[i].should_stop
AtRest == Closed \/ Opened
\* Port i has descriptor r and no reader yet, or no more.
Half(i, r) ==
    /\ fds = {r} /\ port[i].fd = r /\ port[i].thread = 0 /\ \A q \in Open : ~Runs(q)

\* What thread t has made of the port, by where it is inside.
Place(t) ==
    /\ th[t].then # "destroyed"
    /\ th[t].pc \in {"open", "close"} => AtRest
    /\ th[t].pc \in {"access", "destroy", "djoin", "unlink"} => Closed
    /\ th[t].pc = "mark" => ~port[th[t].inst].is_open
    /\ th[t].pc = "spawn" => port[th[t].inst].is_open /\ ~port[th[t].inst].should_stop
    /\ th[t].pc \in {"mark", "spawn"} =>
          Half(th[t].inst, th[t].got) /\ reader[th[t].got].state = "none"
    /\ th[t].pc \in {"join", "joining"} =>
          port[th[t].inst].should_stop /\ \E r \in Open : Holds(th[t].inst, r)
    /\ th[t].pc = "joining" => th[t].target = port[th[t].inst].thread
    /\ th[t].pc = "closefd" => Half(th[t].inst, port[th[t].inst].fd) /\ port[th[t].inst].is_open
\* Memory, descriptors and readers that were not used yet.
Numbered ==
    \A r \in Open : /\ r > opens => reader[r].state = "none" /\ r \notin fds
                    /\ r \in joined => reader[r].state = "done"
Tidy == (\A i \in Inst : mem[i] = "unused" => Blank(i) /\ ~port[i].due) /\ Numbered
\* An instance made for an open is left alone by the monitor until it is open.
NewCall ==
    th["uloop"].op = "new" =>
        /\ th["monitor"].pc = "idle" /\ \A i \in Listed : ~port[i].due
        /\ th["uloop"].pc = "failed" => Closed
Clean ==
    /\ ~(Inside("uloop") /\ Inside("monitor"))
    /\ (\A t \in Thread : ~Inside(t)) => AtRest
    /\ \A t \in Thread : Place(t)
    /\ Tidy /\ NewCall

\* The one listed port is the one a thread under way works on.
LEMMA OnePort ==
    ASSUME AtdTyped, NEW t \in Thread, th[t].pc # "idle"
    PROVE  th[t].inst \in Inst /\ Listed = {th[t].inst}
  <1>1. th[t].inst \in Listed BY Zenon DEF AtdTyped, ListInv, Thread
  <1> QED BY <1>1, Zenon DEF AtdTyped, ListInv, Listed

\* At rest, a port that is not open has nothing left of an earlier open ...
LEMMA RestIsClosed ==
    ASSUME AtRest, NEW i, Listed = {i}, ~port[i].is_open PROVE Closed
  BY Zenon DEF AtRest, Opened, Holds

\* ... and one that is open has its descriptor and its running reader.
LEMMA RestIsOpened ==
    ASSUME AtRest, NEW i, Listed = {i}, port[i].is_open
    PROVE  \E r \in Open : Holds(i, r) /\ Runs(r) /\ ~port[i].should_stop
  BY Zenon DEF AtRest, Opened, Closed, Blank

\* A step of thread t while no other is inside.
LEMMA CleanAlone ==
    ASSUME Clean, NEW t \in Thread, Others(t), \A u \in Thread \ {t} : ~Inside(u),
           Place(t)', ~Inside(t)' => AtRest', Tidy', NewCall'
    PROVE  Clean'
  <1>1. \A u \in Thread \ {t} : th[u].then # "destroyed" BY Zenon DEF Clean, Place
  <1>2. \A u \in Thread \ {t} : ~Inside(u)' BY Zenon DEF Inside, Others
  <1>3. \A u \in Thread \ {t} : Place(u)'
    <2> SUFFICES ASSUME NEW u \in Thread \ {t} PROVE Place(u)' BY Zenon
    <2>1. th'[u].then # "destroyed" /\ ~Inside(u)' BY <1>1, <1>2, Zenon DEF Others
    <2> QED BY <2>1, Zenon DEF Place, Inside
  <1>4. (\A u \in Thread : Place(u))' BY <1>3, Zenon
  <1>5. ~(Inside("uloop") /\ Inside("monitor"))'
    <2>1. \/ "uloop" \in Thread \ {t} \/ "monitor" \in Thread \ {t} BY Zenon DEF Thread
    <2> QED BY <1>2, <2>1, Zenon
  <1>6. ((\A u \in Thread : ~Inside(u)) => AtRest)' BY Zenon
  <1> QED BY <1>4, <1>5, <1>6, Zenon DEF Clean

\* Steps that leave alone what open and close work on.
Shared ==
    /\ mem' = mem /\ fds' = fds /\ joined' = joined /\ opens' = opens
    /\ \A i \in Inst : /\ port'[i].is_open = port[i].is_open /\ port'[i].fd = port[i].fd
                       /\ port'[i].thread = port[i].thread
                       /\ port'[i].should_stop = port[i].should_stop
    /\ \A r \in Open : reader'[r].state = reader[r].state /\ reader'[r].inst = reader[r].inst
LEMMA SharedKept ==
    ASSUME Shared
    PROVE  /\ Closed' <=> Closed
           /\ AtRest' <=> AtRest
           /\ \A i \in Inst, r \in Open : (Holds(i, r)' <=> Holds(i, r)) /\ (Half(i, r)' <=> Half(i, r))
  <1>0. Listed' = Listed /\ Listed \subseteq Inst BY Zenon DEF Shared, Listed
  <1>1. \A r \in Open : Runs(r)' <=> Runs(r) BY Zenon DEF Shared, Runs
  <1>2. \A i \in Inst : Blank(i)' <=> Blank(i) BY Zenon DEF Shared, Blank
  <1>3. Closed' <=> Closed BY <1>0, <1>1, <1>2, Zenon DEF Closed, Shared
  <1>4. \A i \in Inst, r \in Open : Holds(i, r)' <=> Holds(i, r)
    <2> SUFFICES ASSUME NEW i \in Inst, NEW r \in Open PROVE Holds(i, r)' <=> Holds(i, r) BY
                                                                                             Zenon
    <2> QED BY <1>1, Zenon DEF Holds, Shared
  <1>5. \A i \in Inst, r \in Open : Half(i, r)' <=> Half(i, r)
    <2> SUFFICES ASSUME NEW i \in Inst, NEW r \in Open PROVE Half(i, r)' <=> Half(i, r) BY Zenon
    <2> QED BY <1>1, Zenon DEF Half, Shared
  <1>6. Opened' <=> Opened
    <2>1. \A i \in Inst : port'[i].should_stop = port[i].should_stop BY Zenon DEF Shared
    <2> QED BY <1>0, <1>1, <1>4, <2>1, Zenon DEF Opened
  <1> QED BY <1>3, <1>4, <1>5, <1>6, Zenon DEF AtRest
LEMMA TidyKept ==
    ASSUME AtdTyped, Tidy, Shared, \A i \in Inst : mem[i] = "unused" => port'[i].due = port[i].due
    PROVE  Tidy'
  <1>1. \A i \in Inst : Blank(i)' <=> Blank(i) BY Zenon DEF Shared, Blank
  <1>2. \A i \in Inst : (mem[i] = "unused" => Blank(i) /\ ~port[i].due)'
    BY <1>1, Zenon DEF Tidy, Shared
  <1> QED BY <1>2, Zenon DEF Tidy, Numbered, Shared
LEMMA PlaceKept ==
    ASSUME AtdTyped, Shared, NEW t \in Thread, Place(t), th'[t] = th[t] PROVE Place(t)'
  <1>0. /\ th[t].inst \in Inst /\ port[th[t].inst].fd \in Open \cup {0}
        /\ th[t].pc \in {"mark", "spawn"} => th[t].got \in Open
       BY Zenon DEF AtdTyped, ThreadsTyped, ThreadRecord, CallInv, CallOf, PortsTyped,
          PortRecord
  <1>1. /\ port'[th[t].inst].is_open = port[th[t].inst].is_open
        /\ port'[th[t].inst].fd = port[th[t].inst].fd
        /\ port'[th[t].inst].thread = port[th[t].inst].thread
        /\ port'[th[t].inst].should_stop = port[th[t].inst].should_stop
        /\ \A r \in Open : reader'[r].state = reader[r].state
       BY <1>0, Zenon DEF Shared
  <1>2. Closed' <=> Closed BY SharedKept, Zenon
  <1>3. AtRest' <=> AtRest BY SharedKept, Zenon
  <1>4. \A r \in Open : (Holds(th[t].inst, r)' <=> Holds(th[t].inst, r))
                        /\ (Half(th[t].inst, r)' <=> Half(th[t].inst, r))
       BY <1>0, SharedKept, Zenon
  <1>5. th[t].pc \in {"join", "joining"} => (\E r \in Open : Holds(th[t].inst, r))'
       BY <1>4, Zenon DEF Place
  <1>6. th[t].pc \in {"mark", "spawn"} => Half(th[t].inst, th[t].got)' BY <1>0, <1>4, Zenon
                                                                          DEF Place
  <1>7. th[t].pc = "closefd" => Half(th[t].inst, port[th[t].inst].fd)'
    <2>1. fds' = fds /\ \A r \in Open : Runs(r)' <=> Runs(r) BY Zenon DEF Shared, Runs
    <2> QED BY <1>1, <2>1, Zenon DEF Place, Half
  <1> QED BY <1>0, <1>1, <1>2, <1>3, <1>5, <1>6, <1>7, Zenon DEF Place
\* A step of a thread that is not inside, before and after.
LEMMA CleanOutside ==
    ASSUME AtdTyped, Clean, Shared, NEW t \in Thread, Others(t), ~Inside(t), ~Inside(t)',
           th'[t].then # "destroyed", NewCall',
           \A i \in Inst : mem[i] = "unused" => port'[i].due = port[i].due
    PROVE  Clean'
  <1>1. Place(t)' BY Zenon DEF Place, Inside
  <1>2. \A u \in Thread \ {t} : Place(u)' BY PlaceKept, Zenon DEF Clean, Others
  <1>3. (\A u \in Thread : Place(u))' BY <1>1, <1>2, Zenon
  <1>4. \A u \in Thread \ {t} : Inside(u)' <=> Inside(u) BY Zenon DEF Inside, Others
  <1>5. ((\A u \in Thread : ~Inside(u)) => AtRest)' BY <1>4, SharedKept, Zenon DEF Clean
  <1>6. ~(Inside("uloop") /\ Inside("monitor"))'
    <2>1. "uloop" \in Thread /\ "monitor" \in Thread BY Zenon DEF Thread
    <2> QED BY <1>4, <2>1, Zenon DEF Clean
  <1>7. Tidy' BY TidyKept, Zenon DEF Clean
  <1> QED BY <1>3, <1>5, <1>6, <1>7, Zenon DEF Clean

\* A step of open, close or destroy works on the port of its thread.
Touches(i) ==
    \A j \in Inst : (j # i => port'[j] = port[j]) /\ port'[j].due = port[j].due
LEMMA PortTouches ==
    ASSUME AtdTyped, NEW t \in Thread, PortStep(t) PROVE Touches(th[t].inst)
  <1>0. port \in [Inst -> PortRecord] /\ th[t].inst \in Inst /\ None = 0
       BY Zenon DEF AtdTyped, PortsTyped, ThreadsTyped, ThreadRecord, None
  <1> DEFINE i == th[t].inst
  <1>1. CASE port' = port BY <1>1, Zenon DEF Touches
  <1>2. ASSUME NEW x, port' = [port EXCEPT ![i].fd = x] PROVE Touches(i)
    BY <1>0, <1>2, Zenon DEF Touches, PortRecord
  <1>3. ASSUME NEW x, port' = [port EXCEPT ![i].thread = x] PROVE Touches(i)
    BY <1>0, <1>3, Zenon DEF Touches, PortRecord
  <1>4. ASSUME port' = [port EXCEPT ![i].should_stop = TRUE] PROVE Touches(i)
    BY <1>0, <1>4, Zenon DEF Touches, PortRecord
  <1>5. ASSUME port' = [port EXCEPT ![i].fd = None, ![i].is_open = FALSE] PROVE Touches(i)
    BY <1>0, <1>5, Zenon DEF Touches, PortRecord
  <1>6. ASSUME port' = [port EXCEPT ![i].is_open = TRUE, ![i].should_stop = FALSE] PROVE Touches(i)
    BY <1>0, <1>6, Zenon DEF Touches, PortRecord
  <1>7. CASE OpenBegin(t) \/ CloseJoin(t) BY <1>1, <1>7, Zenon DEF OpenBegin, CloseJoin
  <1>8. CASE OpenFails(t) \/ OpenFd(t) BY <1>1, <1>2, <1>8, Zenon DEF OpenFails, OpenFd
  <1>9. CASE OpenSpawn(t) \/ Joined(t) BY <1>1, <1>3, <1>9, Zenon DEF OpenSpawn, Joined
  <1>10. CASE CloseBegin(t) BY <1>1, <1>4, <1>10, Zenon DEF CloseBegin
  <1>11. CASE SpawnFails(t) \/ CloseFd(t) BY <1>5, <1>11, Zenon DEF SpawnFails, CloseFd
  <1>12. CASE OpenMark(t) BY <1>6, <1>12, Zenon DEF OpenMark
  <1> QED BY <1>7, <1>8, <1>9, <1>10, <1>11, <1>12, Zenon DEF PortStep

\* A step inside open or close that leaves its own port in place is clean.
LEMMA CleanInside ==
    ASSUME AtdTyped, Clean, NEW t \in Thread, Inside(t), Others(t), th'[t].op = th[t].op,
           mem' = mem, Touches(th[t].inst), Place(t)', ~Inside(t)' => AtRest',
           th'[t].pc = "failed" => Closed', Numbered'
    PROVE  Clean'
  <1>0. th[t].pc # "idle" BY Zenon DEF Inside
  <1>1. th[t].inst \in Inst /\ Listed = {th[t].inst} BY <1>0, OnePort, Zenon
  <1>2. \A u \in Thread \ {t} : ~Inside(u) BY DEF Clean, Thread
  <1>3. Tidy'
    <2>1. \A j \in Inst : mem[j] = "unused" => port'[j] = port[j] BY <1>1, Zenon DEF Listed,
                                                                     Touches
    <2>2. \A j \in Inst : (mem[j] = "unused" => Blank(j) /\ ~port[j].due)'
         BY <2>1, Zenon DEF Clean, Tidy, Blank
    <2> QED BY <2>2, Zenon DEF Tidy
  <1>4. NewCall'
    <2>1. CASE t = "monitor"
      <3>1. th'["uloop"].op # "new" BY <1>0, <2>1, Zenon DEF Clean, NewCall, Others, Thread
      <3> QED BY <3>1, Zenon DEF NewCall
    <2>2. CASE t = "uloop"
      <3>1. th'["monitor"] = th["monitor"] BY <2>2, Zenon DEF Others, Thread
      <3>2. Listed' = Listed /\ Listed \subseteq Inst BY Zenon DEF Listed
      <3>3. NewCall /\ \A j \in Inst : port'[j].due = port[j].due BY Zenon DEF Clean, Touches
      <3> QED BY <2>2, <3>1, <3>2, <3>3, Zenon DEF NewCall
    <2> QED BY <2>1, <2>2, Zenon DEF Thread
  <1> QED BY <1>2, <1>3, <1>4, CleanAlone, Zenon

\* open_at_port.
LEMMA OpenClean ==
    ASSUME AtdTyped, Clean, NEW t \in Thread,
           OpenBegin(t) \/ OpenFails(t) \/ OpenFd(t) \/ OpenMark(t) \/ OpenSpawn(t) \/ SpawnFails(t)
    PROVE  Clean'
  <1> DEFINE i == th[t].inst
  <1>0. ThreadsTyped /\ KernelTyped /\ Place(t) /\ Numbered BY Zenon DEF AtdTyped, Clean, Tidy
  <1>1. /\ th[t].pc \in {"open", "access", "mark", "spawn"} /\ mem' = mem
    BY Zenon DEF OpenBegin, OpenFails, OpenFd, OpenMark, OpenSpawn, SpawnFails, At
  <1>2. Inside(t) /\ th[t].pc # "idle" BY <1>1, Zenon DEF Inside
  <1>3. i \in Inst /\ Listed = {i} /\ Listed' = {i} BY <1>1, <1>2, OnePort, Zenon DEF Listed
  <1>4. Touches(i) BY PortTouches, Zenon DEF PortStep
  <1>5. Others(t) /\ th'[t].op = th[t].op /\ th'[t].inst = i /\ th'[t].then # "destroyed"
    <2>1. th[t].then # "destroyed" BY <1>0, Zenon DEF Place
    <2>2. "access" # "destroyed" BY Zenon
    <2> QED BY <1>0, <2>1, <2>2, OpenBeginMoves, OpenMoves, Zenon DEF Fate, GoesTo
  <1>6. port \in [Inst -> PortRecord] /\ port[i] \in PortRecord /\ reader \in [Open -> ReaderRecord]
    BY <1>3, Zenon DEF AtdTyped, PortsTyped, ReadersTyped
  <1>7. th[t].pc \in {"mark", "spawn"} => th[t].got \in Open BY <1>0, Zenon DEF AtdTyped,
                                                                CallInv,
                                                                CallOf
  <1>8. SUFFICES Place(t)' /\ (~Inside(t)' => AtRest') /\ (th'[t].pc = "failed" => Closed') /\ Numbered'
    BY <1>1, <1>2, <1>4, <1>5, CleanInside, Zenon
  <1>9. CASE OpenBegin(t)
    <2>1. port' = port /\ UNCHANGED <<fds, opens, reader, joined>> BY <1>9, Zenon DEF OpenBegin, kernel
    <2>2. AtRest BY <1>0, <1>9, Zenon DEF OpenBegin, At, Place
    <2>3. Shared BY <1>1, <2>1, Zenon DEF Shared
    <2>4. AtRest' BY <2>2, <2>3, SharedKept, Zenon
    <2>5. ~port[i].is_open => Closed' BY <1>3, <2>2, <2>3, RestIsClosed, SharedKept, Zenon
    <2>6. \/ port[i].is_open /\ th'[t].pc = "close"
          \/ ~port[i].is_open /\ th'[t].pc = "access"
         BY <1>0, <1>9, OpenBeginMoves, Zenon DEF MyPort, Fate, GoesTo
    <2>7. Place(t)' BY <1>5, <2>4, <2>5, <2>6, Zenon DEF Place
    <2>8. Numbered' BY <1>0, <2>1, Zenon DEF Numbered
    <2> QED BY <2>4, <2>6, <2>7, <2>8, Zenon
  <1>10. CASE OpenFails(t)
    <2>1. UNCHANGED <<fds, opens, reader, joined>> BY <1>10, Zenon DEF OpenFails, kernel
    <2>2. Closed BY <1>0, <1>10, Zenon DEF OpenFails, At, Place
    <2>3. port' = port \/ port' = [port EXCEPT ![i].fd = 0] BY <1>10, Zenon DEF OpenFails, None
    <2>4. Blank(i) /\ \A r \in Open : ~Runs(r)' BY <1>3, <2>1, <2>2, Zenon DEF Closed, Runs
    <2>5. ~port'[i].is_open /\ port'[i].fd = 0 /\ port'[i].thread = 0
      <3>1. CASE port' = port BY <2>4, <3>1, Zenon DEF Blank
      <3>2. CASE port' = [port EXCEPT ![i].fd = 0] BY <1>3, <1>6, <2>4, <3>2, Zenon DEF Blank,
                                                      PortRecord
      <3> QED BY <2>3, <3>1, <3>2, Zenon
    <2>6. Closed' BY <1>3, <2>1, <2>2, <2>4, <2>5, Zenon DEF Closed, Blank
    <2>7. th'[t].pc = "failed" BY <1>0, <1>10, OpenMoves, Zenon DEF Fate, GoesTo
    <2>8. Place(t)' BY <1>5, <2>7, Zenon DEF Place
    <2>9. Numbered' BY <1>0, <2>1, Zenon DEF Numbered
    <2> QED BY <2>6, <2>8, <2>9, Zenon DEF AtRest
  <1>11. CASE OpenFd(t)
    <2>1. /\ opens' = opens + 1 /\ fds' = fds \cup {opens'} /\ reader' = reader /\ joined' = joined
          /\ port' = [port EXCEPT ![i].fd = opens']
         BY <1>11, Zenon DEF OpenFd
    <2>2. Closed BY <1>0, <1>11, Zenon DEF OpenFd, At, Place
    <2>3. opens' \in Open /\ th'[t].pc = "mark" /\ th'[t].got = opens'
         BY <1>0, <1>11, OpenMoves, Zenon DEF Fate
    <2>4. fds' = {opens'} /\ \A q \in Open : ~Runs(q)' BY <2>1, <2>2, Zenon DEF Closed, Runs
    <2>5. port'[i].fd = opens' /\ port'[i].thread = 0 /\ ~port'[i].is_open
         BY <1>3, <1>6, <2>1, <2>2, Zenon DEF Closed, Blank, PortRecord
    <2>6. Half(i, th[t].got)' BY <1>5, <2>3, <2>4, <2>5, Zenon DEF Half
    <2>7. reader'[opens'].state = "none" BY <1>0, <2>1, <2>3 DEF Numbered, KernelTyped
    <2>8. Place(t)' BY <1>5, <2>3, <2>5, <2>6, <2>7, Zenon DEF Place
    <2>9. Numbered' BY <1>0, <2>1, <2>4 DEF Numbered, KernelTyped, Open
    <2> QED BY <2>3, <2>8, <2>9, Zenon DEF Inside
  <1>12. CASE OpenMark(t)
    <2>1. /\ UNCHANGED <<fds, opens, reader, joined>>
          /\ port' = [port EXCEPT ![i].is_open = TRUE, ![i].should_stop = FALSE]
         BY <1>12, Zenon DEF OpenMark, kernel
    <2>2. /\ port'[i].is_open /\ ~port'[i].should_stop /\ port'[i].fd = port[i].fd
          /\ port'[i].thread = port[i].thread
         BY <1>3, <1>6, <2>1, Zenon DEF PortRecord
    <2>3. th'[t].pc = "spawn" /\ th'[t].got = th[t].got BY <1>0, <1>12, OpenMoves, Zenon DEF Fate, GoesTo
    <2>4. Half(i, th[t].got) /\ reader[th[t].got].state = "none"
         BY <1>0, <1>12, Zenon DEF OpenMark, At, Place
    <2>5. Half(i, th[t].got)' BY <1>5, <2>1, <2>2, <2>3, <2>4, Zenon DEF Half, Runs
    <2>6. Place(t)' BY <1>5, <2>1, <2>2, <2>3, <2>4, <2>5, Zenon DEF Place
    <2>7. Numbered' BY <1>0, <2>1, Zenon DEF Numbered
    <2> QED BY <2>3, <2>6, <2>7, Zenon DEF Inside
  <1>13. CASE OpenSpawn(t)
    <2> DEFINE r == th[t].got
    <2>1. /\ UNCHANGED <<fds, opens, joined>> /\ port' = [port EXCEPT ![i].thread = r]
          /\ reader' = [reader EXCEPT ![r] = [state |-> "run", inst |-> i, lines |-> <<>>]]
         BY <1>13, Zenon DEF OpenSpawn
    <2>2. /\ Half(i, r) /\ reader[r].state = "none" /\ port[i].is_open /\ ~port[i].should_stop /\ r \in Open
         BY <1>0, <1>7, <1>13, Zenon DEF OpenSpawn, At, Place
    <2>3. /\ port'[i].is_open /\ ~port'[i].should_stop /\ port'[i].fd = r /\ port'[i].thread = r
         BY <1>3, <1>6, <2>1, <2>2, Zenon DEF PortRecord, Half
    <2>4. /\ reader'[r].state = "run" /\ reader'[r].inst = i
          /\ \A q \in Open \ {r} : reader'[q] = reader[q]
         BY <1>6, <2>1, <2>2, Zenon
    <2>5. r \notin joined /\ fds = {r} BY <1>0, <2>2, Zenon DEF Numbered, Half
    <2>6. \A q \in Open : Runs(q)' => q = r BY <2>2, <2>4, Zenon DEF Runs, Half
    <2>7. /\ fds' = {r} /\ port'[i].is_open /\ port'[i].fd = r /\ port'[i].thread = r
          /\ reader'[r].state # "none" /\ reader'[r].inst = i /\ r \notin joined'
          /\ reader'[r].state = "run" /\ ~port'[i].should_stop
         BY <2>1, <2>3, <2>4, <2>5, Zenon
    <2>8. Opened'
      <3> HIDE DEF i, r
      <3>1. \E j \in Listed', q \in Open : /\ fds' = {q} /\ port'[j].is_open /\ port'[j].fd = q
               /\ port'[j].thread = q /\ reader'[q].state # "none" /\ reader'[q].inst = j
               /\ q \notin joined' /\ (\A p \in Open : Runs(p)' => p = q)
               /\ reader'[q].state = "run" /\ ~port'[j].should_stop
           BY <1>3, <2>2, <2>6, <2>7, Zenon
      <3> QED BY <3>1, Zenon DEF Opened, Holds, Runs
    <2>9. th'[t].pc = "opened" BY <1>0, <1>13, OpenMoves, Zenon DEF Fate
    <2>10. Place(t)' BY <1>5, <2>9, Zenon DEF Place
    <2>11. Numbered' BY <1>0, <2>1, <2>4, <2>5, Zenon DEF Numbered
    <2> QED BY <2>8, <2>9, <2>10, <2>11, Zenon DEF AtRest
  <1>14. CASE SpawnFails(t)
    <2>1. /\ UNCHANGED <<opens, reader, joined>> /\ fds' = fds \ {port[i].fd}
          /\ port' = [port EXCEPT ![i].fd = 0, ![i].is_open = FALSE]
         BY <1>14, Zenon DEF SpawnFails, MyPort, None
    <2>2. Half(i, th[t].got) BY <1>0, <1>14, Zenon DEF SpawnFails, At, Place
    <2>3. port'[i].fd = 0 /\ ~port'[i].is_open /\ port'[i].thread = port[i].thread
         BY <1>3, <1>6, <2>1, Zenon DEF PortRecord
    <2>4. Blank(i)' /\ fds' = {} BY <1>5, <2>1, <2>2, <2>3, Zenon DEF Blank, Half
    <2>5. Closed' BY <1>3, <2>1, <2>2, <2>3, <2>4, Zenon DEF Closed, Half, Runs, Blank
    <2>6. th'[t].pc = "failed" BY <1>0, <1>14, OpenMoves, Zenon DEF Fate, GoesTo
    <2>7. Place(t)' BY <1>5, <2>6, Zenon DEF Place
    <2>8. Numbered' BY <1>0, <2>1, <2>4, Zenon DEF Numbered
    <2> QED BY <2>5, <2>7, <2>8, Zenon DEF AtRest
  <1> QED BY <1>9, <1>10, <1>11, <1>12, <1>13, <1>14, Zenon

\* close_at_port.
LEMMA CloseClean ==
    ASSUME AtdTyped, Clean, NEW t \in Thread,
           CloseBegin(t) \/ CloseJoin(t) \/ Joined(t) \/ CloseFd(t)
    PROVE  Clean'
  <1> DEFINE i == th[t].inst
  <1>0. ThreadsTyped /\ KernelTyped /\ Place(t) /\ Numbered BY Zenon DEF AtdTyped, Clean, Tidy
  <1>1. th[t].pc \in Closing /\ mem' = mem
    BY Zenon DEF CloseBegin, CloseJoin, Joined, CloseFd, At, Closing
  <1>2. Inside(t) /\ th[t].pc # "idle" BY <1>1, Zenon DEF Inside, Closing
  <1>3. i \in Inst /\ Listed = {i} /\ Listed' = {i} BY <1>1, <1>2, OnePort, Zenon DEF Listed
  <1>4. Touches(i) BY PortTouches, Zenon DEF PortStep
  <1>5. th[t].then \in {"access", "open", "done", "destroy", "unlink"}
    BY <1>0, <1>1, Zenon DEF Place, AtdTyped, CallInv, CallOf, Goals
  <1>6. Others(t) /\ th'[t].op = th[t].op /\ th'[t].inst = i /\ th'[t].then # "destroyed"
    <2>1. th[t].then # "destroyed" BY <1>0, Zenon DEF Place
    <2>2. "idle" # "destroyed" BY Zenon
    <2> QED BY <1>0, <2>1, <2>2, CloseBeginMoves, CloseMoves, Zenon DEF Fate, GoesTo
  <1>7. port \in [Inst -> PortRecord] /\ port[i] \in PortRecord /\ reader \in [Open -> ReaderRecord]
    BY <1>3, Zenon DEF AtdTyped, PortsTyped, ReadersTyped
  <1>8. SUFFICES Place(t)' /\ (~Inside(t)' => AtRest') /\ (th'[t].pc = "failed" => Closed') /\ Numbered'
    BY <1>1, <1>2, <1>4, <1>6, CleanInside, Zenon
  <1>9. ASSUME Closed', th'[t].pc = th[t].then, Numbered'
        PROVE  Place(t)' /\ (~Inside(t)' => AtRest') /\ (th'[t].pc = "failed" => Closed') /\ Numbered'
    <2>1. AtRest' BY <1>9, Zenon DEF AtRest
    <2>2. Place(t)' BY <1>5, <1>6, <1>9, <2>1, Zenon DEF Place
    <2> QED BY <1>9, <2>1, <2>2, Zenon
  <1>10. CASE CloseBegin(t)
    <2>0. UNCHANGED <<fds, opens, reader, joined>> BY <1>10, Zenon DEF CloseBegin, kernel
    <2>1. AtRest BY <1>0, <1>10, Zenon DEF CloseBegin, At, Place
    <2>2. Numbered' BY <1>0, <2>0, Zenon DEF Numbered
    <2>3. CASE port[i].is_open
      <3>1. port' = [port EXCEPT ![i].should_stop = TRUE] BY <1>10, <2>3, Zenon DEF CloseBegin, MyPort
      <3>2. /\ port'[i].should_stop /\ port'[i].is_open = port[i].is_open /\ port'[i].fd = port[i].fd
            /\ port'[i].thread = port[i].thread
           BY <1>3, <1>7, <3>1, Zenon DEF PortRecord
      <3>3. th'[t].pc = "join" BY <1>10, <2>3, CloseBeginMoves, Zenon DEF Fate, GoesTo, MyPort
      <3>4. PICK r \in Open : Holds(i, r) BY <1>3, <2>1, <2>3, RestIsOpened, Zenon
      <3>5. Holds(i, r)' BY <1>6, <2>0, <3>2, <3>4, Zenon DEF Holds, Runs
      <3>6. Place(t)' BY <1>6, <3>2, <3>3, <3>5, Zenon DEF Place
      <3> QED BY <2>2, <3>3, <3>6, Zenon DEF Inside
    <2>4. CASE ~port[i].is_open
      <3>1. port' = port BY <1>10, <2>4, Zenon DEF CloseBegin, MyPort
      <3>2. Shared BY <1>1, <2>0, <3>1, Zenon DEF Shared
      <3>3. Closed' BY <1>3, <2>1, <2>4, <3>2, RestIsClosed, SharedKept, Zenon
      <3>4. th'[t].pc = th[t].then BY <1>10, <2>4, CloseBeginMoves, Zenon DEF Fate, GoesTo, MyPort
      <3> QED BY <1>9, <2>2, <3>3, <3>4, Zenon
    <2> QED BY <2>3, <2>4, Zenon
  <1>11. CASE CloseJoin(t)
    <2>1. port' = port /\ UNCHANGED <<fds, opens, reader, joined>> BY <1>11, Zenon DEF CloseJoin, kernel
    <2>2. PICK r \in Open : port[i].should_stop /\ Holds(i, r)
         BY <1>0, <1>11, Zenon DEF CloseJoin, At, Place
    <2>3. port[i].thread = r /\ r # 0 BY <2>2 DEF Holds, Open
    <2>4. Fate(t, IF MyPort(t).thread = 0 THEN "closefd" ELSE "joining", th[t].then, th[t].got,
               MyPort(t).thread)
         BY <1>11, CloseMoves, Zenon
    <2>5. th'[t].pc = "joining" /\ th'[t].target = r BY <2>3, <2>4, Zenon DEF Fate, MyPort
    <2>6. Holds(i, r)' BY <1>6, <2>1, <2>2, Zenon DEF Holds, Runs
    <2>7. Place(t)' BY <1>6, <2>1, <2>2, <2>3, <2>5, <2>6, Zenon DEF Place
    <2>8. Numbered' BY <1>0, <2>1, Zenon DEF Numbered
    <2> QED BY <2>5, <2>7, <2>8, Zenon DEF Inside
  <1>12. CASE Joined(t)
    <2>1. PICK r \in Open : port[i].should_stop /\ Holds(i, r) /\ th[t].target = port[i].thread
         BY <1>0, <1>12, Zenon DEF Joined, At, Place
    <2>2. th[t].then # "destroyed" /\ th[t].target = r BY <1>5, <2>1, Zenon DEF Holds
    <2>3. /\ UNCHANGED <<fds, opens, reader>> /\ joined' = joined \cup {r} /\ reader[r].state = "done"
          /\ port' = [port EXCEPT ![i].thread = 0]
         BY <1>12, <2>2, Zenon DEF Joined, None
    <2>4. port'[i].thread = 0 /\ port'[i].fd = r /\ port'[i].is_open
         BY <1>3, <1>7, <2>1, <2>3, Zenon DEF PortRecord, Holds
    <2>5. fds' = {r} /\ \A q \in Open : ~Runs(q)' BY <2>1, <2>3, Zenon DEF Holds, Runs
    <2>6. th'[t].pc = "closefd" BY <1>12, <2>2, CloseMoves, Zenon DEF Fate
    <2>7. Half(th[t].inst, port[th[t].inst].fd)' BY <1>6, <2>4, <2>5, Zenon DEF Half
    <2>8. Place(t)' BY <1>6, <2>4, <2>6, <2>7, Zenon DEF Place
    <2>9. Numbered' BY <1>0, <2>3, Zenon DEF Numbered
    <2> QED BY <2>6, <2>8, <2>9, Zenon DEF Inside
  <1>13. CASE CloseFd(t)
    <2>1. /\ UNCHANGED <<opens, reader, joined>> /\ fds' = fds \ {port[i].fd}
          /\ port' = [port EXCEPT ![i].fd = 0, ![i].is_open = FALSE]
         BY <1>13, Zenon DEF CloseFd, MyPort, None
    <2>2. Half(i, port[i].fd) BY <1>0, <1>13, Zenon DEF CloseFd, At, Place
    <2>3. port'[i].fd = 0 /\ ~port'[i].is_open /\ port'[i].thread = port[i].thread
         BY <1>3, <1>7, <2>1, Zenon DEF PortRecord
    <2>4. fds' = {} BY <2>1, <2>2, Zenon DEF Half
    <2>5. Closed' BY <1>3, <2>1, <2>2, <2>3, <2>4, Zenon DEF Closed, Half, Runs, Blank
    <2>6. th'[t].pc = th[t].then BY <1>13, CloseMoves, Zenon DEF Fate
    <2>7. Numbered' BY <1>0, <2>1, <2>4, Zenon DEF Numbered
    <2> QED BY <1>9, <2>5, <2>6, <2>7, Zenon
  <1> QED BY <1>10, <1>11, <1>12, <1>13, Zenon

\* destroy_port_instance.
LEMMA DestroyClean ==
    ASSUME AtdTyped, Clean, DestroyBegin \/ DestroyJoin \/ Unlink PROVE Clean'
  <1> DEFINE i == th["uloop"].inst
  <1>0. "uloop" \in Thread /\ ThreadsTyped /\ Place("uloop") /\ Numbered
    BY Zenon DEF AtdTyped, Clean, Tidy, Thread
  <1>1. /\ th["uloop"].pc \in {"destroy", "djoin", "unlink"} /\ UNCHANGED <<fds, opens, reader, joined>>
    BY Zenon DEF DestroyBegin, DestroyJoin, Unlink, At, kernel
  <1>2. Inside("uloop") /\ th["uloop"].pc # "idle" /\ Closed BY <1>0, <1>1, Zenon DEF Inside,
                                                                Place
  <1>3. i \in Inst /\ Listed = {i} BY <1>0, <1>2, OnePort, Zenon
  <1>4. Numbered' BY <1>0, <1>1, Zenon DEF Numbered
  <1>5. port \in [Inst -> PortRecord] /\ port[i] \in PortRecord /\ Blank(i)
    BY <1>2, <1>3, Zenon DEF AtdTyped, PortsTyped, Closed
  <1>6. CASE DestroyBegin
    <2>1. port' = [port EXCEPT ![i].should_stop = TRUE] /\ mem' = mem BY <1>6, Zenon DEF DestroyBegin
    <2>2. Touches(i) BY <1>3, <1>5, <2>1, Zenon DEF Touches, PortRecord
    <2>3. ~port'[i].is_open /\ port'[i].fd = 0 /\ port'[i].thread = 0
         BY <1>3, <1>5, <2>1, Zenon DEF Blank, PortRecord
    <2>4. Listed' = {i} BY <1>3, <2>1, Zenon DEF Listed
    <2>5. Closed' BY <1>1, <1>2, <2>3, <2>4, Zenon DEF Closed, Blank, Runs
    <2>6. /\ Others("uloop") /\ th'["uloop"].pc = "djoin" /\ th'["uloop"].then = th["uloop"].then
          /\ th'["uloop"].op = th["uloop"].op
         BY <1>6, DestroyMoves, Zenon DEF GoesTo, Fate
    <2>7. Place("uloop")' BY <1>0, <2>5, <2>6, Zenon DEF Place
    <2>8. Inside("uloop")' BY <2>6, Zenon DEF Inside
    <2> QED BY <1>0, <1>2, <1>4, <2>1, <2>2, <2>5, <2>6, <2>7, <2>8, CleanInside, Zenon
  <1>7. CASE DestroyJoin
    <2>1. port' = port /\ mem' = mem BY <1>7, Zenon DEF DestroyJoin
    <2>2. Touches(i) BY <2>1, Zenon DEF Touches
    <2>3. Shared BY <1>1, <2>1, Zenon DEF Shared
    <2>4. Closed' /\ AtRest' BY <1>2, <2>3, SharedKept, Zenon DEF AtRest
    <2>5. MyPort("uloop").thread = 0 BY <1>5, Zenon DEF MyPort, Blank
    <2>6. /\ Others("uloop") /\ th'["uloop"].pc = "close" /\ th'["uloop"].then = "unlink"
          /\ th'["uloop"].op = th["uloop"].op
         BY <1>7, <2>5, DestroyMoves DEF Fate, Open
    <2>7. Place("uloop")' BY <2>4, <2>6, Zenon DEF Place
    <2>8. Inside("uloop")' BY <2>6, Zenon DEF Inside
    <2> QED BY <1>0, <1>2, <1>4, <2>1, <2>2, <2>4, <2>6, <2>7, <2>8, CleanInside, Zenon
  <1>8. CASE Unlink
    <2>1. mem' = [mem EXCEPT ![i] = "freed"] /\ port' = port BY <1>8, Zenon DEF Unlink
    <2>2. Others("uloop") /\ th'["uloop"] = Resting BY <1>8, DestroyMoves, Zenon DEF Rests
    <2>3. /\ th'["uloop"].pc = "idle" /\ th'["uloop"].op = "none" /\ th'["uloop"].then = "idle"
         BY <2>2 DEF Resting
    <2>4. Listed' = {} BY <1>3, <2>1, Zenon DEF Listed, AtdTyped, PortsTyped
    <2>5. AtRest' BY <1>1, <1>2, <2>4, Zenon DEF AtRest, Closed, Runs
    <2>6. Place("uloop")' BY <2>3, Zenon DEF Place
    <2>7. NewCall' BY <2>3, Zenon DEF NewCall
    <2>8. Tidy'
      <3>1. \A j \in Inst : (mem[j] = "unused" => Blank(j) /\ ~port[j].due)'
           BY <1>3, <2>1, Zenon DEF Clean, Tidy, Blank, AtdTyped, PortsTyped
      <3> QED BY <1>4, <3>1, Zenon DEF Tidy
    <2>9. \A u \in Thread \ {"uloop"} : ~Inside(u) BY <1>2, Zenon DEF Clean, Thread
    <2> QED BY <1>0, <2>2, <2>5, <2>6, <2>7, <2>8, <2>9, CleanAlone, Zenon
  <1> QED BY <1>6, <1>7, <1>8, Zenon

\* Who enters finds nobody inside, or the history has it.
LEMMA EntersAlone ==
    ASSUME AtdTyped', NoteMeeting, slipped' = {}, NEW t \in Thread, Others(t), Inside(t)'
    PROVE  \A u \in Thread \ {t} : ~Inside(u)
  <1> SUFFICES ASSUME NEW u \in Thread \ {t}, Inside(u) PROVE FALSE BY Zenon
  <1>1. Inside("uloop")' /\ Inside("monitor")' BY Zenon DEF Inside, Others, Thread
  <1>2. th'["uloop"].pc # "idle" /\ th'["monitor"].pc # "idle" BY <1>1, Zenon DEF Inside
  <1>3. th'["uloop"].inst = th'["monitor"].inst BY <1>2, Zenon DEF AtdTyped, ListInv
  <1>4. Meeting' BY <1>1, <1>3, Zenon DEF Meeting
  <1> QED BY <1>4, Zenon DEF NoteMeeting

\* A thread that enters them finds the port at rest.
LEMMA CleanEnters ==
    ASSUME AtdTyped, AtdTyped', Clean, Shared, NoteMeeting, slipped' = {}, NEW t \in Thread, Others(t),
           ~Inside(t), th'[t].then # "destroyed", NewCall',
           th'[t].pc \in {"open", "close"} \/ (th'[t].pc = "destroy" /\ Closed),
           \A i \in Inst : mem[i] = "unused" => port'[i].due = port[i].due
    PROVE  Clean'
  <1>1. Inside(t)' BY Zenon DEF Inside
  <1>2. \A u \in Thread \ {t} : ~Inside(u) BY <1>1, EntersAlone, Zenon
  <1>3. AtRest BY <1>2, Zenon DEF Clean
  <1>4. AtRest' /\ (Closed => Closed') BY <1>3, SharedKept, Zenon
  <1>5. Place(t)' BY <1>4, Zenon DEF Place
  <1>6. Tidy' BY TidyKept, Zenon DEF Clean
  <1> QED BY <1>1, <1>2, <1>5, <1>6, CleanAlone, Zenon

\* A new instance.
LEMMA CleanFresh ==
    ASSUME AtdTyped, Clean, NEW i \in Inst, NEW s \in {"open", "auto"}, NEW o, Fresh(i),
           Takes("uloop", i, s, th["uloop"].then, o), port' = port, UNCHANGED <<fds, opens, reader, joined>>
    PROVE  Clean'
  <1>0. "uloop" \in Thread /\ Others("uloop") /\ th'["uloop"].pc = s /\ th'["uloop"].then # "destroyed"
       BY Zenon DEF Takes, Thread, Clean, Place
  <1>1. Listed = {} /\ Listed' = {i} /\ mem[i] = "unused"
       BY Zenon DEF Fresh, Listed, AtdTyped, PortsTyped
  <1>2. th["monitor"].pc = "idle" /\ th["uloop"].pc = "idle" BY <1>1, Zenon DEF AtdTyped,
                                                                ListInv
  <1>3. \A t \in Thread : ~Inside(t) BY <1>2, Zenon DEF Inside, Thread
  <1>4. AtRest BY <1>3, Zenon DEF Clean
  <1>5. Closed BY <1>1, <1>4, Zenon DEF AtRest, Opened
  <1>6. Blank(i) /\ ~port[i].due BY <1>1, Zenon DEF Clean, Tidy
  <1>7. Blank(i)' BY <1>6, Zenon DEF Blank
  <1>8. Closed' BY <1>1, <1>5, <1>7, Zenon DEF Closed, Runs
  <1>9. AtRest' BY <1>8, Zenon DEF AtRest
  <1>10. Place("uloop")' BY <1>0, <1>9, Zenon DEF Place
  <1>11. Tidy'
    <2>1. Numbered' BY Zenon DEF Clean, Tidy, Numbered
    <2>2. \A j \in Inst : (mem[j] = "unused" => Blank(j) /\ ~port[j].due)'
         BY Zenon DEF Clean, Tidy, Blank, Fresh, AtdTyped, PortsTyped
    <2> QED BY <2>1, <2>2, Zenon DEF Tidy
  <1>12. NewCall'
    <2>1. th'["monitor"] = th["monitor"] BY Zenon DEF Takes, Others, Thread
    <2> QED BY <1>0, <1>1, <1>2, <1>6, <2>1, Zenon DEF NewCall
  <1> QED BY <1>0, <1>3, <1>9, <1>10, <1>11, <1>12, CleanAlone, Zenon

\* The ubus methods begin.
LEMMA StartsClean ==
    ASSUME AtdTyped, AtdTyped', Clean, UloopStarts, slipped' = {} PROVE Clean'
  <1>0. /\ ThreadsTyped /\ "uloop" \in Thread /\ {"open", "auto"} \subseteq Steps /\ Listed \subseteq Inst
       BY Zenon DEF AtdTyped, Steps, Thread, Listed
  <1>1. th["uloop"].pc = "idle" BY Zenon DEF UloopStarts, UbusOpen, UbusSendat, UbusClose, At
  <1>2. ~Inside("uloop") /\ th["uloop"].then # "destroyed" BY <1>0, <1>1, Zenon DEF Inside,
                                                              Clean,
                                                              Place
  <1>3. port' = port /\ UNCHANGED <<fds, opens, reader, joined>>
       BY Zenon DEF UloopStarts, UbusOpen, UbusSendat, UbusClose, kernel
  <1>4. mem' = mem => Shared BY <1>3, Zenon DEF Shared
  <1>5. \A i \in Inst : mem[i] = "unused" => port'[i].due = port[i].due BY <1>3, Zenon
  <1>6. CASE UbusOpen
    <2>1. NoteMeeting /\ WithInstance("open", "new", "open") BY <1>6, Zenon DEF UbusOpen
    <2>2. \/ UNCHANGED mem /\ \E i \in Listed : Takes("uloop", i, "open", th["uloop"].then, "open")
          \/ \E i \in Inst : Fresh(i) /\ Takes("uloop", i, "open", th["uloop"].then, "new")
         BY <1>0, <2>1, WithInstanceMoves, Zenon
    <2>3. ASSUME mem' = mem, NEW i \in Listed, Takes("uloop", i, "open", th["uloop"].then, "open")
          PROVE  Clean'
      <3>1. /\ Others("uloop") /\ th'["uloop"].pc = "open" /\ th'["uloop"].op = "open"
            /\ th'["uloop"].then # "destroyed"
           BY <1>2, <2>3, Zenon DEF Takes
      <3>2. NewCall' BY <3>1, Zenon DEF NewCall
      <3> QED BY <1>0, <1>2, <1>4, <1>5, <2>1, <2>3, <3>1, <3>2, CleanEnters, Zenon
    <2> QED BY <1>3, <2>2, <2>3, CleanFresh, Zenon
  <1>7. ASSUME NEW o \in Sending, UbusSendat(o) PROVE Clean'
    <2>1. WithInstance(o, o, "auto") BY <1>7, Zenon DEF UbusSendat
    <2>2. \/ UNCHANGED mem /\ \E i \in Listed : Takes("uloop", i, "auto", th["uloop"].then, o)
          \/ \E i \in Inst : Fresh(i) /\ Takes("uloop", i, "auto", th["uloop"].then, o)
         BY <1>0, <2>1, WithInstanceMoves, Zenon DEF Sending
    <2>3. ASSUME mem' = mem, NEW i \in Listed, Takes("uloop", i, "auto", th["uloop"].then, o)
          PROVE  Clean'
      <3>1. /\ Others("uloop") /\ th'["uloop"].pc = "auto" /\ th'["uloop"].op = o
            /\ th'["uloop"].then # "destroyed"
           BY <1>2, <2>3, Zenon DEF Takes
      <3>2. NewCall' /\ ~Inside("uloop")' BY <3>1, Zenon DEF NewCall, Inside, Sending
      <3> QED BY <1>0, <1>2, <1>4, <1>5, <2>3, <3>1, <3>2, CleanOutside, Zenon
    <2> QED BY <1>3, <2>2, <2>3, CleanFresh, Zenon
  <1>8. CASE UbusClose
    <2>1. NoteMeeting /\ mem' = mem BY <1>8, Zenon DEF UbusClose
    <2>2. /\ Others("uloop") /\ th'["uloop"].pc = "close" /\ th'["uloop"].op = "close"
          /\ th'["uloop"].then = "destroy"
         BY <1>0, <1>8, UbusCloseMoves, Zenon DEF Takes
    <2>3. NewCall' BY <2>2, Zenon DEF NewCall
    <2> QED BY <1>0, <1>2, <1>4, <1>5, <2>1, <2>2, <2>3, CleanEnters, Zenon
  <1> QED BY <1>6, <1>7, <1>8, Zenon DEF UloopStarts, Sending

\* The ubus methods go on and end.
LEMMA CallsClean ==
    ASSUME AtdTyped, AtdTyped', Clean, slipped' = {}, UloopCall, ~DestroyBegin, ~DestroyJoin, ~Unlink
    PROVE  Clean'
  <1>0. /\ ThreadsTyped /\ "uloop" \in Thread /\ th["uloop"].then # "destroyed" /\ NewCall /\ None = 0
        /\ port \in [Inst -> PortRecord] /\ th["uloop"].inst \in Inst /\ Listed \subseteq Inst
       BY Zenon DEF AtdTyped, Thread, Clean, Place, PortsTyped, ThreadsTyped, ThreadRecord,
          Listed, None
  <1>1. ~Inside("uloop")
    BY Zenon DEF UloopCall, UbusOpenReturns, SendAuto, SendOpened, SendOpenFails, SendBegin,
       SendWrites, WriteFails, SendAnswered, SendTimesOut, At, Inside, AtdTyped, CallInv,
       CallOf
  <1>2. mem' = mem /\ UNCHANGED <<fds, opens, reader, joined>>
    BY Zenon DEF UloopCall, UbusOpenReturns, SendAuto, SendOpened, SendOpenFails, SendBegin, SendWrites,
       WriteFails, SendAnswered, SendTimesOut, kernel
  <1>3. /\ \A i \in Inst : port'[i].due = port[i].due
        /\ Shared
    <2> DEFINE i == th["uloop"].inst
    <2>1. \/ port' = port
          \/ port' = [port EXCEPT ![i].waiting = TRUE, ![i].by = 0]
          \/ \E w : port' = [port EXCEPT ![i].waiting = w]
      BY <1>0, Zenon DEF UloopCall, UbusOpenReturns, SendAuto, SendOpened, SendOpenFails, SendBegin,
         SendWrites, WriteFails, SendAnswered, SendTimesOut
    <2> DEFINE Kept == \A j \in Inst :
                         /\ port'[j].due = port[j].due
                         /\ port'[j].is_open = port[j].is_open /\ port'[j].fd = port[j].fd
                         /\ port'[j].thread = port[j].thread
                         /\ port'[j].should_stop = port[j].should_stop
    <2>2. CASE port' = port BY <1>2, <2>2, Zenon DEF Shared
    <2>3. CASE port' = [port EXCEPT ![i].waiting = TRUE, ![i].by = 0]
      <3>1. Kept BY <1>0, <2>3, Zenon DEF PortRecord
      <3> QED BY <1>2, <3>1, Zenon DEF Shared
    <2>4. ASSUME NEW w, port' = [port EXCEPT ![i].waiting = w] PROVE Kept
      BY <1>0, <2>4, Zenon DEF PortRecord
    <2>5. CASE Kept BY <1>2, <2>5, Zenon DEF Shared
    <2> QED BY <2>1, <2>2, <2>3, <2>4, <2>5, Zenon
  <1>4. ASSUME Rests("uloop") PROVE Clean'
    <2>1. /\ Others("uloop") /\ th'["uloop"].pc = "idle" /\ th'["uloop"].op = "none"
          /\ th'["uloop"].then = "idle"
         BY <1>4 DEF Rests, Resting
    <2>2. NewCall' /\ ~Inside("uloop")' BY <2>1, Zenon DEF NewCall, Inside
    <2> QED BY <1>0, <1>1, <1>3, <2>1, <2>2, CleanOutside, Zenon
  <1>5. ASSUME NEW s, GoesTo("uloop", s), s # "failed" PROVE NewCall'
    <2>1. th'["monitor"] = th["monitor"] /\ th'["uloop"].op = th["uloop"].op /\ th'["uloop"].pc # "failed"
         BY <1>5, Zenon DEF GoesTo, Fate, Others, Thread
    <2>2. Listed' = Listed BY <1>2, Zenon DEF Listed
    <2> QED BY <1>0, <1>3, <2>1, <2>2, Zenon DEF NewCall
  <1>6. ASSUME NEW s \in {"opened", "send", "write", "wait"}, GoesTo("uloop", s) PROVE Clean'
    <2>1. Others("uloop") /\ th'["uloop"].pc = s /\ th'["uloop"].then # "destroyed"
         BY <1>0, <1>6, Zenon DEF GoesTo, Fate
    <2>2. NewCall' /\ ~Inside("uloop")' BY <1>5, <1>6, <2>1, Zenon DEF Inside
    <2> QED BY <1>0, <1>1, <1>3, <2>1, <2>2, CleanOutside, Zenon
  <1>7. ASSUME NEW s \in {"open", "destroy"}, GoesTo("uloop", s), NoteMeeting, s = "destroy" => Closed
        PROVE  Clean'
    <2>1. Others("uloop") /\ th'["uloop"].pc = s /\ th'["uloop"].then # "destroyed"
         BY <1>0, <1>7, Zenon DEF GoesTo, Fate
    <2>2. NewCall' BY <1>5, <1>7, Zenon
    <2> QED BY <1>0, <1>1, <1>3, <1>7, <2>1, <2>2, CleanEnters, Zenon
  <1>8. CASE UbusOpenReturns
    <2>1. NoteMeeting BY <1>8, Zenon DEF UbusOpenReturns
    <2>2. At("uloop", "failed") /\ th["uloop"].op = "new" => Closed BY <1>0, Zenon DEF NewCall,
                                                                       At
    <2> QED BY <1>0, <1>4, <1>7, <1>8, <2>1, <2>2, CallMoves, Zenon
  <1>9. CASE SendAuto
    <2>1. NoteMeeting BY <1>9, Zenon DEF SendAuto
    <2>2. GoesTo("uloop", "opened") \/ GoesTo("uloop", "open") BY <1>0, <1>9, CallMoves, Zenon
    <2> QED BY <1>6, <1>7, <2>1, <2>2, Zenon
  <1>10. CASE SendOpened \/ SendBegin BY <1>0, <1>6, <1>10, CallMoves, Zenon
  <1>11. CASE SendWrites BY <1>0, <1>4, <1>6, <1>11, CallMoves, Zenon
  <1>12. CASE SendOpenFails \/ WriteFails \/ SendAnswered \/ SendTimesOut
    BY <1>0, <1>4, <1>12, CallMoves, Zenon
  <1> QED BY <1>8, <1>9, <1>10, <1>11, <1>12, Zenon DEF UloopCall

\* The monitor begins and ends.
LEMMA MonitorClean ==
    ASSUME AtdTyped, AtdTyped', Clean, slipped' = {}, MonitorCheck \/ MonitorDone PROVE Clean'
  <1>0. /\ ThreadsTyped /\ "monitor" \in Thread /\ NewCall /\ port \in [Inst -> PortRecord]
        /\ Listed \subseteq Inst /\ th["monitor"].pc \in {"idle", "opened", "failed", "done"}
       BY Zenon DEF AtdTyped, Thread, Clean, PortsTyped, Listed, MonitorCheck, MonitorDone, At
  <1>1. ~Inside("monitor") BY <1>0, Zenon DEF Inside
  <1>2. mem' = mem /\ UNCHANGED <<fds, opens, reader, joined>>
       BY Zenon DEF MonitorCheck, MonitorDone, kernel
  <1>3. CASE MonitorCheck
    <2>1. PICK i \in Listed, s \in {"done", "close", "open"}, n \in {"open", "done"} :
              /\ Takes("monitor", i, s, n, th["monitor"].op)
              /\ port[i].due /\ port' = [port EXCEPT ![i].due = FALSE]
         BY <1>3, MonitorMoves, Zenon
    <2>2. i \in Inst /\ mem[i] = "listed" BY Zenon DEF Listed
    <2>3. \A j \in Inst : /\ port'[j].is_open = port[j].is_open /\ port'[j].fd = port[j].fd
                          /\ port'[j].thread = port[j].thread
                          /\ port'[j].should_stop = port[j].should_stop
         BY <1>0, <2>1, <2>2, Zenon DEF PortRecord
    <2>4. Shared BY <1>2, <2>3, Zenon DEF Shared
    <2>5. \A j \in Inst : mem[j] = "unused" => port'[j].due = port[j].due
         BY <1>0, <2>1, <2>2, Zenon
    <2>6. /\ Others("monitor") /\ th'["monitor"].pc = s /\ th'["monitor"].then = n
          /\ th'["uloop"] = th["uloop"]
         BY <2>1, Zenon DEF Takes, Others, Thread
    <2>7. NewCall' BY <1>0, <2>1, <2>6, Zenon DEF NewCall
    <2>8. NoteMeeting BY <1>3, Zenon DEF MonitorCheck
    <2>9. CASE s = "done"
      <3>1. ~Inside("monitor")' BY <2>6, <2>9, Zenon DEF Inside
      <3> QED BY <1>0, <1>1, <2>4, <2>5, <2>6, <2>7, <3>1, CleanOutside, Zenon
    <2>10. CASE s \in {"open", "close"}
      BY <1>0, <1>1, <2>4, <2>5, <2>6, <2>7, <2>8, <2>10, CleanEnters, Zenon
    <2> QED BY <2>9, <2>10, Zenon
  <1>4. CASE MonitorDone
    <2>1. port' = port /\ th["monitor"].pc # "idle" BY <1>4, Zenon DEF MonitorDone
    <2>2. Shared BY <1>2, <2>1, Zenon DEF Shared
    <2>3. Others("monitor") /\ th'["monitor"] = Resting BY <1>0, <1>4, CallMoves, Zenon
                                                           DEF Rests
    <2>4. /\ th'["monitor"].pc = "idle" /\ th'["monitor"].then = "idle" /\ th'["uloop"] = th["uloop"]
         BY <2>3 DEF Resting, Others, Thread
    <2>5. NewCall' BY <1>0, <2>1, <2>4, Zenon DEF NewCall
    <2>6. ~Inside("monitor")' BY <2>4, Zenon DEF Inside
    <2> QED BY <1>0, <1>1, <2>1, <2>2, <2>3, <2>4, <2>5, <2>6, CleanOutside, Zenon
  <1> QED BY <1>3, <1>4, Zenon

\* Steps of nobody inside: the reader, the modem, the clock.
LEMMA CleanSame ==
    ASSUME AtdTyped, Clean, Shared, th' = th, NewCall',
           \A i \in Inst : mem[i] = "unused" => port'[i].due = port[i].due
    PROVE  Clean'
  <1>1. \A u \in Thread : Place(u)' BY PlaceKept, Zenon DEF Clean
  <1>2. \A u \in Thread : Inside(u)' <=> Inside(u) BY Zenon DEF Inside
  <1>3. ((\A u \in Thread : ~Inside(u)) => AtRest)' BY <1>2, SharedKept, Zenon DEF Clean
  <1>4. ~(Inside("uloop") /\ Inside("monitor"))' BY Zenon DEF Clean, Inside
  <1>5. Tidy' BY TidyKept, Zenon DEF Clean
  <1> QED BY <1>1, <1>3, <1>4, <1>5, Zenon DEF Clean

\* A reader that is told to stop is one a close waits for.
LEMMA StopsClean ==
    ASSUME AtdTyped, Clean, NEW r \in Open, ReaderStops(r) PROVE Clean'
  <1>0. /\ Runs(r) /\ port[reader[r].inst].should_stop /\ reader' = [reader EXCEPT ![r].state = "done"]
        /\ UNCHANGED <<mem, port, fds, opens, joined, th>>
       BY Zenon DEF ReaderStops, Own
  <1>1. /\ reader \in [Open -> ReaderRecord] /\ Listed' = Listed /\ reader[r].state = "run"
       BY <1>0, Zenon DEF AtdTyped, ReadersTyped, Listed, Runs
  <1>2. /\ \A q \in Open : reader'[q].inst = reader[q].inst
        /\ \A q \in Open \ {r} : reader'[q].state = reader[q].state
        /\ reader'[r].state = "done"
       BY <1>0, <1>1, Zenon DEF ReaderRecord
  <1>3. ~Closed /\ ~AtRest
    <2>1. ~Closed BY <1>0, Zenon DEF Closed
    <2>2. ~Opened BY <1>0, Zenon DEF Opened, Holds
    <2> QED BY <2>1, <2>2, Zenon DEF AtRest
  <1>4. \A i \in Inst : \A q : ~Half(i, q) BY <1>0, Zenon DEF Half
  <1>5. \A i \in Inst, q \in Open : Holds(i, q) => Holds(i, q)'
    <2> SUFFICES ASSUME NEW i \in Inst, NEW q \in Open, Holds(i, q) PROVE Holds(i, q)' BY Zenon
    <2>1. q = r BY <1>0, Zenon DEF Holds
    <2>2. \A p \in Open : Runs(p)' => p = q BY <1>2, <2>1, Zenon DEF Holds, Runs
    <2> QED BY <1>0, <1>2, <2>1, <2>2, Zenon DEF Holds
  <1>6. \A t \in Thread : Place(t)'
    <2> SUFFICES ASSUME NEW t \in Thread PROVE Place(t)' BY Zenon
    <2>1. Place(t) /\ th[t].inst \in Inst BY Zenon DEF Clean, AtdTyped, ThreadsTyped,
                                             ThreadRecord
    <2>2. th[t].pc \notin {"open", "close", "access", "destroy", "djoin", "unlink", "mark", "spawn", "closefd"}
         BY <1>3, <1>4, <2>1, Zenon DEF Place
    <2>3. th[t].pc \in {"join", "joining"} => (\E q \in Open : Holds(th[t].inst, q))'
      <3> SUFFICES ASSUME th[t].pc \in {"join", "joining"}
                   PROVE  (\E q \in Open : Holds(th[t].inst, q))'
        BY Zenon
      <3>1. PICK q \in Open : Holds(th[t].inst, q) BY <2>1, Zenon DEF Place
      <3>2. Holds(th[t].inst, q)' BY <1>0, <1>5, <2>1, <3>1, Zenon
      <3> QED BY <3>2, Zenon
    <2> QED BY <1>0, <2>1, <2>2, <2>3, Zenon DEF Place
  <1>7. ((\A t \in Thread : ~Inside(t)) => AtRest)' BY <1>0, <1>3, Zenon DEF Clean, Inside
  <1>8. ~(Inside("uloop") /\ Inside("monitor"))' BY <1>0, Zenon DEF Clean, Inside
  <1>9. Tidy'
    <2>1. \A i \in Inst : (mem[i] = "unused" => Blank(i) /\ ~port[i].due)' BY <1>0, Zenon
                                                                              DEF Clean,
                                                                              Tidy,
                                                                              Blank
    <2>2. Numbered' BY <1>0, <1>1, <1>2, Zenon DEF Clean, Tidy, Numbered
    <2> QED BY <2>1, <2>2, Zenon DEF Tidy
  <1>10. NewCall' BY <1>0, <1>1, <1>3, Zenon DEF Clean, NewCall
  <1> QED BY <1>6, <1>7, <1>8, <1>9, <1>10, Zenon DEF Clean

\* Readers, the modem and the cable disturb nothing the threads rely on.
LEMMA RestOfClean ==
    ASSUME AtdTyped, Clean, slipped' = {},
           \/ UNCHANGED vars \/ IntervalPasses \/ (\E r \in Open : Reader(r))
           \/ ModemAnswers \/ Unplug \/ Plug
    PROVE  Clean'
  <1>0. /\ NewCall /\ port \in [Inst -> PortRecord] /\ reader \in [Open -> ReaderRecord]
        /\ Listed \subseteq Inst
       BY Zenon DEF Clean, AtdTyped, PortsTyped, ReadersTyped, Listed
  <1>1. ASSUME Shared, th' = th, \A i \in Inst : port'[i].due = port[i].due PROVE Clean'
    <2>1. Listed' = Listed BY <1>1, Zenon DEF Shared, Listed
    <2>2. Closed' <=> Closed BY <1>1, SharedKept, Zenon
    <2>3. NewCall' BY <1>0, <1>1, <2>1, <2>2, Zenon DEF NewCall
    <2> QED BY <1>1, <2>3, CleanSame, Zenon
  <1>2. CASE UNCHANGED vars \/ ModemAnswers \/ Unplug \/ Plug
    <2>1. UNCHANGED <<mem, port, fds, opens, reader, joined, th>>
         BY <1>2, Zenon DEF vars, kernel, ModemAnswers, Unplug, Plug
    <2>2. Shared BY <2>1, Zenon DEF Shared
    <2> QED BY <1>1, <2>1, <2>2, Zenon
  <1>3. CASE IntervalPasses
    <2>1. PICK i \in Listed : port' = [port EXCEPT ![i].due = TRUE] BY <1>3, Zenon DEF IntervalPasses
    <2>2. UNCHANGED <<mem, fds, opens, reader, joined, th>> BY <1>3, Zenon DEF IntervalPasses, kernel
    <2>3. \A j \in Inst : /\ port'[j].is_open = port[j].is_open /\ port'[j].fd = port[j].fd
                          /\ port'[j].thread = port[j].thread
                          /\ port'[j].should_stop = port[j].should_stop
         BY <1>0, <2>1, Zenon DEF PortRecord
    <2>4. Shared BY <2>2, <2>3, Zenon DEF Shared
    <2>5. mem[i] = "listed" /\ i \in Inst BY Zenon DEF Listed
    <2>6. \A j \in Inst : mem[j] = "unused" => port'[j].due = port[j].due
         BY <1>0, <2>1, <2>5, Zenon
    <2>7. th["uloop"].op # "new"
         BY <1>3, Zenon DEF IntervalPasses, AtdTyped, CallInv, CommandOf, Sending
    <2>8. NewCall' BY <2>2, <2>7, Zenon DEF NewCall
    <2> QED BY <2>2, <2>4, <2>6, <2>8, CleanSame, Zenon
  <1>4. ASSUME NEW r \in Open, ReaderReads(r) PROVE Clean'
    <2>1. UNCHANGED <<mem, port, fds, opens, joined, th>> BY <1>4, Zenon DEF ReaderReads
    <2> PICK x : reader' = [reader EXCEPT ![r].lines = x] BY <1>4, Zenon DEF ReaderReads
    <2>2. \A q \in Open : reader'[q].state = reader[q].state /\ reader'[q].inst = reader[q].inst
         BY <1>0, Zenon DEF ReaderRecord
    <2>3. Shared BY <2>1, <2>2, Zenon DEF Shared
    <2> QED BY <1>1, <2>1, <2>3, Zenon
  <1>5. ASSUME NEW r \in Open, ReaderLine(r) PROVE Clean'
    <2> DEFINE i == reader[r].inst
    <2>1. /\ UNCHANGED <<mem, fds, opens, joined, th>>
          /\ reader' = [reader EXCEPT ![r].lines = Tail(reader[r].lines)]
          /\ \/ port' = port
             \/ port' = [port EXCEPT ![i].waiting = FALSE, ![i].by = Head(reader[r].lines)]
         BY <1>5, Zenon DEF ReaderLine
    <2>2. \A q \in Open : reader'[q].state = reader[q].state /\ reader'[q].inst = reader[q].inst
         BY <1>0, <2>1 DEF ReaderRecord
    <2>3. i \in Inst BY <1>0, Zenon DEF ReaderRecord
    <2> DEFINE Kept == \A j \in Inst :
                         /\ port'[j].due = port[j].due
                         /\ port'[j].is_open = port[j].is_open /\ port'[j].fd = port[j].fd
                         /\ port'[j].thread = port[j].thread
                         /\ port'[j].should_stop = port[j].should_stop
    <2>4. Kept
      <3>1. CASE port' = port BY <3>1, Zenon
      <3>2. CASE port' = [port EXCEPT ![i].waiting = FALSE, ![i].by = Head(reader[r].lines)]
        BY <1>0, <2>3, <3>2, Zenon DEF PortRecord
      <3> QED BY <2>1, <3>1, <3>2, Zenon
    <2>5. Shared BY <2>1, <2>2, <2>4, Zenon DEF Shared
    <2> QED BY <1>1, <2>1, <2>4, <2>5, Zenon
  <1>6. \A r \in Open : ~ReaderFails(r) BY Zenon DEF ReaderFails
  <1> QED BY <1>2, <1>3, <1>4, <1>5, <1>6, StopsClean, Zenon DEF Reader

\* The daemon starts clean ...
LEMMA CleanStarts == Init => Clean
  <1> SUFFICES ASSUME Init PROVE Clean BY Zenon
  <1>1. \A t \in Thread : th[t] = Resting BY Zenon DEF Init, InitDaemon
  <1>2. \A t \in Thread : ~Inside(t) /\ Place(t) BY <1>1 DEF Resting, Inside, Place
  <1>3. Listed = {} BY Zenon DEF Init, InitDaemon, Listed
  <1>4. Closed BY <1>3, Zenon DEF Closed, Runs, Init, InitDaemon
  <1>5. Tidy BY Zenon DEF Tidy, Numbered, Blank, NewPort, None, Init, InitDaemon
  <1>6. NewCall BY <1>1 DEF NewCall, Resting, Thread
  <1>7. "uloop" \in Thread BY Zenon DEF Thread
  <1> QED BY <1>2, <1>4, <1>5, <1>6, <1>7, Zenon DEF Clean, AtRest

\* ... and a crash leaves a daemon that starts again.
LEMMA CrashClean == Crash => Clean'
  <1> SUFFICES ASSUME Crash PROVE Clean' BY Zenon
  <1>0. /\ mem' = [i \in Inst |-> "unused"] /\ port' = [i \in Inst |-> NewPort]
        /\ fds' = {} /\ opens' = 0 /\ joined' = {} /\ th' = [t \in Thread |-> Resting]
        /\ reader' = [r \in Open |-> [state |-> "none", inst |-> 1, lines |-> <<>>]]
       BY Zenon DEF Crash, InitDaemon
  <1>1. \A t \in Thread : th'[t] = Resting BY <1>0, Zenon
  <1>2. \A t \in Thread : ~Inside(t)' /\ Place(t)' BY <1>1 DEF Resting, Inside, Place
  <1>3. Listed' = {} BY <1>0, Zenon DEF Listed
  <1>4. Closed' BY <1>0, <1>3, Zenon DEF Closed, Runs
  <1>5. Tidy' BY <1>0, Zenon DEF Tidy, Numbered, Blank, NewPort, None
  <1>6. NewCall' BY <1>1 DEF NewCall, Resting, Thread
  <1>7. "uloop" \in Thread BY Zenon DEF Thread
  <1> QED BY <1>2, <1>4, <1>5, <1>6, <1>7, Zenon DEF Clean, AtRest

\* The history is forgotten by a restart only.
LEMMA SlipsStay == ASSUME [Next]_vars, ~Crash PROVE slipped \subseteq slipped'
  <1>1. \/ slipped' = slipped \/ NoteMeeting \/ \E r \in Open : ReaderFails(r)
    BY StepCases, Zenon DEF PortStep, OpenBegin, OpenFails, OpenFd, OpenMark, OpenSpawn, SpawnFails,
       CloseBegin, CloseJoin, Joined, CloseFd, UloopCall, DestroyBegin, DestroyJoin, Unlink,
       UbusOpenReturns, SendAuto, SendOpened, SendOpenFails, SendBegin, SendWrites, WriteFails,
       SendAnswered, SendTimesOut, UloopStarts, UbusOpen, UbusSendat, UbusClose, IntervalPasses,
       MonitorCheck, MonitorDone, Reader, ReaderStops, ReaderReads, ReaderLine, ModemAnswers, Unplug,
       Plug, vars
  <1> QED BY <1>1, Zenon DEF NoteMeeting, ReaderFails

Orderly == slipped = {} => Clean

\* Clean holds from step to step while nothing has slipped.
LEMMA OrderlyStep == ASSUME AtdTyped, AtdTyped', Orderly, [Next]_vars PROVE Orderly'
  <1> SUFFICES ASSUME slipped' = {}, ~Crash PROVE Clean'
    BY CrashClean, Zenon DEF Orderly
  <1>1. Clean BY SlipsStay, Zenon DEF Orderly
  <1>2. ASSUME NEW t \in Thread, PortStep(t) PROVE Clean'
    BY <1>1, <1>2, OpenClean, CloseClean, Zenon DEF PortStep
  <1>3. CASE UloopCall BY <1>1, <1>3, CallsClean, DestroyClean, Zenon
  <1> QED BY <1>1, <1>2, <1>3, StepCases, StartsClean, MonitorClean, RestOfClean, Zenon

\* An orderly life leaves nothing behind: every descriptor and every reader
\* belongs to the listed port, no reader runs on freed memory and no thread is
\* joined twice (open_at_port, close_at_port, destroy_port_instance).
THEOREM OrderlyIsCleanHolds == Spec => []OrderlyIsClean
  <1>1. ASSUME AtdTyped, Orderly PROVE OrderlyIsClean
    <2> SUFFICES ASSUME slipped = {}
                 PROVE  /\ Lost = {} /\ ~Undefined
                        /\ \A r \in Open : Runs(r) => mem[reader[r].inst] = "listed" /\ Own(r).thread = r
      BY Zenon DEF OrderlyIsClean
    <2>0. Clean BY <1>1, Zenon DEF Orderly
    <2>1. Closed \/ (\E i \in Listed, r \in Open : Holds(i, r)) \/ (\E i \in Listed : \E r : Half(i, r))
      <3>1. CASE \A t \in Thread : ~Inside(t) BY <2>0, <3>1, Zenon DEF Clean, AtRest, Opened
      <3>2. ASSUME NEW t \in Thread, Inside(t)
            PROVE  Closed \/ (\E i \in Listed, r \in Open : Holds(i, r)) \/ (\E i \in Listed : \E r : Half(i, r))
        <4>1. th[t].inst \in Listed
          <5>1. th[t].pc # "idle" BY <3>2, Zenon DEF Inside
          <5> QED BY <1>1, <5>1, Zenon DEF AtdTyped, ListInv, Thread
        <4>2. Place(t) BY <2>0, Zenon DEF Clean
        <4>3. CASE th[t].pc \in {"open", "close"} BY <4>2, <4>3, Zenon DEF Place, AtRest, Opened
        <4>4. CASE th[t].pc \in {"access", "destroy", "djoin", "unlink"} BY <4>2, <4>4, Zenon
                                                                            DEF Place
        <4>5. CASE th[t].pc \in {"mark", "spawn", "closefd"} BY <4>1, <4>2, <4>5, Zenon
                                                                DEF Place
        <4>6. CASE th[t].pc \in {"join", "joining"} BY <4>1, <4>2, <4>6, Zenon DEF Place
        <4> QED BY <3>2, <4>3, <4>4, <4>5, <4>6, Zenon DEF Inside
      <3> QED BY <3>1, <3>2, Zenon
    <2>2. Lost = {} BY <2>1, Zenon DEF Lost, Closed, Holds, Half
    <2>3. \A r \in Open : Runs(r) => mem[reader[r].inst] = "listed" /\ Own(r).thread = r
      BY <2>1, Zenon DEF Closed, Holds, Half, Own, Listed
    <2>4. \A t \in Thread : th[t].pc = "joining" => th[t].target \notin joined
      BY <2>0, Zenon DEF Clean, Place, Holds
    <2>5. ~Undefined BY <2>3, <2>4, Zenon DEF Undefined, Runs
    <2> QED BY <2>2, <2>3, <2>5, Zenon
  <1>2. Init => Orderly BY CleanStarts, Zenon DEF Orderly
  <1>3. AtdTyped /\ AtdTyped' /\ Orderly /\ [Next]_vars => Orderly' BY OrderlyStep, Zenon
  <1> QED BY <1>1, <1>2, <1>3, DaemonAlways, PTL DEF Spec
-----------------------------------------------------------------------------
(* Final lines in the order the modem sent them.                           *)

In(s) == {s[i] : i \in DOMAIN s}
Ascending(s) == \A i, j \in DOMAIN s : i < j => s[i] < s[j]
Below(S, T) == \A x \in S, y \in T : x < y

\* The lines in a sequence, and how its operations change them.
LEMMA InSeq == ASSUME NEW s \in Seq(Cmd) PROVE In(s) \subseteq Cmd /\ In(s) = {s[i] : i \in 1 .. Len(s)}
  BY DEF In

\* An empty sequence has none.
LEMMA InEmpty == In(<<>>) = {} /\ Ascending(<<>>)
  BY DEF In, Ascending

\* A line at the end.
LEMMA InAppend ==
    ASSUME NEW s \in Seq(Cmd), NEW c \in Cmd
    PROVE  /\ In(Append(s, c)) = In(s) \cup {c}
           /\ Ascending(s) /\ Below(In(s), {c}) => Ascending(Append(s, c))
  <1> DEFINE t == Append(s, c)
  <1>1. DOMAIN t = 1 .. Len(s) + 1 /\ t[Len(s) + 1] = c /\ \A i \in 1 .. Len(s) : t[i] = s[i] OBVIOUS
  <1>2. DOMAIN s = 1 .. Len(s) /\ Len(s) \in Nat OBVIOUS
  <1> HIDE DEF t
  <1>3. DOMAIN t = DOMAIN s \cup {Len(s) + 1} BY <1>1, <1>2
  <1>4. In(t) = In(s) \cup {c}
    <2>1. \A x \in In(t) : x \in In(s) \cup {c} BY <1>1, <1>2, <1>3, Zenon DEF In
    <2>2. \A x \in In(s) : x \in In(t) BY <1>1, <1>2, <1>3, Zenon DEF In
    <2>3. c \in In(t) BY <1>1, <1>3, Zenon DEF In
    <2> QED BY <2>1, <2>2, <2>3, Zenon
  <1>5. ASSUME Ascending(s), Below(In(s), {c}) PROVE Ascending(t)
    <2> SUFFICES ASSUME NEW i \in DOMAIN t, NEW j \in DOMAIN t, i < j PROVE t[i] < t[j]
      BY Zenon DEF Ascending
    <2>1. i \in 1 .. Len(s) BY <1>1, <1>2
    <2>2. CASE j \in 1 .. Len(s) BY <1>1, <1>2, <1>5, <2>1, <2>2, Zenon DEF Ascending
    <2>3. CASE j = Len(s) + 1 BY <1>1, <1>2, <1>5, <2>1, <2>3, Zenon DEF Below, In
    <2> QED BY <1>1, <1>2, <2>2, <2>3
  <1> QED BY <1>4, <1>5, Zenon DEF t

\* The first line taken.
LEMMA InTail ==
    ASSUME NEW s \in Seq(Cmd), s # <<>>
    PROVE  /\ Tail(s) \in Seq(Cmd) /\ Head(s) \in In(s) /\ In(Tail(s)) \subseteq In(s)
           /\ Ascending(s) => Ascending(Tail(s)) /\ Below({Head(s)}, In(Tail(s)))
  <1> DEFINE t == Tail(s)
  <1>1. /\ t \in Seq(Cmd) /\ Head(s) = s[1] /\ Len(s) \in Nat \ {0} /\ DOMAIN s = 1 .. Len(s)
        /\ DOMAIN t = 1 .. Len(s) - 1 /\ \A i \in 1 .. Len(s) - 1 : t[i] = s[i + 1]
       OBVIOUS
  <1> HIDE DEF t
  <1>2. 1 \in DOMAIN s /\ \A i \in DOMAIN t : i + 1 \in DOMAIN s /\ 1 < i + 1 BY <1>1
  <1>3. Head(s) \in In(s) BY <1>1, <1>2, Zenon DEF In
  <1>4. In(t) \subseteq In(s) BY <1>1, <1>2, Zenon DEF In
  <1>5. ASSUME Ascending(s) PROVE Ascending(t) /\ Below({Head(s)}, In(t))
    <2>1. \A i, j \in DOMAIN t : i < j => i + 1 < j + 1 BY <1>1
    <2>2. Ascending(t) BY <1>1, <1>2, <1>5, <2>1, Zenon DEF Ascending
    <2>3. Below({Head(s)}, In(t)) BY <1>1, <1>2, <1>5, Zenon DEF Below, In, Ascending
    <2> QED BY <2>2, <2>3, Zenon
  <1> QED BY <1>1, <1>3, <1>4, <1>5, Zenon DEF t

\* A sequence is its first line and the others.
LEMMA InSplit ==
    ASSUME NEW s \in Seq(Cmd), NEW n \in 1 .. Len(s), Ascending(s)
    PROVE  LET p == SubSeq(s, 1, n)
               q == SubSeq(s, n + 1, Len(s))
           IN  /\ In(p) \subseteq In(s) /\ In(q) \subseteq In(s) /\ Below(In(p), In(q))
               /\ Ascending(p) /\ Ascending(q)
  <1> DEFINE p == SubSeq(s, 1, n)
             q == SubSeq(s, n + 1, Len(s))
             m == Len(s) - n
  <1>1. /\ DOMAIN s = 1 .. Len(s) /\ n \in Nat /\ m \in Nat
        /\ DOMAIN p = 1 .. n /\ \A i \in 1 .. n : p[i] = s[i]
       OBVIOUS
  <1>2. DOMAIN q = 1 .. m /\ \A i \in 1 .. m : q[i] = s[i + n] OBVIOUS
  <1>3. /\ \A i \in 1 .. n : i \in DOMAIN s
        /\ \A i \in 1 .. m : i + n \in DOMAIN s
        /\ \A i \in 1 .. n, j \in 1 .. m : i < j + n
        /\ \A i, j \in 1 .. m : i < j => i + n < j + n
       BY <1>1
  <1> HIDE DEF p, q, m
  <1>4. In(p) \subseteq In(s) /\ In(q) \subseteq In(s) BY <1>1, <1>2, <1>3, Zenon DEF In
  <1>5. Below(In(p), In(q)) BY <1>1, <1>2, <1>3, ZenonT(60) DEF In, Below, Ascending
  <1>6. Ascending(p)
    <2>1. \A i, j \in 1 .. n : i < j => s[i] < s[j] BY <1>3, Zenon DEF Ascending
    <2>2. \A i, j \in 1 .. n : i < j => p[i] < p[j] BY <1>1, <2>1, Zenon
    <2>3. DOMAIN p = 1 .. n BY <1>1, Zenon
    <2> QED BY <2>2, <2>3, Zenon DEF Ascending
  <1>7. Ascending(q) BY <1>2, <1>3, Zenon DEF Ascending
  <1> QED BY <1>4, <1>5, <1>6, <1>7, Zenon DEF p, q
-----------------------------------------------------------------------------
(* The final lines of the modem, by where they are: still to come, held by  *)
(* a reader, due to the call that waits, or the answer of a call.           *)

Finished == {"success", "timeout", "sendonly", "error"}
Served(c) == out[c].st = "success"
Answers == {out[c].by : c \in {d \in Cmd : Served(d)}}
Waits == th["uloop"].op = "send" /\ th["uloop"].pc \in {"write", "wait"}
Due == IF Waits /\ ~MyPort("uloop").waiting THEN {MyPort("uloop").by} ELSE {}
Held(r) == In(reader[r].lines)
Coming == In(line) \cup In(running)
Unwritten == th["uloop"].op \in Sending /\ th["uloop"].pc # "wait"

Sorted ==
    /\ Ascending(line) /\ Ascending(running) /\ \A r \in Open : Ascending(reader[r].lines)
    /\ \A r \in Open : reader[r].lines # <<>> => Runs(r)
OrderInv ==
    /\ Below(In(line), In(running)) /\ Below(Answers \cup Due, Coming)
    /\ \A r \in Open : Below(Held(r), Coming)
    /\ Coming \cup Answers \cup Due \subseteq 1 .. sent /\ \A r \in Open : Held(r) \subseteq 1 .. sent
    /\ Unwritten => sent \notin Coming \cup Answers \cup Due /\ \A r \in Open : sent \notin Held(r)
    /\ Due \cap Answers = {} /\ \A r \in Open : Held(r) \cap (Answers \cup Due) = {}
    /\ \A r, q \in Open : r # q => Held(r) \cap Held(q) = {}
    /\ slipped = {} => Below(Answers, Due) /\ \A r \in Open : Below(Answers \cup Due, Held(r))

\* A step that only drops lines.
Drops ==
    /\ sent' = sent /\ (Unwritten' => Unwritten)
    /\ In(line)' \subseteq In(line) /\ In(running)' \subseteq In(running)
    /\ Answers' \subseteq Answers /\ Due' \subseteq Due
    /\ \A r \in Open : Held(r)' \subseteq Held(r)
    /\ slipped' = {} => slipped = {} \/ (Due' = {} /\ \A r \in Open : Held(r)' = {})
LEMMA DropsKeep == ASSUME OrderInv, Drops PROVE OrderInv'
  <1>0. Coming' \subseteq Coming /\ (Answers \cup Due)' \subseteq Answers \cup Due
       BY Zenon DEF Drops, Coming
  <1>1. Below(In(line), In(running))' /\ Below(Answers \cup Due, Coming)'
       BY <1>0, Zenon DEF OrderInv, Drops, Below
  <1>2. (\A r \in Open : Below(Held(r), Coming))' BY <1>0, Zenon DEF OrderInv, Drops, Below
  <1>3. (Coming \cup Answers \cup Due \subseteq 1 .. sent /\ \A r \in Open : Held(r) \subseteq 1 .. sent)'
       BY <1>0, Zenon DEF OrderInv, Drops
  <1>4. (Unwritten => sent \notin Coming \cup Answers \cup Due /\ \A r \in Open : sent \notin Held(r))'
       BY <1>0, Zenon DEF OrderInv, Drops
  <1>5. (Due \cap Answers = {} /\ \A r \in Open : Held(r) \cap (Answers \cup Due) = {})'
       BY Zenon DEF OrderInv, Drops
  <1>6. (\A r, q \in Open : r # q => Held(r) \cap Held(q) = {})' BY Zenon DEF OrderInv, Drops
  <1>7. (slipped = {} => Below(Answers, Due) /\ \A r \in Open : Below(Answers \cup Due, Held(r)))'
       BY <1>0, Zenon DEF OrderInv, Drops, Below
  <1> QED BY <1>1, <1>2, <1>3, <1>4, <1>5, <1>6, <1>7, Zenon DEF OrderInv

\* The callers' answers.
OutInv ==
    /\ \A c \in Cmd : (c < sent => out[c].st \in Finished) /\ (c > sent => out[c].st = "new")
    /\ sent \in Cmd => IF th["uloop"].op \in Sending THEN out[sent].st = "busy"
                       ELSE out[sent].st \in Finished
    /\ \A c \in Cmd : Served(c) => out[c].by \in 1 .. c
    /\ \A c, d \in Cmd : Served(c) /\ Served(d) /\ c # d => out[c].by # out[d].by
\* A call that sends a command does not destroy the port.
SendOf ==
    /\ th["uloop"].pc = "idle" => th["uloop"].then = "idle"
    /\ th["uloop"].op \in Sending =>
          /\ th["uloop"].pc \notin {"destroy", "djoin", "unlink"}
          /\ th["uloop"].then \notin {"destroy", "unlink", "destroyed"}
    /\ th["uloop"].pc = "wait" => th["uloop"].op = "send"
LineInv == Sorted /\ OrderInv /\ OutInv /\ SendOf

\* A resting uloop thread sends nothing.
LEMMA RestingSends == ASSUME th'["uloop"] = Resting PROVE SendOf' /\ th'["uloop"].op = "none"
  BY DEF Resting, SendOf, Sending

\* What the uloop thread is sending, through every step.
LEMMA SendOfStep == ASSUME AtdTyped, SendOf, [Next]_vars PROVE SendOf'
  <1>0. "uloop" \in Thread /\ "monitor" \in Thread /\ "uloop" # "monitor" BY Zenon DEF Thread
  <1>1. CASE th'["uloop"] = th["uloop"] BY <1>1, Zenon DEF SendOf
  <1>2. ASSUME PortStep("uloop") PROVE SendOf'
    <2>0. th["uloop"].then \notin {"djoin", "wait"} BY <1>0, Zenon DEF AtdTyped, CallInv, CallOf, Goals
    <2>1. OpenBegin("uloop") => SendOf' BY <1>0, OpenBeginMoves, Zenon DEF AtdTyped, SendOf,
                                           Fate, GoesTo,
                                           Sending
    <2>2. CASE \/ OpenFails("uloop") \/ OpenFd("uloop") \/ OpenMark("uloop") \/ OpenSpawn("uloop")
               \/ SpawnFails("uloop")
      BY <1>0, <2>2, OpenMoves DEF AtdTyped, SendOf, Fate, GoesTo, Sending
    <2>3. CASE CloseBegin("uloop")
      <3>1. /\ th'["uloop"].op = th["uloop"].op /\ th'["uloop"].pc # "idle"
            /\ \/ th'["uloop"].pc = "join" /\ th'["uloop"].then = th["uloop"].then
               \/ th'["uloop"].pc = th["uloop"].then /\ th'["uloop"].then = "idle"
        BY <1>0, <2>3, CloseBeginMoves, Zenon DEF Fate, GoesTo
      <3> QED BY <2>0, <3>1, Zenon DEF SendOf
    <2>4. CASE CloseJoin("uloop")
      <3>1. th'["uloop"].pc \in {"closefd", "joining"} /\ th'["uloop"].then = th["uloop"].then
            /\ th'["uloop"].op = th["uloop"].op
        BY <1>0, <2>4, CloseMoves, Zenon DEF Fate
      <3> QED BY <3>1, Zenon DEF SendOf, Sending
    <2>5. CASE Joined("uloop") \/ CloseFd("uloop")
      <3>1. /\ th'["uloop"].op = th["uloop"].op /\ th'["uloop"].pc # "idle"
            /\ \/ th'["uloop"].pc = "closefd" /\ th'["uloop"].then = th["uloop"].then
               \/ th["uloop"].then = "destroyed" /\ th'["uloop"].pc = "close"
               \/ th'["uloop"].pc = th["uloop"].then /\ th'["uloop"].then = "idle"
        BY <1>0, <2>5, CloseMoves, Zenon DEF Fate
      <3> QED BY <2>0, <3>1, Zenon DEF SendOf
    <2> QED BY <1>2, <2>1, <2>2, <2>3, <2>4, <2>5, Zenon DEF PortStep
  <1>3. ASSUME PortStep("monitor") PROVE th'["uloop"] = th["uloop"]
    <2>0. ThreadsTyped /\ KernelTyped BY Zenon DEF AtdTyped
    <2>1. OpenBegin("monitor") => Others("monitor") BY <1>0, <2>0, OpenBeginMoves, Zenon DEF Fate, GoesTo
    <2>2. (\/ OpenFails("monitor") \/ OpenFd("monitor") \/ OpenMark("monitor") \/ OpenSpawn("monitor")
           \/ SpawnFails("monitor")) => Others("monitor")
         BY <1>0, <2>0, OpenMoves, Zenon DEF Fate, GoesTo
    <2>3. CloseBegin("monitor") => Others("monitor") BY <1>0, CloseBeginMoves, Zenon DEF Fate, GoesTo
    <2>4. CloseJoin("monitor") \/ Joined("monitor") \/ CloseFd("monitor") => Others("monitor")
         BY <1>0, CloseMoves, Zenon DEF Fate
    <2>5. Others("monitor") BY <1>3, <2>1, <2>2, <2>3, <2>4, Zenon DEF PortStep
    <2> QED BY <1>0, <2>5, Zenon DEF Others
  <1>4. CASE UloopCall
    <2>1. CASE DestroyBegin \/ DestroyJoin
      <3>1. th["uloop"].pc \in {"destroy", "djoin"} BY <2>1, Zenon DEF DestroyBegin, DestroyJoin, At
      <3>2. th'["uloop"].op = th["uloop"].op /\ th'["uloop"].pc \notin {"idle", "wait"}
        BY <2>1, DestroyMoves, Zenon DEF Fate, GoesTo
      <3> QED BY <3>1, <3>2, Zenon DEF SendOf
    <2>2. CASE UbusOpenReturns
      BY <2>2, CallMoves, RestingSends DEF AtdTyped, SendOf, Fate, GoesTo, Sending, Rests
    <2>3. CASE SendAuto \/ SendOpened \/ SendBegin
      <3>1. th'["uloop"].then = th["uloop"].then /\ th'["uloop"].op = th["uloop"].op
            /\ th'["uloop"].pc \in {"opened", "open", "send", "write"}
        BY <2>3, CallMoves, Zenon DEF AtdTyped, Fate, GoesTo
      <3> QED BY <3>1, Zenon DEF SendOf
    <2>4. CASE SendWrites
      <3>1. CASE th["uloop"].op = "send"
        <4>1. Go("uloop", "wait") BY <2>4, <3>1, Zenon DEF SendWrites
        <4> QED BY <1>0, <3>1, <4>1, GoGoes DEF AtdTyped, SendOf, Fate, GoesTo, Steps
      <3>2. CASE th["uloop"].op # "send"
        <4>1. Go("uloop", "idle") BY <2>4, <3>2, Zenon DEF SendWrites, Reply
        <4> QED BY <1>0, <4>1, GoRests, RestingSends, Zenon DEF AtdTyped, Rests
      <3> QED BY <3>1, <3>2, Zenon
    <2>5. CASE Unlink \/ SendOpenFails \/ WriteFails \/ SendAnswered \/ SendTimesOut
      BY <2>5, CallMoves, DestroyMoves, RestingSends, Zenon DEF AtdTyped, Rests
    <2> QED BY <1>4, <2>1, <2>2, <2>3, <2>4, <2>5, Zenon DEF UloopCall
  <1>5. CASE UloopStarts
    <2>1. th["uloop"].then = "idle"
         BY <1>5, Zenon DEF UloopStarts, UbusOpen, UbusSendat, UbusClose, At, SendOf
    <2>2. "open" \in Steps /\ "auto" \in Steps BY Zenon DEF Steps
    <2>3. CASE UbusOpen
      BY <2>1, <2>2, <2>3, WithInstanceMoves, SMTT(60) DEF AtdTyped, UbusOpen, Takes, SendOf
    <2>4. CASE UbusSendat("send")
      BY <2>1, <2>2, <2>4, WithInstanceMoves, SMTT(60) DEF AtdTyped, UbusSendat, Takes, SendOf
    <2>5. CASE UbusSendat("sendonly")
      BY <2>1, <2>2, <2>5, WithInstanceMoves DEF AtdTyped, UbusSendat, Takes, SendOf
    <2>6. CASE UbusClose BY <2>6, UbusCloseMoves, Zenon DEF AtdTyped, Takes, SendOf, Sending
    <2> QED BY <1>5, <2>3, <2>4, <2>5, <2>6, Zenon DEF UloopStarts
  <1>6. CASE MonitorCheck \/ MonitorDone
    <2>1. th'["uloop"] = th["uloop"]
      BY <1>0, <1>6, MonitorMoves, CallMoves, Zenon DEF AtdTyped, Takes, Rests, Others
    <2> QED BY <1>1, <2>1, Zenon
  <1>7. CASE \/ UNCHANGED vars \/ IntervalPasses \/ (\E r \in Open : Reader(r))
             \/ ModemAnswers \/ Unplug \/ Plug
    <2>1. th' = th
      BY <1>7, Zenon DEF vars, IntervalPasses, Reader, ReaderStops, ReaderReads, ReaderLine,
         ReaderFails, ModemAnswers, Unplug, Plug
    <2> QED BY <1>1, <2>1, Zenon
  <1>8. CASE Crash
    <2>1. th' = [t \in Thread |-> Resting] BY <1>8, Zenon DEF Crash, InitDaemon
    <2> QED BY <1>0, <2>1, RestingSends, Zenon
  <1> QED BY <1>0, <1>1, <1>2, <1>3, <1>4, <1>5, <1>6, <1>7, <1>8, StepCases, Zenon DEF Thread

\* What a call leaves to its caller.
LEMMA OutKept ==
    ASSUME OutInv, sent' = sent, out' = out,
           th'["uloop"].op \in Sending <=> th["uloop"].op \in Sending
    PROVE  OutInv' /\ Answers' = Answers
  BY Zenon DEF OutInv, Served, Answers
LEMMA OutReplied ==
    ASSUME CallsTyped, OutInv, th["uloop"].op \in Sending, sent \in Cmd, sent' = sent,
           th'["uloop"].op = "none", NEW s \in Finished, NEW b,
           s = "success" => b \in 1 .. sent \ Answers,
           out' = [out EXCEPT ![sent] = [st |-> s, by |-> b]]
    PROVE  /\ OutInv' /\ Answers' = Answers \cup (IF s = "success" THEN {b} ELSE {})
           /\ ~Served(sent)
  <1>0. out'[sent].st = s /\ out'[sent].by = b /\ \A c \in Cmd \ {sent} : out'[c] = out[c]
       BY Zenon DEF CallsTyped
  <1>1. out[sent].st = "busy" BY Zenon DEF OutInv
  <1>2. ~Served(sent) BY <1>1, Zenon DEF Served
  <1>3. \A c \in Cmd : Served(c)' <=> (Served(c) \/ (c = sent /\ s = "success"))
       BY <1>0, <1>2, Zenon DEF Served
  <1>4. \A c \in Cmd : Served(c) => out'[c].by = out[c].by /\ out[c].by \in Answers
       BY <1>0, <1>2, Zenon DEF Served, Answers
  <1>5. Answers' = Answers \cup (IF s = "success" THEN {b} ELSE {})
    <2>1. \A x \in Answers' : x \in Answers \/ (s = "success" /\ x = b)
         BY <1>0, <1>3, <1>4, ZenonT(60) DEF Answers
    <2>2. \A x \in Answers : x \in Answers' BY <1>3, <1>4, Zenon DEF Answers
    <2>3. s = "success" => b \in Answers' BY <1>0, <1>3, Zenon DEF Answers
    <2> QED BY <2>1, <2>2, <2>3, Zenon
  <1>6. (\A c \in Cmd : (c < sent => out[c].st \in Finished) /\ (c > sent => out[c].st = "new"))'
    <2>1. \A c \in Cmd : (c < sent => c # sent) /\ (c > sent => c # sent) BY DEF CallsTyped, Cmd
    <2> QED BY <1>0, <2>1, Zenon DEF OutInv
  <1>7. ~(th'["uloop"].op \in Sending) BY Zenon DEF Sending
  <1>8. (\A c \in Cmd : Served(c) => out[c].by \in 1 .. c)' BY <1>0, <1>3, <1>4, ZenonT(60) DEF OutInv
  <1>9. (\A c, d \in Cmd : Served(c) /\ Served(d) /\ c # d => out[c].by # out[d].by)'
    <2> SUFFICES ASSUME NEW c \in Cmd, NEW d \in Cmd, Served(c)', Served(d)', c # d
                 PROVE  out'[c].by # out'[d].by
      BY Zenon
    <2>1. CASE Served(c) /\ Served(d) BY <1>4, <2>1, Zenon DEF OutInv
    <2>2. s = "success" => b \notin Answers BY Zenon
    <2>3. ASSUME NEW e \in Cmd, Served(e)', e # sent PROVE out'[e].by \in Answers
         BY <1>3, <1>4, <2>3, Zenon
    <2>4. CASE c = sent /\ s = "success" BY <1>0, <2>2, <2>3, <2>4, Zenon
    <2>5. CASE d = sent /\ s = "success" BY <1>0, <2>2, <2>3, <2>5, Zenon
    <2> QED BY <1>3, <2>1, <2>4, <2>5, Zenon
  <1> QED BY <1>0, <1>2, <1>5, <1>6, <1>7, <1>8, <1>9, ZenonT(60) DEF OutInv
LEMMA OutBusy ==
    ASSUME CallsTyped, OutInv, ~(th["uloop"].op \in Sending), th'["uloop"].op \in Sending,
           sent < MaxCmd, sent' = sent + 1, out' = [out EXCEPT ![sent'].st = "busy"]
    PROVE  OutInv' /\ Answers' = Answers
  <1>0. sent' \in Cmd /\ sent \in Nat BY AtDaemonAssumption DEF CallsTyped, Cmd
  <1>1. out'[sent'].st = "busy" /\ \A c \in Cmd \ {sent'} : out'[c] = out[c] BY <1>0, Zenon DEF CallsTyped
  <1>2. out[sent'].st = "new" BY <1>0 DEF OutInv
  <1>3. \A c \in Cmd : Served(c)' <=> Served(c) BY <1>1, <1>2, Zenon DEF Served
  <1>4. \A c \in Cmd : Served(c) => out'[c].by = out[c].by BY <1>1, <1>2, Zenon DEF Served
  <1>5. Answers' = Answers BY <1>3, <1>4, Zenon DEF Answers
  <1>6. (\A c \in Cmd : (c < sent => out[c].st \in Finished) /\ (c > sent => out[c].st = "new"))'
    <2>1. \A c \in Cmd : /\ c < sent' => c # sent' /\ (c < sent \/ (c = sent /\ sent \in Cmd))
                         /\ c > sent' => c # sent' /\ c > sent
         BY <1>0 DEF Cmd
    <2> QED BY <1>1, <2>1, ZenonT(60) DEF OutInv
  <1>7. (\A c \in Cmd : Served(c) => out[c].by \in 1 .. c)' BY <1>3, <1>4, Zenon DEF OutInv
  <1>8. (\A c, d \in Cmd : Served(c) /\ Served(d) /\ c # d => out[c].by # out[d].by)'
       BY <1>3, <1>4, Zenon DEF OutInv
  <1> QED BY <1>1, <1>5, <1>6, <1>7, <1>8, Zenon DEF OutInv
LEMMA OutCut ==
    ASSUME CallsTyped, OutInv, th'["uloop"].op = "none", sent' = sent,
           out' = [c \in Cmd |-> IF out[c].st = "busy" THEN [st |-> "error", by |-> 0] ELSE out[c]]
    PROVE  OutInv' /\ Answers' = Answers
  <1>1. \A c \in Cmd : \/ out[c].st = "busy" /\ out'[c].st = "error"
                       \/ out[c].st # "busy" /\ out'[c] = out[c]
       BY Zenon
  <1>2. \A c \in Cmd : Served(c)' <=> Served(c) BY <1>1, Zenon DEF Served
  <1>3. \A c \in Cmd : Served(c) => out'[c].by = out[c].by BY <1>1, Zenon DEF Served
  <1>4. Answers' = Answers BY <1>2, <1>3, Zenon DEF Answers
  <1>5. (\A c \in Cmd : (c < sent => out[c].st \in Finished) /\ (c > sent => out[c].st = "new"))'
       BY <1>1, Zenon DEF OutInv, Finished
  <1>6. sent \in Cmd => out'[sent].st \in Finished BY <1>1, Zenon DEF OutInv, Finished
  <1>7. (\A c \in Cmd : Served(c) => out[c].by \in 1 .. c)' BY <1>2, <1>3, Zenon DEF OutInv
  <1>8. (\A c, d \in Cmd : Served(c) /\ Served(d) /\ c # d => out[c].by # out[d].by)'
    <2> SUFFICES ASSUME NEW c \in Cmd, NEW d \in Cmd, Served(c)', Served(d)', c # d
                 PROVE  out'[c].by # out'[d].by
      BY Zenon
    <2>1. Served(c) /\ Served(d) BY <1>2, Zenon
    <2> QED BY <1>3, <2>1, ZenonT(60) DEF OutInv
  <1>9. ~(th'["uloop"].op \in Sending) BY Zenon DEF Sending
  <1> QED BY <1>4, <1>5, <1>6, <1>7, <1>8, <1>9, Zenon DEF OutInv

\* Steps that move no line, though they may lose some.
Still ==
    /\ line' \in {line, <<>>} /\ running' \in {running, <<>>}
    /\ \A r \in Open : \/ reader'[r].lines = reader[r].lines /\ reader'[r].state = reader[r].state
                       \/ reader'[r].lines = <<>>
LEMMA StillKeeps ==
    ASSUME Sorted, Still
    PROVE  /\ Sorted' /\ In(line)' \subseteq In(line) /\ In(running)' \subseteq In(running)
           /\ \A r \in Open : Held(r)' \subseteq Held(r)
  <1>1. /\ Ascending(line)' /\ In(line)' \subseteq In(line)
        /\ Ascending(running)' /\ In(running)' \subseteq In(running)
       BY InEmpty, Zenon DEF Sorted, Still
  <1>2. ASSUME NEW r \in Open
        PROVE  /\ Ascending(reader[r].lines)' /\ Held(r)' \subseteq Held(r)
               /\ (reader[r].lines # <<>> => Runs(r))'
    <2>1. CASE reader'[r].lines = <<>> BY <2>1, InEmpty, Zenon DEF Held
    <2>2. CASE reader'[r].lines = reader[r].lines /\ reader'[r].state = reader[r].state
      BY <2>2, Zenon DEF Sorted, Held, Runs
    <2> QED BY <2>1, <2>2, Zenon DEF Still
  <1> QED BY <1>1, <1>2, Zenon DEF Sorted

\* The call of the uloop waits on, or it does not.
LEMMA NothingDue == ~Waits => Due = {}
  BY Zenon DEF Due
LEMMA NothingDueNext == ~Waits' => Due' = {}
  BY Zenon DEF Due
LEMMA DueSame ==
    ASSUME th'["uloop"] = th["uloop"],
           Waits => /\ port'[th["uloop"].inst].waiting = port[th["uloop"].inst].waiting
                    /\ port'[th["uloop"].inst].by = port[th["uloop"].inst].by
    PROVE  Due' = Due /\ (Unwritten' => Unwritten)
  <1>1. Waits' = Waits BY Zenon DEF Waits
  <1>2. Unwritten' => Unwritten BY Zenon DEF Unwritten
  <1>3. CASE ~Waits BY <1>1, <1>2, <1>3, NothingDue, NothingDueNext, Zenon
  <1>4. CASE Waits BY <1>1, <1>2, <1>4, Zenon DEF Due, MyPort
  <1> QED BY <1>3, <1>4, Zenon

Keeps ==
    /\ th'["uloop"].op \in Sending <=> th["uloop"].op \in Sending
    /\ Unwritten' => Unwritten
    /\ Due' \subseteq Due
LEMMA PortStepKeeps == ASSUME AtdTyped, NEW t \in Thread, PortStep(t) PROVE Keeps
  <1>0. /\ ThreadsTyped /\ KernelTyped /\ "uloop" \in Thread /\ "monitor" \in Thread
        /\ th["uloop"].inst \in Inst /\ th["monitor"].inst \in Inst /\ port \in [Inst -> PortRecord]
       BY Zenon DEF AtdTyped, Thread, ThreadsTyped, ThreadRecord, PortsTyped
  <1>1. CASE t = "uloop"
    <2>1. th["uloop"].pc \notin {"write", "wait"}
      BY <1>1, Zenon DEF PortStep, At, OpenBegin, OpenFails, OpenFd, OpenMark, OpenSpawn, SpawnFails,
         CloseBegin, CloseJoin, Joined, CloseFd
    <2>2. th["uloop"].then \notin {"write", "wait"} BY <1>0, Zenon DEF AtdTyped, CallInv, CallOf, Goals
    <2>3. th'["uloop"].op = th["uloop"].op /\ th'["uloop"].pc \notin {"write", "wait"}
      <3>1. CASE OpenBegin(t) BY <1>0, <1>1, <3>1, OpenBeginMoves DEF Fate, GoesTo
      <3>2. CASE OpenFails(t) \/ OpenFd(t) \/ OpenMark(t) \/ OpenSpawn(t) \/ SpawnFails(t)
        BY <1>0, <1>1, <3>2, OpenMoves DEF Fate, GoesTo
      <3>3. CASE CloseBegin(t) BY <1>0, <1>1, <2>2, <3>3, CloseBeginMoves DEF Fate, GoesTo
      <3>4. CASE CloseJoin(t) BY <1>0, <1>1, <3>4, CloseMoves DEF Fate
      <3>5. CASE Joined(t) BY <1>0, <1>1, <3>5, CloseMoves DEF Fate
      <3>6. CASE CloseFd(t) BY <1>0, <1>1, <2>2, <3>6, CloseMoves DEF Fate
      <3> QED BY <3>1, <3>2, <3>3, <3>4, <3>5, <3>6, Zenon DEF PortStep
    <2> QED BY <2>1, <2>3, NothingDueNext, Zenon DEF Keeps, Unwritten, Waits
  <1>2. CASE t = "monitor"
    <2>1. th'["uloop"] = th["uloop"]
      <3>1. CASE OpenBegin(t) BY <1>0, <1>2, <3>1, OpenBeginMoves, SMTT(60) DEF Fate, GoesTo, Others
      <3>2. CASE OpenFails(t) \/ OpenFd(t) \/ OpenMark(t) \/ OpenSpawn(t) \/ SpawnFails(t)
        BY <1>0, <1>2, <3>2, OpenMoves DEF Fate, GoesTo, Others
      <3>3. CASE CloseBegin(t) BY <1>0, <1>2, <3>3, CloseBeginMoves DEF Fate, GoesTo, Others
      <3>4. CASE CloseJoin(t) \/ Joined(t) \/ CloseFd(t) BY <1>0, <1>2, <3>4, CloseMoves DEF Fate, Others
      <3> QED BY <1>2, <3>1, <3>2, <3>3, <3>4, Zenon DEF PortStep
    <2>2. \A i \in Inst : port'[i].waiting = port[i].waiting /\ port'[i].by = port[i].by
      <3>0. th[t].inst \in Inst BY <1>0, <1>2, Zenon
      <3>1. CASE OpenBegin(t) \/ CloseJoin(t) BY <3>1, Zenon DEF OpenBegin, CloseJoin
      <3>2. CASE OpenFails(t) \/ OpenFd(t) \/ OpenMark(t)
        BY <1>0, <3>0, <3>2 DEF OpenFails, OpenFd, OpenMark, PortRecord
      <3>3. CASE OpenSpawn(t) \/ SpawnFails(t)
        BY <1>0, <3>0, <3>3, SMTT(60) DEF OpenSpawn, SpawnFails, PortRecord
      <3>4. CASE CloseBegin(t) \/ Joined(t) \/ CloseFd(t)
        BY <1>0, <3>0, <3>4 DEF CloseBegin, Joined, CloseFd, PortRecord
      <3> QED BY <3>1, <3>2, <3>3, <3>4, Zenon DEF PortStep
    <2> QED BY <1>0, <2>1, <2>2, DueSame, Zenon DEF Keeps
  <1> QED BY <1>1, <1>2, Zenon DEF Thread

\* Steps of a call that write nothing and take no answer.
LEMMA CallKeeps ==
    ASSUME AtdTyped, SendOf,
           \/ DestroyBegin \/ DestroyJoin \/ Unlink \/ UbusOpenReturns \/ SendAuto \/ SendOpened
           \/ SendBegin \/ UbusOpen \/ UbusClose
    PROVE  Keeps
  <1>0. /\ ThreadsTyped /\ KernelTyped /\ "uloop" \in Thread /\ th["uloop"].inst \in Inst
        /\ port \in [Inst -> PortRecord] /\ "open" \in Steps
       BY Zenon DEF AtdTyped, Thread, ThreadsTyped, ThreadRecord, PortsTyped, Steps
  <1>1. ASSUME th'["uloop"].op \in Sending <=> th["uloop"].op \in Sending,
               ~Waits', th["uloop"].pc # "wait" PROVE Keeps
    BY <1>1, NothingDueNext, Zenon DEF Keeps, Unwritten
  <1>2. CASE DestroyBegin \/ DestroyJoin \/ Unlink
    <2>1. th["uloop"].pc \in {"destroy", "djoin", "unlink"}
         BY <1>2, Zenon DEF DestroyBegin, DestroyJoin, Unlink, At
    <2>2. th["uloop"].op \notin Sending BY <2>1, Zenon DEF SendOf
    <2>3. th'["uloop"].op \notin Sending
         BY <1>2, <2>2, DestroyMoves, RestingSends DEF Fate, GoesTo, Rests, Sending
    <2> QED BY <1>1, <2>1, <2>2, <2>3, Zenon DEF Waits, Sending
  <1>3. CASE UbusOpenReturns
    <2>1. th["uloop"].op \notin Sending /\ th["uloop"].pc # "wait"
         BY <1>3, ZenonT(60) DEF UbusOpenReturns, Sending, At
    <2>2. th'["uloop"].op \notin Sending
         BY <1>0, <1>3, <2>1, CallMoves, RestingSends, SMTT(60) DEF Fate, GoesTo, Rests, Sending
    <2> QED BY <1>1, <2>1, <2>2, Zenon DEF Waits, Sending
  <1>4. CASE SendAuto
    <2>1. th'["uloop"].op = th["uloop"].op /\ th'["uloop"].pc \in {"opened", "open"}
         BY <1>0, <1>4, CallMoves DEF Fate, GoesTo
    <2> QED BY <1>1, <1>4, <2>1, SMTT(60) DEF Waits, SendAuto, At
  <1>5. CASE SendOpened
    <2>1. /\ th'["uloop"].op = th["uloop"].op /\ th["uloop"].pc = "opened"
          /\ th'["uloop"].pc = "send" \/ th["uloop"].op = "sendonly"
      <3>1. CASE Go("uloop", "send")
        BY <1>0, <1>5, <3>1, GoGoes DEF Fate, GoesTo, SendOpened, At, Steps
      <3>2. CASE th["uloop"].op = "sendonly" /\ Go("uloop", "write")
        BY <1>0, <1>5, <3>2, GoGoes DEF Fate, GoesTo, SendOpened, At, Steps
      <3> QED BY <1>5, <3>1, <3>2, ZenonT(60) DEF SendOpened
    <2> QED BY <1>1, <2>1 DEF Waits
  <1>6. CASE SendBegin
    <2>1. th'["uloop"].op = th["uloop"].op /\ th'["uloop"].inst = th["uloop"].inst
         BY <1>0, <1>6, CallMoves, Zenon DEF Fate, GoesTo
    <2>2. port'[th["uloop"].inst].waiting BY <1>0, <1>6 DEF SendBegin, PortRecord
    <2>3. Due' = {} BY <2>1, <2>2, Zenon DEF Due, MyPort
    <2>4. th["uloop"].pc = "send" BY <1>6, Zenon DEF SendBegin, At
    <2>5. th["uloop"].pc # "wait" BY <2>4, Zenon
    <2> QED BY <2>1, <2>3, <2>5, Zenon DEF Keeps, Unwritten
  <1>7. CASE UbusOpen \/ UbusClose
    <2>1. th["uloop"].pc = "idle" BY <1>7, Zenon DEF UbusOpen, UbusClose, At
    <2>2. th["uloop"].op \notin Sending BY <2>1, Zenon DEF AtdTyped, CallInv, CommandOf, Sending
    <2>3. th'["uloop"].op \in {"open", "new", "close"}
      <3>1. CASE UbusOpen BY <1>0, <3>1, WithInstanceMoves DEF UbusOpen, Takes
      <3>2. CASE UbusClose BY <1>0, <3>2, UbusCloseMoves, Zenon DEF Takes
      <3> QED BY <1>7, <3>1, <3>2, ZenonT(60)
    <2>4. th'["uloop"].op \notin Sending /\ ~Waits' BY <2>3, Zenon DEF Sending, Waits
    <2>5. th["uloop"].pc # "wait" BY <2>1, Zenon
    <2> QED BY <1>1, <2>2, <2>4, <2>5, Zenon
  <1> QED BY <1>2, <1>3, <1>4, <1>5, <1>6, <1>7, Zenon

\* The monitor, the cable, the modem and the readers leave the call alone.
LEMMA OthersKeep ==
    ASSUME AtdTyped,
           \/ UNCHANGED vars \/ IntervalPasses \/ MonitorCheck \/ MonitorDone \/ Plug \/ Unplug
           \/ ModemAnswers \/ \E r \in Open : ReaderStops(r) \/ ReaderReads(r) \/ ReaderFails(r)
    PROVE  Keeps /\ Due' = Due
  <1>0. /\ ThreadsTyped /\ "uloop" \in Thread /\ "monitor" \in Thread /\ "uloop" # "monitor"
        /\ th["uloop"].inst \in Inst /\ port \in [Inst -> PortRecord]
        /\ \A r \in Open : reader[r].inst \in Inst
       BY Zenon DEF AtdTyped, Thread, ThreadsTyped, ThreadRecord, PortsTyped, ReadersTyped,
          ReaderRecord
  <1>1. th'["uloop"] = th["uloop"]
    <2>1. CASE MonitorCheck \/ MonitorDone
      BY <1>0, <2>1, MonitorMoves, CallMoves, Zenon DEF Takes, Rests, Others
    <2>2. CASE ~(MonitorCheck \/ MonitorDone)
      BY <2>2, Zenon DEF vars, IntervalPasses, Plug, Unplug, ModemAnswers, ReaderStops, ReaderReads,
         ReaderFails
    <2> QED BY <2>1, <2>2, Zenon
  <1>2. \A i \in Inst : port'[i].waiting = port[i].waiting /\ port'[i].by = port[i].by
    <2>1. \/ port' = port
          \/ \E i \in Inst, b \in BOOLEAN : port' = [port EXCEPT ![i].due = b]
          \/ \E r \in Open : port' = [port EXCEPT ![reader[r].inst].is_open = FALSE]
      BY Zenon DEF vars, IntervalPasses, MonitorCheck, MonitorDone, Plug, Unplug, ModemAnswers,
         ReaderStops, ReaderReads, ReaderFails, Listed
    <2>2. ASSUME NEW i \in Inst, NEW b \in BOOLEAN, port' = [port EXCEPT ![i].due = b],
                 NEW j \in Inst
          PROVE  port'[j].waiting = port[j].waiting /\ port'[j].by = port[j].by
      BY <1>0, <2>2 DEF PortRecord
    <2>3. ASSUME NEW r \in Open, port' = [port EXCEPT ![reader[r].inst].is_open = FALSE],
                 NEW j \in Inst
          PROVE  port'[j].waiting = port[j].waiting /\ port'[j].by = port[j].by
      BY <1>0, <2>3 DEF PortRecord
    <2> QED BY <2>1, <2>2, <2>3, Zenon
  <1> QED BY <1>0, <1>1, <1>2, DueSame, Zenon DEF Keeps

Quiet ==
    Still /\ Keeps /\ sent' = sent /\ out' = out /\ (slipped' = {} => slipped = {})
LEMMA QuietKeeps ==
    ASSUME Sorted, OrderInv, OutInv, Quiet PROVE Sorted' /\ OrderInv' /\ OutInv'
  <1>1. OutInv' /\ Answers' = Answers BY OutKept, Zenon DEF Quiet, Keeps
  <1>2. Drops BY <1>1, StillKeeps, Zenon DEF Quiet, Keeps, Drops
  <1> QED BY <1>1, <1>2, StillKeeps, DropsKeep, Zenon DEF Quiet

\* Where no line moves, none changes its place.
LEMMA StillReaders == ASSUME reader' = reader, line' = line, running' = running PROVE Still
  BY Zenon DEF Still
LEMMA QuietSteps ==
    ASSUME AtdTyped, SendOf,
           \/ \E t \in Thread : PortStep(t)
           \/ DestroyBegin \/ DestroyJoin \/ Unlink \/ UbusOpenReturns \/ SendAuto \/ SendOpened
           \/ SendBegin \/ UbusOpen \/ UbusClose
           \/ UNCHANGED vars \/ IntervalPasses \/ MonitorCheck \/ MonitorDone \/ Plug \/ Unplug
           \/ \E r \in Open : ReaderStops(r) \/ ReaderFails(r)
    PROVE  Quiet
  <1>1. CASE \E t \in Thread : PortStep(t)
    <2>1. PICK t \in Thread : PortStep(t) BY <1>1, Zenon
    <2>2. sent' = sent /\ out' = out /\ slipped' = slipped /\ line' = line /\ running' = running
      BY <2>1, Zenon DEF PortStep, OpenBegin, OpenFails, OpenFd, OpenMark, OpenSpawn, SpawnFails,
         CloseBegin, CloseJoin, Joined, CloseFd, device, calls
    <2>3. CASE OpenSpawn(t)
      <3>1. reader' = [reader EXCEPT ![th[t].got] =
                         [state |-> "run", inst |-> th[t].inst, lines |-> <<>>]]
           BY <2>3, Zenon DEF OpenSpawn
      <3>2. \A r \in Open : reader'[r] = reader[r] \/ reader'[r].lines = <<>>
           BY <3>1, Zenon DEF AtdTyped, ReadersTyped
      <3> QED BY <2>1, <2>2, <3>2, PortStepKeeps, Zenon DEF Quiet, Still
    <2>4. CASE ~OpenSpawn(t)
      <3>1. reader' = reader
        BY <2>1, <2>4, Zenon DEF PortStep, OpenBegin, OpenFails, OpenFd, OpenMark, SpawnFails,
           CloseBegin, CloseJoin, Joined, CloseFd, kernel
      <3> QED BY <2>1, <2>2, <3>1, PortStepKeeps, StillReaders, Zenon DEF Quiet
    <2> QED BY <2>3, <2>4, Zenon
  <1>2. CASE \/ DestroyBegin \/ DestroyJoin \/ Unlink \/ UbusOpenReturns \/ SendAuto \/ SendOpened
             \/ SendBegin \/ UbusOpen \/ UbusClose
    <2>1. /\ sent' = sent /\ out' = out /\ line' = line /\ running' = running /\ reader' = reader
          /\ slipped' = slipped \/ NoteMeeting
      BY <1>2, Zenon DEF DestroyBegin, DestroyJoin, Unlink, UbusOpenReturns, SendAuto, SendOpened,
         SendBegin, UbusOpen, UbusClose, device, calls, kernel
    <2>2. slipped' = {} => slipped = {} BY <2>1, Zenon DEF NoteMeeting
    <2> QED BY <1>2, <2>1, <2>2, CallKeeps, StillReaders, ZenonT(60) DEF Quiet
  <1>3. CASE UNCHANGED vars \/ IntervalPasses \/ MonitorCheck \/ MonitorDone \/ Plug
    <2>1. /\ sent' = sent /\ out' = out /\ line' = line /\ running' = running /\ reader' = reader
          /\ slipped' = slipped \/ NoteMeeting
      BY <1>3, Zenon DEF vars, IntervalPasses, MonitorCheck, MonitorDone, Plug, device, calls, kernel
    <2>2. slipped' = {} => slipped = {} BY <2>1, Zenon DEF NoteMeeting
    <2> QED BY <1>3, <2>1, <2>2, OthersKeep, StillReaders, Zenon DEF Quiet
  <1>4. CASE Unplug
    <2>1. /\ sent' = sent /\ out' = out /\ line' = <<>> /\ running' = <<>> /\ reader' = reader
          /\ slipped' = slipped
      BY <1>4, Zenon DEF Unplug, calls
    <2> QED BY <1>4, <2>1, OthersKeep, Zenon DEF Quiet, Still
  <1>5. CASE \E r \in Open : ReaderStops(r) \/ ReaderFails(r)
    <2>1. PICK r \in Open : ReaderStops(r) \/ ReaderFails(r) BY <1>5, Zenon
    <2>2. /\ sent' = sent /\ out' = out /\ line' = line /\ running' = running
          /\ slipped' = {} => slipped = {}
          /\ reader' = [reader EXCEPT ![r].state = "done"] /\ reader[r].lines = <<>>
      BY <2>1, Zenon DEF ReaderStops, ReaderFails, device, calls
    <2>3. \A q \in Open : reader'[q] = reader[q] \/ reader'[q].lines = <<>>
      BY <2>2, Zenon DEF AtdTyped, ReadersTyped, ReaderRecord
    <2> QED BY <1>5, <2>2, <2>3, OthersKeep, Zenon DEF Quiet, Still
  <1> QED BY <1>1, <1>2, <1>3, <1>4, <1>5, Zenon

\* A call is given up, or cut off by the end of the process.
LEMMA GivenUpLines ==
    ASSUME AtdTyped, Sorted, OrderInv, OutInv, SendOpenFails \/ WriteFails \/ SendTimesOut
    PROVE  Sorted' /\ OrderInv' /\ OutInv'
  <1>0. CallsTyped /\ ThreadsTyped BY Zenon DEF AtdTyped
  <1>1. th["uloop"].op \in Sending /\ sent \in Cmd
    BY Zenon DEF SendOpenFails, WriteFails, SendTimesOut, At, AtdTyped, CallInv, CommandOf, Sending
  <1>2. /\ sent' = sent /\ slipped' = slipped /\ reader' = reader /\ line' = line /\ running' = running
    BY Zenon DEF SendOpenFails, WriteFails, SendTimesOut, device, kernel
  <1>3. th'["uloop"].op = "none" BY <1>0, CallMoves, RestingSends, Zenon DEF Rests
  <1>4. PICK s \in {"timeout", "error"} : out' = [out EXCEPT ![sent] = [st |-> s, by |-> None]]
    BY Zenon DEF SendOpenFails, WriteFails, SendTimesOut, Reply, Failure
  <1>5. s \in Finished /\ s # "success" BY Zenon DEF Finished
  <1>6. OutInv' /\ Answers' = Answers BY <1>0, <1>1, <1>2, <1>3, <1>4, <1>5, OutReplied, Zenon
  <1>7. ~Waits' /\ ~Unwritten' BY <1>3, Zenon DEF Waits, Unwritten, Sending
  <1>8. Still BY <1>2, StillReaders, Zenon
  <1>9. Drops BY <1>2, <1>6, <1>7, <1>8, NothingDueNext, StillKeeps, Zenon DEF Drops
  <1> QED BY <1>6, <1>8, <1>9, StillKeeps, DropsKeep, Zenon
LEMMA CrashLines ==
    ASSUME AtdTyped, Sorted, OrderInv, OutInv, Crash PROVE Sorted' /\ OrderInv' /\ OutInv'
  <1>0. CallsTyped /\ "uloop" \in Thread BY Zenon DEF AtdTyped, Thread
  <1>1. /\ sent' = sent /\ line' = line /\ running' = running /\ th' = [t \in Thread |-> Resting]
        /\ reader' = [r \in Open |-> [state |-> "none", inst |-> 1, lines |-> <<>>]]
        /\ out' = [c \in Cmd |-> IF out[c].st = "busy" THEN [st |-> "error", by |-> 0] ELSE out[c]]
    BY Zenon DEF Crash, InitDaemon, device, None
  <1>2. th'["uloop"].op = "none" BY <1>0, <1>1, RestingSends, Zenon
  <1>3. OutInv' /\ Answers' = Answers BY <1>0, <1>1, <1>2, OutCut, Zenon
  <1>4. \A r \in Open : reader'[r].lines = <<>> BY <1>1, Zenon
  <1>5. Still BY <1>1, <1>4, Zenon DEF Still
  <1>6. \A r \in Open : Held(r)' = {} BY <1>4, InEmpty, Zenon DEF Held
  <1>7. ~Waits' /\ ~Unwritten' BY <1>2, Zenon DEF Waits, Unwritten, Sending
  <1>8. Drops BY <1>1, <1>3, <1>5, <1>6, <1>7, NothingDueNext, StillKeeps, ZenonT(60) DEF Drops
  <1> QED BY <1>3, <1>5, <1>8, StillKeeps, DropsKeep, Zenon

\* The line that was due is the answer of the call.
LEMMA AnsweredLines ==
    ASSUME AtdTyped, Sorted, OrderInv, OutInv, SendOf, SendAnswered
    PROVE  /\ Sorted' /\ OrderInv' /\ OutInv' /\ sent \in Cmd /\ ~Served(sent)
           /\ Due = {MyPort("uloop").by} /\ MyPort("uloop").by \in 1 .. sent
           /\ out' = [out EXCEPT ![sent] = [st |-> "success", by |-> MyPort("uloop").by]]
  <1> DEFINE b == MyPort("uloop").by
  <1>0. CallsTyped /\ ThreadsTyped BY Zenon DEF AtdTyped
  <1>1. /\ th["uloop"].pc = "wait" /\ ~MyPort("uloop").waiting /\ sent' = sent /\ slipped' = slipped
        /\ reader' = reader /\ line' = line /\ running' = running
        /\ out' = [out EXCEPT ![sent] = [st |-> "success", by |-> b]]
    BY Zenon DEF SendAnswered, device, kernel, Reply, At
  <1>2. th["uloop"].op \in Sending /\ sent \in Cmd
    BY <1>1, Zenon DEF AtdTyped, CallInv, CommandOf
  <1>3. th'["uloop"].op = "none" BY <1>0, CallMoves, RestingSends, Zenon DEF Rests
  <1>4. Due = {b}
    <2>1. th["uloop"].op = "send" BY <1>1, <1>2, Zenon DEF SendOf
    <2> QED BY <1>1, <2>1, Zenon DEF Due, Waits
  <1>5. b \in 1 .. sent \ Answers BY <1>4, Zenon DEF OrderInv
  <1>6. "success" \in Finished BY Zenon DEF Finished
  <1> HIDE DEF b
  <1>7. OutInv' /\ Answers' = Answers \cup Due /\ ~Served(sent)
    BY <1>0, <1>1, <1>2, <1>3, <1>4, <1>5, <1>6, OutReplied, ZenonT(60)
  <1>8. ~Waits' /\ ~Unwritten' BY <1>3, Zenon DEF Waits, Unwritten, Sending
  <1>9. Due' = {} BY <1>8, NothingDueNext, Zenon
  <1>10. Still BY <1>1, StillReaders, Zenon
  <1>11. Coming' = Coming /\ (\A r \in Open : Held(r)' = Held(r)) /\ (Answers \cup Due)' = Answers \cup Due
    BY <1>1, <1>7, <1>9, Zenon DEF Coming, Held
  <1>12. (Coming \cup Answers \cup Due)' = Coming \cup Answers \cup Due BY <1>11, Zenon
  <1>13. Below(Answers, Due)' BY <1>9, Zenon DEF Below
  <1>14. OrderInv'
    <2>1. Below(In(line), In(running))' BY <1>1, Zenon DEF OrderInv
    <2> QED BY <1>1, <1>8, <1>9, <1>11, <1>12, <1>13, <2>1, ZenonT(60) DEF OrderInv
  <1> QED BY <1>1, <1>2, <1>4, <1>5, <1>7, <1>10, <1>14, StillKeeps, ZenonT(60) DEF b

\* A new command has no line yet ...
LEMMA SendatLines ==
    ASSUME AtdTyped, Sorted, OrderInv, OutInv, UbusSendat("send") \/ UbusSendat("sendonly")
    PROVE  Sorted' /\ OrderInv' /\ OutInv'
  <1>0. CallsTyped /\ ThreadsTyped /\ "auto" \in Steps BY Zenon DEF AtdTyped, Steps
  <1>1. /\ th["uloop"].pc = "idle" /\ sent < MaxCmd /\ sent' = sent + 1 /\ slipped' = slipped
        /\ reader' = reader /\ line' = line /\ running' = running
        /\ out' = [out EXCEPT ![sent'].st = "busy"]
    BY Zenon DEF UbusSendat, device, kernel, At
  <1>2. th["uloop"].op = "none" BY <1>1, Zenon DEF AtdTyped, CallInv, CommandOf
  <1>3. th'["uloop"].op \in Sending /\ th'["uloop"].pc = "auto"
    <2>1. CASE UbusSendat("send")
         BY <1>0, <2>1, WithInstanceMoves, SMTT(60) DEF UbusSendat, Takes, Sending
    <2>2. CASE UbusSendat("sendonly")
         BY <1>0, <2>2, WithInstanceMoves, SMTT(60) DEF UbusSendat, Takes, Sending
    <2> QED BY <2>1, <2>2, Zenon
  <1>4. OutInv' /\ Answers' = Answers
    <2>1. ~(th["uloop"].op \in Sending) BY <1>2, Zenon DEF Sending
    <2> QED BY <1>0, <1>1, <1>3, <2>1, OutBusy, Zenon
  <1>5. ~Waits /\ ~Waits' BY <1>2, <1>3 DEF Waits
  <1>6. Due = {} /\ Due' = {} BY <1>5, NothingDue, NothingDueNext, Zenon
  <1>7. Still BY <1>1, StillReaders, Zenon
  <1>8. Coming' = Coming /\ (\A r \in Open : Held(r)' = Held(r)) /\ (Answers \cup Due)' = Answers \cup Due
    BY <1>1, <1>4, <1>6, Zenon DEF Coming, Held
  <1>9. (Coming \cup Answers \cup Due)' = Coming \cup Answers \cup Due BY <1>8, Zenon
  <1>10. 1 .. sent \subseteq 1 .. sent' /\ sent' \notin 1 .. sent BY <1>0, <1>1 DEF CallsTyped
  <1>11. OrderInv'
    <2>1. Below(In(line), In(running))' BY <1>1, Zenon DEF OrderInv
    <2>2. (Unwritten => sent \notin Coming \cup Answers \cup Due /\ \A r \in Open : sent \notin Held(r))'
      BY <1>8, <1>9, <1>10, Zenon DEF OrderInv
    <2>3. (Coming \cup Answers \cup Due \subseteq 1 .. sent /\ \A r \in Open : Held(r) \subseteq 1 .. sent)'
      BY <1>8, <1>9, <1>10, Zenon DEF OrderInv
    <2> QED BY <1>1, <1>4, <1>6, <1>8, <2>1, <2>2, <2>3, ZenonT(60) DEF OrderInv
  <1> QED BY <1>4, <1>7, <1>11, StillKeeps, Zenon

\* ... until it is written, when it is the last of those to come ...
LEMMA WrittenLines ==
    ASSUME AtdTyped, Sorted, OrderInv, OutInv, SendWrites
    PROVE  Sorted' /\ OrderInv' /\ OutInv'
  <1>0. CallsTyped /\ ThreadsTyped /\ "uloop" \in Thread /\ "wait" \in Steps \ {"idle"}
       BY Zenon DEF AtdTyped, Steps, Thread
  <1>1. /\ th["uloop"].pc = "write" /\ running' = Append(running, sent) /\ line' = line
        /\ reader' = reader /\ port' = port /\ sent' = sent /\ slipped' = slipped
    BY Zenon DEF SendWrites, kernel, At
  <1>2. th["uloop"].op \in Sending /\ sent \in Cmd BY <1>1, Zenon DEF AtdTyped, CallInv, CommandOf
  <1>3. Unwritten BY <1>1, <1>2 DEF Unwritten
  <1>4. ~Unwritten' /\ OutInv' /\ Answers' = Answers /\ Due' = Due
    <2>1. CASE th["uloop"].op = "send"
      <3>1. Go("uloop", "wait") /\ out' = out BY <2>1, Zenon DEF SendWrites
      <3>2. GoesTo("uloop", "wait") BY <1>0, <3>1, GoGoes, Zenon
      <3>3. /\ th'["uloop"].pc = "wait" /\ th'["uloop"].op = th["uloop"].op
            /\ th'["uloop"].inst = th["uloop"].inst
           BY <3>2, Zenon DEF GoesTo, Fate
      <3>4. OutInv' /\ Answers' = Answers BY <1>1, <3>1, <3>3, OutKept, Zenon
      <3>5. Waits /\ Waits' BY <1>1, <2>1, <3>3, Zenon DEF Waits
      <3>6. Due' = Due BY <1>1, <3>3, <3>5, Zenon DEF Due, MyPort
      <3> QED BY <3>3, <3>4, <3>6, Zenon DEF Unwritten
    <2>2. CASE th["uloop"].op # "send"
      <3>1. /\ out' = [out EXCEPT ![sent] = [st |-> "sendonly", by |-> None]]
            /\ Go("uloop", "idle")
           BY <2>2, Zenon DEF SendWrites, Reply
      <3>2. th'["uloop"].op = "none" BY <1>0, <3>1, GoRests, RestingSends, Zenon DEF Rests
      <3>3. "sendonly" \in Finished /\ "sendonly" # "success" BY Zenon DEF Finished
      <3>4. OutInv' /\ Answers' = Answers
        BY <1>0, <1>1, <1>2, <3>1, <3>2, <3>3, OutReplied, Zenon
      <3>5. ~Waits /\ ~Waits' /\ ~Unwritten' BY <2>2, <3>2, Zenon DEF Waits, Unwritten, Sending
      <3> QED BY <3>4, <3>5, NothingDue, NothingDueNext, Zenon
    <2> QED BY <2>1, <2>2, Zenon
  <1>5. In(running)' = In(running) \cup {sent} BY <1>0, <1>1, <1>2, InAppend, Zenon DEF CallsTyped
  <1>6. Coming' = Coming \cup {sent} /\ \A r \in Open : Held(r)' = Held(r)
    BY <1>1, <1>5, Zenon DEF Coming, Held
  <1>7. \A x \in 1 .. sent : x # sent => x < sent BY <1>0 DEF CallsTyped
  <1>8. Below(Coming, {sent}) /\ Below(Answers \cup Due, {sent}) /\ \A r \in Open : Below(Held(r), {sent})
    BY <1>3, <1>7, Zenon DEF OrderInv, Below
  <1>9. Sorted'
    <2>1. Below(In(running), {sent}) BY <1>8, Zenon DEF Below, Coming
    <2>2. Ascending(running)' BY <1>0, <1>1, <1>2, <2>1, InAppend, Zenon DEF CallsTyped, Sorted
    <2> QED BY <1>1, <2>2, Zenon DEF Sorted, Runs
  <1>10. OrderInv'
    <2>0. sent \in 1 .. sent BY <1>2 DEF Cmd
    <2>1. Below(In(line), In(running))' BY <1>1, <1>5, <1>8, ZenonT(60) DEF OrderInv, Below, Coming
    <2>2. Below(Answers \cup Due, Coming)' /\ \A r \in Open : Below(Held(r), Coming)'
      <3>1. Below(Answers \cup Due, Coming)' BY <1>4, <1>6, <1>8, ZenonT(60) DEF OrderInv, Below
      <3>2. ASSUME NEW r \in Open PROVE Below(Held(r), Coming)'
        <4>1. Below(Held(r), Coming) /\ Below(Held(r), {sent}) BY <1>8, Zenon DEF OrderInv
        <4>2. Held(r)' = Held(r) /\ Coming' = Coming \cup {sent} BY <1>6, Zenon
        <4> QED BY <4>1, <4>2, Zenon DEF Below
      <3> QED BY <3>1, <3>2, Zenon
    <2>3. (Coming \cup Answers \cup Due \subseteq 1 .. sent /\ \A r \in Open : Held(r) \subseteq 1 .. sent)'
      BY <1>1, <1>4, <1>6, <2>0, Zenon DEF OrderInv
    <2>4. (Due \cap Answers = {} /\ \A r \in Open : Held(r) \cap (Answers \cup Due) = {})'
      BY <1>4, <1>6, Zenon DEF OrderInv
    <2>5. (\A r, q \in Open : r # q => Held(r) \cap Held(q) = {})' BY <1>6, Zenon DEF OrderInv
    <2>6. (slipped = {} => Below(Answers, Due) /\ \A r \in Open : Below(Answers \cup Due, Held(r)))'
      BY <1>1, <1>4, <1>6, Zenon DEF OrderInv
    <2> QED BY <1>4, <2>1, <2>2, <2>3, <2>4, <2>5, <2>6, Zenon DEF OrderInv
  <1> QED BY <1>4, <1>9, <1>10, Zenon

\* ... and passes to the line when the modem has run it.
LEMMA ModemLines ==
    ASSUME AtdTyped, Sorted, OrderInv, OutInv, ModemAnswers
    PROVE  Sorted' /\ OrderInv' /\ OutInv'
  <1> DEFINE h == Head(running)
  <1>0. running \in Seq(Cmd) /\ line \in Seq(Cmd) BY Zenon DEF AtdTyped, CallsTyped, ReadersTyped
  <1>1. /\ running # <<>> /\ line' = Append(line, h) /\ running' = Tail(running)
        /\ reader' = reader /\ th' = th /\ sent' = sent /\ out' = out /\ slipped' = slipped
    BY Zenon DEF ModemAnswers, kernel, calls
  <1>2. Keeps /\ Due' = Due BY OthersKeep, Zenon
  <1>3. OutInv' /\ Answers' = Answers BY <1>1, OutKept, Zenon
  <1>4. /\ h \in In(running) /\ h \in Cmd /\ In(running)' \subseteq In(running)
        /\ Ascending(running)' /\ Below({h}, In(running)')
    <2>1. In(running) \subseteq Cmd BY <1>0, InSeq, Zenon
    <2> QED BY <1>0, <1>1, <2>1, InTail, Zenon DEF Sorted
  <1> HIDE DEF h
  <1>5. Below(In(line), {h}) BY <1>4, Zenon DEF OrderInv, Below
  <1>6. In(line)' = In(line) \cup {h} /\ Ascending(line)'
    BY <1>0, <1>1, <1>4, <1>5, InAppend, Zenon DEF Sorted
  <1>7. Sorted' BY <1>1, <1>4, <1>6, Zenon DEF Sorted, Runs
  <1>8. Coming' \subseteq Coming /\ \A r \in Open : Held(r)' = Held(r)
    BY <1>1, <1>4, <1>6, Zenon DEF Coming, Held
  <1>9. OrderInv'
    <2>1. Below(In(line), In(running))' BY <1>4, <1>6, Zenon DEF OrderInv, Below
    <2>2. Below(Answers \cup Due, Coming)' /\ \A r \in Open : Below(Held(r), Coming)'
      BY <1>2, <1>3, <1>8, Zenon DEF OrderInv, Below
    <2>3. (Coming \cup Answers \cup Due \subseteq 1 .. sent /\ \A r \in Open : Held(r) \subseteq 1 .. sent)'
      BY <1>1, <1>2, <1>3, <1>8, Zenon DEF OrderInv
    <2>4. (Unwritten => sent \notin Coming \cup Answers \cup Due /\ \A r \in Open : sent \notin Held(r))'
      BY <1>1, <1>2, <1>3, <1>8, Zenon DEF OrderInv, Keeps
    <2> QED BY <1>1, <1>2, <1>3, <1>8, <2>1, <2>2, <2>3, <2>4, Zenon DEF OrderInv
  <1> QED BY <1>3, <1>7, <1>9, Zenon

\* A read takes the first of the lines that have come.
LEMMA ReadLines ==
    ASSUME AtdTyped, Sorted, OrderInv, OutInv, NEW r \in Open, ReaderReads(r)
    PROVE  Sorted' /\ OrderInv' /\ OutInv'
  <1>0. line \in Seq(Cmd) /\ reader \in [Open -> ReaderRecord] BY Zenon DEF AtdTyped, ReadersTyped
  <1>1. /\ Runs(r) /\ reader[r].lines = <<>> /\ running' = running
        /\ th' = th /\ sent' = sent /\ out' = out /\ slipped' = slipped
    BY Zenon DEF ReaderReads, calls
  <1>2. PICK n \in 1 .. Len(line) : /\ reader' = [reader EXCEPT ![r].lines = SubSeq(line, 1, n)]
                                    /\ line' = SubSeq(line, n + 1, Len(line))
    BY Zenon DEF ReaderReads
  <1> DEFINE p == SubSeq(line, 1, n)
             q == SubSeq(line, n + 1, Len(line))
  <1>3. /\ In(p) \subseteq In(line) /\ In(q) \subseteq In(line) /\ Below(In(p), In(q))
        /\ Ascending(p) /\ Ascending(q)
    BY <1>0, InSplit, Zenon DEF Sorted
  <1>4. line' = q /\ reader' = [reader EXCEPT ![r].lines = p] BY <1>2, Zenon
  <1> HIDE DEF p, q
  <1>5. /\ reader'[r].lines = p /\ reader'[r].state = reader[r].state
        /\ \A s \in Open \ {r} : reader'[s] = reader[s]
    BY <1>0, <1>4, Zenon DEF ReaderRecord
  <1>6. Held(r)' = In(p) /\ \A s \in Open \ {r} : Held(s)' = Held(s) BY <1>5, Zenon DEF Held
  <1>7. Sorted' BY <1>1, <1>3, <1>4, <1>5, Zenon DEF Sorted, Runs
  <1>8. Keeps /\ Due' = Due BY OthersKeep, Zenon
  <1>9. OutInv' /\ Answers' = Answers BY <1>1, OutKept, Zenon
  <1>10. Coming' \subseteq Coming /\ In(line)' = In(q) /\ In(p) \subseteq Coming
    BY <1>1, <1>3, <1>4, Zenon DEF Coming
  <1>11. OrderInv'
    <2>1. Below(In(line), In(running))' BY <1>1, <1>3, <1>10, Zenon DEF OrderInv, Below
    <2>2. Below(Answers \cup Due, Coming)' BY <1>8, <1>9, <1>10, ZenonT(60) DEF OrderInv, Below
    <2>3. \A s \in Open : Below(Held(s), Coming)'
      <3>1. \A s \in Open \ {r} : Below(Held(s), Coming)' BY <1>6, <1>10, Zenon DEF OrderInv, Below
      <3>2. Below(In(p), In(running)) BY <1>3, Zenon DEF OrderInv, Below
      <3>3. Below(Held(r), Coming)' BY <1>1, <1>3, <1>6, <1>10, <3>2, Zenon DEF Below, Coming
      <3> QED BY <3>1, <3>3, Zenon
    <2>4. (Coming \cup Answers \cup Due \subseteq 1 .. sent)' BY <1>1, <1>8, <1>9, <1>10, Zenon DEF OrderInv
    <2>5. (\A s \in Open : Held(s) \subseteq 1 .. sent)' BY <1>1, <1>6, <1>10, Zenon DEF OrderInv
    <2>6. (Unwritten => sent \notin Coming \cup Answers \cup Due /\ \A s \in Open : sent \notin Held(s))'
      BY <1>1, <1>6, <1>8, <1>9, <1>10, Zenon DEF OrderInv, Keeps
    <2>7. Below(Answers \cup Due, In(p)) /\ \A s \in Open : Below(Held(s), In(p))
      BY <1>10, Zenon DEF OrderInv, Below
    <2>8. In(p) \subseteq 1 .. sent BY <1>10, Zenon DEF OrderInv
    <2>9. \A x \in 1 .. sent : ~(x < x) OBVIOUS
    <2>10. In(p) \cap (Answers \cup Due) = {} /\ \A s \in Open : Held(s) \cap In(p) = {}
      BY <2>7, <2>8, <2>9, Zenon DEF Below
    <2>11. (Due \cap Answers = {} /\ \A s \in Open : Held(s) \cap (Answers \cup Due) = {})'
      BY <1>6, <1>8, <1>9, <2>10, Zenon DEF OrderInv
    <2>12. (\A s, u \in Open : s # u => Held(s) \cap Held(u) = {})'
      <3> SUFFICES ASSUME NEW s \in Open, NEW u \in Open, s # u PROVE Held(s)' \cap Held(u)' = {}
        BY Zenon
      <3>1. CASE s = r BY <1>6, <2>10, <3>1, Zenon
      <3>2. CASE u = r BY <1>6, <2>10, <3>2, Zenon
      <3>3. CASE s # r /\ u # r BY <1>6, <3>3, Zenon DEF OrderInv
      <3> QED BY <3>1, <3>2, <3>3, Zenon
    <2>13. (slipped = {} => Below(Answers, Due) /\ \A s \in Open : Below(Answers \cup Due, Held(s)))'
      BY <1>1, <1>6, <1>8, <1>9, <2>7, Zenon DEF OrderInv
    <2> QED BY <2>1, <2>2, <2>3, <2>4, <2>5, <2>6, <2>11, <2>12, <2>13, ZenonT(60) DEF OrderInv
  <1> QED BY <1>7, <1>9, <1>11, Zenon

\* The first line a reader holds is due to the call that waits, or is lost.
LEMMA DueLines ==
    ASSUME AtdTyped, NEW r \in Open, ReaderLine(r)
    PROVE  /\ th'["uloop"] = th["uloop"] /\ (Unwritten' => Unwritten)
           /\ Due' = Due \/ (Due = {} /\ Due' = {Head(reader[r].lines)})
  <1> DEFINE i == reader[r].inst
             h == Head(reader[r].lines)
  <1>0. /\ th' = th /\ port \in [Inst -> PortRecord] /\ i \in Inst /\ th["uloop"].inst \in Inst
       BY Zenon DEF ReaderLine, AtdTyped, PortsTyped, ReadersTyped, ReaderRecord, ThreadsTyped,
          ThreadRecord, Thread
  <1>1. CASE ~Own(r).waiting
    <2>1. port' = port BY <1>1, Zenon DEF ReaderLine
    <2> QED BY <1>0, <2>1, DueSame, Zenon
  <1>2. CASE Own(r).waiting
    <2>1. port' = [port EXCEPT ![i].waiting = FALSE, ![i].by = h] BY <1>2, Zenon DEF ReaderLine
    <2>2. CASE ~Waits \/ i # th["uloop"].inst
      <3>1. i # th["uloop"].inst => port'[th["uloop"].inst] = port[th["uloop"].inst]
        BY <1>0, <2>1, Zenon
      <3> QED BY <1>0, <2>2, <3>1, DueSame, Zenon
    <2>3. CASE Waits /\ i = th["uloop"].inst
      <3>1. port'[i].waiting = FALSE /\ port'[i].by = h BY <1>0, <2>1 DEF PortRecord
      <3>2. Due = {} BY <1>2, <2>3, Zenon DEF Due, MyPort, Own
      <3>3. Due' = {h} BY <1>0, <2>3, <3>1, Zenon DEF Due, MyPort, Waits
      <3>4. Unwritten' => Unwritten BY <1>0, Zenon DEF Unwritten
      <3> QED BY <1>0, <3>2, <3>3, <3>4, ZenonT(60)
    <2> QED BY <2>2, <2>3, Zenon
  <1> QED BY <1>1, <1>2, Zenon

\* In an orderly life one reader at most has lines.
LEMMA OneReader ==
    ASSUME AtdTyped, OrderlyIsClean, slipped = {}, NEW r \in Open, NEW q \in Open, Runs(r), Runs(q)
    PROVE  r = q
  <1>1. /\ mem[reader[r].inst] = "listed" /\ port[reader[r].inst].thread = r
        /\ mem[reader[q].inst] = "listed" /\ port[reader[q].inst].thread = q
       BY Zenon DEF OrderlyIsClean, Own
  <1>2. reader[r].inst \in Inst /\ reader[q].inst \in Inst
       BY Zenon DEF AtdTyped, ReadersTyped, ReaderRecord
  <1>3. reader[r].inst = reader[q].inst BY <1>1, <1>2, Zenon DEF AtdTyped, ListInv, Listed
  <1> QED BY <1>1, <1>3, Zenon
LEMMA ProcessedLines ==
    ASSUME AtdTyped, OrderlyIsClean, Sorted, OrderInv, OutInv, NEW r \in Open, ReaderLine(r)
    PROVE  Sorted' /\ OrderInv' /\ OutInv'
  <1> DEFINE h == Head(reader[r].lines)
             l == Tail(reader[r].lines)
  <1>0. reader \in [Open -> ReaderRecord] /\ reader[r].lines \in Seq(Cmd)
       BY Zenon DEF AtdTyped, ReadersTyped, ReaderRecord
  <1>1. /\ Runs(r) /\ reader[r].lines # <<>> /\ running' = running /\ line' = line
        /\ sent' = sent /\ out' = out /\ slipped' = slipped
        /\ reader' = [reader EXCEPT ![r].lines = l]
    BY Zenon DEF ReaderLine, calls, device
  <1>2. /\ h \in Held(r) /\ In(l) \subseteq Held(r) /\ Ascending(l) /\ Below({h}, In(l))
    BY <1>0, <1>1, InTail, Zenon DEF Sorted, Held
  <1>3. /\ th'["uloop"] = th["uloop"] /\ (Unwritten' => Unwritten)
        /\ Due' = Due \/ (Due = {} /\ Due' = {h})
    BY DueLines, Zenon
  <1> HIDE DEF h, l
  <1>4. /\ reader'[r].lines = l /\ reader'[r].state = reader[r].state
        /\ \A s \in Open \ {r} : reader'[s] = reader[s]
    BY <1>0, <1>1, Zenon DEF ReaderRecord
  <1>5. Held(r)' = In(l) /\ \A s \in Open \ {r} : Held(s)' = Held(s) BY <1>4, Zenon DEF Held
  <1>6. Sorted' BY <1>1, <1>2, <1>4, Zenon DEF Sorted, Runs
  <1>7. OutInv' /\ Answers' = Answers BY <1>1, <1>3, OutKept, Zenon
  <1>8. Coming' = Coming BY <1>1, Zenon DEF Coming
  <1>9. \A s \in Open : Held(s)' \subseteq Held(s) BY <1>2, <1>5, Zenon
  <1>10. CASE Due' = Due
    <2>1. Drops BY <1>1, <1>3, <1>7, <1>9, <1>10, Zenon DEF Drops
    <2> QED BY <1>6, <1>7, <2>1, DropsKeep, Zenon
  <1>11. CASE Due = {} /\ Due' = {h}
    <2>1. Below(In(line), In(running))' /\ \A s \in Open : Below(Held(s), Coming)'
      BY <1>1, <1>8, <1>9, Zenon DEF OrderInv, Below
    <2>2. Below(Answers \cup Due, Coming)' BY <1>2, <1>7, <1>8, <1>11, Zenon DEF OrderInv, Below
    <2>3. (Coming \cup Answers \cup Due \subseteq 1 .. sent)'
      BY <1>1, <1>2, <1>7, <1>8, <1>11, Zenon DEF OrderInv
    <2>4. (\A s \in Open : Held(s) \subseteq 1 .. sent)' BY <1>1, <1>9, Zenon DEF OrderInv
    <2>5. (Unwritten => sent \notin Coming \cup Answers \cup Due /\ \A s \in Open : sent \notin Held(s))'
      BY <1>1, <1>2, <1>3, <1>7, <1>8, <1>9, <1>11, Zenon DEF OrderInv
    <2>6. h \notin Answers /\ \A s \in Open : Held(s) \cap Answers = {} BY <1>2, Zenon DEF OrderInv
    <2>7. \A s \in Open : h \notin Held(s)'
      <3>1. h \in 1 .. sent BY <1>2, Zenon DEF OrderInv
      <3>2. ~(h < h) BY <3>1
      <3>3. h \notin In(l) BY <1>2, <3>2, Zenon DEF Below
      <3>4. \A s \in Open \ {r} : h \notin Held(s) BY <1>2, Zenon DEF OrderInv
      <3> QED BY <1>5, <3>3, <3>4, Zenon
    <2>8. (Due \cap Answers = {} /\ \A s \in Open : Held(s) \cap (Answers \cup Due) = {})'
      BY <1>7, <1>9, <1>11, <2>6, <2>7, Zenon
    <2>9. (\A s, u \in Open : s # u => Held(s) \cap Held(u) = {})' BY <1>9, Zenon DEF OrderInv
    <2>10. ASSUME slipped' = {}
           PROVE  (Below(Answers, Due) /\ \A s \in Open : Below(Answers \cup Due, Held(s)))'
      <3>1. Below(Answers, {h}) /\ Below(Answers, In(l)) BY <1>1, <1>2, <2>10, Zenon DEF OrderInv, Below
      <3>2. \A s \in Open \ {r} : Held(s)' = {}
        <4>1. \A s \in Open \ {r} : ~Runs(s) BY <1>1, <2>10, OneReader, Zenon
        <4>2. \A s \in Open \ {r} : reader[s].lines = <<>> BY <4>1, Zenon DEF Sorted
        <4> QED BY <1>5, <4>2, InEmpty, Zenon DEF Held
      <3>3. Below(Answers \cup Due, Held(r))' BY <1>2, <1>5, <1>7, <1>11, <3>1, Zenon DEF Below
      <3>4. \A s \in Open \ {r} : Below(Answers \cup Due, Held(s))' BY <3>2, Zenon DEF Below
      <3> QED BY <1>7, <1>11, <3>1, <3>3, <3>4, Zenon
    <2>11. OrderInv' BY <2>1, <2>2, <2>3, <2>4, <2>5, <2>8, <2>9, <2>10, ZenonT(60) DEF OrderInv
    <2> QED BY <1>6, <1>7, <2>11, Zenon
  <1> QED BY <1>3, <1>10, <1>11, Zenon

\* No command was sent, no line is on its way.
LEMMA LineStarts == Init => LineInv
  <1> SUFFICES ASSUME Init PROVE LineInv BY Zenon
  <1>0. /\ line = <<>> /\ running = <<>> /\ sent = 0 /\ \A c \in Cmd : out[c].st = "new"
        /\ \A r \in Open : reader[r].lines = <<>>
        /\ th["uloop"] = Resting
       BY Zenon DEF Init, InitDaemon, Thread
  <1>1. In(line) = {} /\ In(running) = {} /\ \A r \in Open : Held(r) = {} BY <1>0, InEmpty, Zenon DEF Held
  <1>2. \A c \in Cmd : ~Served(c) BY <1>0, Zenon DEF Served
  <1>3. Answers = {} BY <1>2, Zenon DEF Answers
  <1>4. th["uloop"].op = "none" /\ th["uloop"].pc = "idle" /\ th["uloop"].then = "idle"
       BY <1>0 DEF Resting
  <1>5. ~Waits /\ ~Unwritten /\ SendOf BY <1>4, Zenon DEF Waits, Unwritten, SendOf, Sending
  <1>6. Due = {} BY <1>5, NothingDue, Zenon
  <1>7. Sorted BY <1>0, InEmpty, Zenon DEF Sorted
  <1>8. OrderInv BY <1>1, <1>3, <1>5, <1>6, Zenon DEF OrderInv, Coming, Below
  <1>9. sent \notin Cmd /\ \A c \in Cmd : ~(c < sent) BY <1>0 DEF Cmd
  <1>10. OutInv BY <1>0, <1>2, <1>9, Zenon DEF OutInv
  <1> QED BY <1>5, <1>7, <1>8, <1>10, Zenon DEF LineInv

\* Every step keeps the lines in order.
LEMMA LineStep == ASSUME AtdTyped, OrderlyIsClean, LineInv, [Next]_vars PROVE LineInv'
  <1>1. Sorted /\ OrderInv /\ OutInv /\ SendOf BY Zenon DEF LineInv
  <1>2. SendOf' BY <1>1, SendOfStep, Zenon
  <1> SUFFICES Sorted' /\ OrderInv' /\ OutInv' BY <1>2, Zenon DEF LineInv
  <1>3. Quiet => Sorted' /\ OrderInv' /\ OutInv' BY <1>1, QuietKeeps, Zenon
  <1>4. CASE UloopCall
    BY <1>1, <1>3, <1>4, QuietSteps, GivenUpLines, AnsweredLines, WrittenLines, Zenon DEF UloopCall
  <1>5. CASE UloopStarts BY <1>1, <1>3, <1>5, QuietSteps, SendatLines, Zenon DEF UloopStarts
  <1>6. ASSUME NEW r \in Open, Reader(r) PROVE Sorted' /\ OrderInv' /\ OutInv'
    BY <1>1, <1>3, <1>6, QuietSteps, ReadLines, ProcessedLines, Zenon DEF Reader
  <1>7. CASE ModemAnswers BY <1>1, <1>7, ModemLines, Zenon
  <1>8. CASE Crash BY <1>1, <1>8, CrashLines, Zenon
  <1>9. CASE \/ UNCHANGED vars \/ (\E t \in Thread : PortStep(t)) \/ IntervalPasses \/ MonitorCheck
             \/ MonitorDone \/ Unplug \/ Plug
    BY <1>1, <1>3, <1>9, QuietSteps, Zenon
  <1> QED BY <1>4, <1>5, <1>6, <1>7, <1>8, <1>9, StepCases, Zenon

-----------------------------------------------------------------------------
(* Which command a call takes its answer from: the counting argument on    *)
(* top of the order of the lines.                                          *)

\* The calls before c that were given up, and what the answer of c may be.
GivenUp(c) == {d \in 1 .. c - 1 : out[d].st \in {"timeout", "sendonly", "error"}}
Number(S) == Cardinality(S)
Answered(c) ==
    out[c].st # "success" /\ out'[c].st = "success" =>
      /\ out'[c].by \in 1 .. c
      /\ \A d \in Cmd \ {c} : out[d].st = "success" => out[d].by # out'[c].by
      /\ slipped = {} => c - out'[c].by <= Number(GivenUp(c))

\* The theorems on finite sets come as an instance, which has a Cardinality of
\* its own: both count the elements of a set in the same way.
Counted(S) ==
    LET CS[T \in SUBSET S] == IF T = {} THEN 0 ELSE 1 + CS[T \ {CHOOSE x : x \in T}]
    IN  CS[S]
LEMMA NumberCounts == \A S : Number(S) = Counted(S) BY Zenon DEF Number, Cardinality, Counted

LOCAL INSTANCE FiniteSetTheorems

LEMMA CardinalityCounts == \A S : Cardinality(S) = Number(S)
  <1>1. \A S : Cardinality(S) = Counted(S) BY Zenon DEF Cardinality, Counted
  <1> QED BY <1>1, NumberCounts, Zenon

\* Calls that were answered by lines before b leave the others given up.
LEMMA LagCounted ==
    ASSUME CallsTyped, OutInv, sent \in Cmd, NEW b \in 1 .. sent, ~Served(sent), Below(Answers, {b})
    PROVE  sent - b <= Number(GivenUp(sent))
  <1> DEFINE n == sent - 1
             F == {d \in 1 .. n : Served(d)}
             G == {d \in 1 .. n : out[d].st \in {"timeout", "sendonly", "error"}}
             by == [d \in F |-> out[d].by]
  <1>0. sent \in Nat \ {0} /\ n \in Nat /\ b \in Nat \ {0} /\ b <= sent /\ b - 1 \in Nat
       BY DEF CallsTyped, Cmd
  <1>1. \A d \in 1 .. n : d \in Cmd /\ d < sent
    <2>1. sent \in 1 .. MaxCmd /\ MaxCmd \in Nat BY AtDaemonAssumption, Zenon DEF Cmd
    <2> QED BY <2>1 DEF Cmd
  <1>2. F \cup G = 1 .. n /\ F \cap G = {}
    <2>1. \A d \in 1 .. n : out[d].st \in Finished BY <1>1, Zenon DEF OutInv
    <2>2. \A d \in 1 .. n : d \in F \/ d \in G BY <2>1, Zenon DEF Finished, Served
    <2>3. \A d \in 1 .. n : Served(d) => out[d].st \notin {"timeout", "sendonly", "error"}
         BY Zenon DEF Served
    <2> QED BY <2>2, <2>3, Zenon
  <1>3. /\ IsFiniteSet(1 .. n) /\ Cardinality(1 .. n) = n
        /\ IsFiniteSet(1 .. b - 1) /\ Cardinality(1 .. b - 1) = b - 1
    <2>1. IsFiniteSet(1 .. n) /\ Cardinality(1 .. n) = IF 1 > n THEN 0 ELSE n - 1 + 1
      BY <1>0, FS_Interval
    <2>2. IsFiniteSet(1 .. b - 1) /\ Cardinality(1 .. b - 1) = IF 1 > b - 1 THEN 0 ELSE b - 1 - 1 + 1
      BY <1>0, FS_Interval
    <2> QED BY <1>0, <2>1, <2>2
  <1>4. \A d \in F : out[d].by \in 1 .. b - 1
    <2> SUFFICES ASSUME NEW d \in F PROVE out[d].by \in 1 .. b - 1 BY Zenon
    <2>1. d \in Cmd /\ Served(d) BY <1>1, Zenon
    <2>2. out[d].by \in Answers /\ out[d].by \in 1 .. d BY <2>1, Zenon DEF Answers, OutInv
    <2>3. out[d].by < b BY <2>2, Zenon DEF Below
    <2> QED BY <1>0, <2>1, <2>2, <2>3 DEF Cmd
  <1>5. \A d, e \in F : d # e => by[d] # by[e] BY <1>1, Zenon DEF OutInv
  <1>6. by \in [F -> 1 .. b - 1] BY <1>4, Zenon
  <1>7. IsFiniteSet(F) /\ IsFiniteSet(G) BY <1>2, <1>3, FS_Subset, Zenon
  <1> HIDE DEF F, G, by, n
  <1>8. Cardinality(F) \in Nat /\ Cardinality(G) \in Nat BY <1>7, FS_CardinalityType, Zenon
  <1>9. Cardinality(F) <= b - 1
    <2>1. ~(Cardinality(1 .. b - 1) < Cardinality(F)) BY <1>3, <1>5, <1>6, <1>7, FS_PigeonHole, Zenon
    <2> QED BY <1>0, <1>3, <1>8, <2>1
  <1>10. n = Cardinality(F) + Cardinality(G)
    <2>1. Cardinality(F \cup G) = Cardinality(F) + Cardinality(G) - Cardinality(F \cap G)
      BY <1>7, FS_Union, Zenon
    <2>2. Cardinality(F \cap G) = 0 BY <1>2, FS_EmptySet, Zenon
    <2>3. Cardinality(F \cup G) = n BY <1>2, <1>3, Zenon
    <2> QED BY <1>8, <2>1, <2>2, <2>3
  <1>11. sent - b <= Cardinality(G) BY <1>0, <1>8, <1>9, <1>10 DEF n
  <1> QED BY <1>11, CardinalityCounts, Zenon DEF G, n, GivenUp

\* No caller is told success but on the final line of its own command or of
\* an earlier one, and on one no other call was answered with; in an orderly
\* life the answers lag by no more than the calls given up before
\* (send_at_command_with_response clears the response and not the line).
THEOREM AnswersLagByGivenUpHolds == Spec => AnswersLagByGivenUp
  <1>1. ASSUME AtdTyped, LineInv, [Next]_vars, NEW c \in Cmd PROVE Answered(c)
    <2> SUFFICES ASSUME out[c].st # "success", out'[c].st = "success" PROVE Answered(c)
      BY Zenon DEF Answered
    <2>0. CallsTyped /\ Sorted /\ OrderInv /\ OutInv /\ SendOf BY <1>1, Zenon DEF AtdTyped, LineInv
    <2>1. SendAnswered
      <3>1. \/ out' = out \/ SendAnswered
            \/ \E s \in {"timeout", "error", "sendonly"} : out' = [out EXCEPT ![sent] = [st |-> s, by |-> None]]
            \/ out' = [out EXCEPT ![sent'].st = "busy"]
            \/ out' = [d \in Cmd |-> IF out[d].st = "busy" THEN [st |-> "error", by |-> None] ELSE out[d]]
        <4>1. CASE \/ UNCHANGED vars \/ (\E t \in Thread : PortStep(t)) \/ DestroyBegin \/ DestroyJoin
                   \/ Unlink \/ UbusOpenReturns \/ SendAuto \/ SendOpened \/ SendBegin \/ UbusOpen
                   \/ UbusClose \/ IntervalPasses \/ MonitorCheck \/ MonitorDone \/ Unplug \/ Plug
                   \/ \E r \in Open : ReaderStops(r) \/ ReaderFails(r)
          BY <1>1, <2>0, <4>1, QuietSteps, Zenon DEF Quiet
        <4>2. CASE SendOpenFails \/ WriteFails \/ SendTimesOut \/ SendWrites
          BY <4>2, Zenon DEF SendOpenFails, WriteFails, SendTimesOut, SendWrites, Reply, Failure
        <4>3. CASE UbusSendat("send") \/ UbusSendat("sendonly") BY <4>3, Zenon DEF UbusSendat
        <4>4. CASE ModemAnswers \/ \E r \in Open : ReaderReads(r) \/ ReaderLine(r)
          BY <4>4, Zenon DEF ModemAnswers, ReaderReads, ReaderLine, calls
        <4>5. CASE Crash BY <4>5, Zenon DEF Crash
        <4> QED BY <1>1, <4>1, <4>2, <4>3, <4>4, <4>5, StepCases, Zenon DEF UloopCall, UloopStarts, Reader
      <3>2. ASSUME NEW s \in {"timeout", "error", "sendonly"},
                   out' = [out EXCEPT ![sent] = [st |-> s, by |-> None]] PROVE FALSE
        BY <2>0, <3>2, Zenon DEF CallsTyped
      <3>3. CASE out' = [out EXCEPT ![sent'].st = "busy"] BY <2>0, <3>3, Zenon DEF CallsTyped
      <3>4. CASE out' = [d \in Cmd |-> IF out[d].st = "busy" THEN [st |-> "error", by |-> None] ELSE out[d]]
        BY <3>4, Zenon
      <3> QED BY <3>1, <3>2, <3>3, <3>4, Zenon
    <2> DEFINE b == MyPort("uloop").by
    <2>2. /\ sent \in Cmd /\ ~Served(sent) /\ Due = {b} /\ b \in 1 .. sent
          /\ out' = [out EXCEPT ![sent] = [st |-> "success", by |-> b]]
      BY <1>1, <2>0, <2>1, AnsweredLines, Zenon
    <2> HIDE DEF b
    <2>3. c = sent /\ out'[c].by = b BY <2>0, <2>2, Zenon DEF CallsTyped
    <2>4. b \notin Answers BY <2>0, <2>2, Zenon DEF OrderInv
    <2>5. \A d \in Cmd \ {c} : out[d].st = "success" => out[d].by # b
      BY <2>4, Zenon DEF Answers, Served
    <2>6. ASSUME slipped = {}
          PROVE  c - b <= Number(GivenUp(c))
      <3>1. Below(Answers, {b}) BY <2>0, <2>2, <2>6, Zenon DEF OrderInv
      <3> QED BY <2>0, <2>2, <2>3, <3>1, LagCounted, Zenon
    <2> QED BY <2>2, <2>3, <2>5, <2>6, Zenon DEF Answered
  <1>2. ASSUME AtdTyped, LineInv, [Next]_vars PROVE [\A c \in Cmd : Answered(c)]_vars
    BY <1>1, <1>2, Zenon
  <1>3. LineInv /\ AtdTyped /\ OrderlyIsClean /\ [Next]_vars => LineInv' BY LineStep, Zenon
  <1>4. Spec => []LineInv BY <1>3, LineStarts, DaemonAlways, OrderlyIsCleanHolds, PTL DEF Spec
  <1>5. Spec => [][\A c \in Cmd : Answered(c)]_vars BY <1>2, <1>4, DaemonAlways, PTL DEF Spec
  <1> QED BY <1>5, Zenon DEF AnswersLagByGivenUp, Answered, GivenUp, Number
=============================================================================
