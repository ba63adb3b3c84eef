------------------------------- MODULE AtPort -------------------------------
(***************************************************************************)
(* The life of a port of ubus-at-daemon: the ubus thread opens, reopens,   *)
(* closes and destroys it, the monitor thread reopens or closes it every   *)
(* few seconds, a reader thread serves each opening of it, and at the end  *)
(* the ubus thread shuts the daemon down.  Only the list of ports is       *)
(* protected by a mutex; the fields of a port are shared without any.      *)
(*                                                                         *)
(* A call is the sequence of its steps that other threads can tell apart;  *)
(* todo[t] holds those that thread t has still to take.                    *)
(***************************************************************************)
EXTENDS Integers, Sequences

CONSTANTS
    MaxPorts,    \* port instances created (a bound)
    MaxOpens,    \* openings of the device (a bound)
    MaxUnplugs   \* disappearances of the device (a bound)

Ports   == 1..MaxPorts
Openings == 1..MaxOpens
Threads == {"ubus", "monitor"}

ASSUME PortAssumption ==
    MaxPorts \in Nat /\ MaxOpens \in Nat /\ MaxUnplugs \in Nat

VARIABLES
    watched,  \* start_port_monitor could create its thread; never changes
    listed,   \* the instance in g_daemon_ctx.ports, 0 when there is none
    made,     \* instances created so far
    freed,    \* instances that were freed
    port,     \* port[p]: is_open, should_stop, fd (0 for -1) and reader_thread
    mutex,    \* the owner of ports_mutex, "free" when there is none
    mode,     \* the daemon: "serving", "stopping", "cleaning", "ended", "crashed"
    todo,     \* the steps each thread has still to take in its call
    on,       \* the instance that call is about, 0 outside one
    mine,     \* the opening, or the thread to join, a thread has in hand
    fresh,    \* the open method has just created its instance
    checked,  \* since the ubus call began, the instance was created or checked
    reader,   \* where the reader thread of each opening is
    owner,    \* the instance it serves
    joined,   \* reader threads that were joined
    opens,    \* openings so far; opening n yields descriptor n and reader n
    fds,      \* descriptors that are open
    dead,     \* descriptors whose device has disappeared
    present,  \* the device file exists
    unplugs   \* disappearances so far

listVars   == <<listed, made, freed>>
callVars   == <<todo, on, mine, fresh, checked>>
readerVars == <<reader, owner, joined>>
deviceVars == <<opens, fds, dead>>
plugVars   == <<present, unplugs, watched>>
vars == <<listVars, port, mutex, mode, callVars, readerVars, deviceVars, plugVars>>

\* calloc, and fd = -1.
NoPort == [open |-> FALSE, stop |-> FALSE, fd |-> 0, thread |-> 0]

Init ==
    /\ listed = 0 /\ made = 0 /\ freed = {}
    /\ port = [p \in Ports |-> NoPort]
    /\ mutex = "free" /\ mode = "serving"
    /\ todo = [t \in Threads |-> <<>>]
    /\ on = [t \in Threads |-> 0] /\ mine = [t \in Threads |-> 0]
    /\ fresh = FALSE /\ checked = FALSE
    /\ reader = [n \in Openings |-> "none"]
    /\ owner = [n \in Openings |-> 0] /\ joined = {}
    /\ opens = 0 /\ fds = {} /\ dead = {}
    /\ present = TRUE /\ unplugs = 0 /\ watched \in BOOLEAN
-----------------------------------------------------------------------------
(* The calls, as the steps they take. *)

\* Mutants of Close: the reader is not joined; it is joined after its descriptor
\* was closed.
CloseUnjoined   == <<"stop", "shut">>
CloseThenJoin   == <<"stop", "shut", "join", "wait">>

\* close_at_port, which returns after "stop" when the port is not open.
Close == <<"stop", "join", "wait", "shut">>

\* open_at_port, which starts with a close_at_port.
Open == Close \o <<"open", "mark", "spawn">>

\* Mutant of Destroy: the instance is freed before it leaves the list.
FreeThenUnlist == <<"halt", "reap", "await">> \o Close \o <<"free", "unlist">>

\* destroy_port_instance.
Destroy == <<"halt", "reap", "await">> \o Close \o <<"unlist", "free">>

\* What is left of a call that closes a port which is not open.
AfterClose(steps) == SubSeq(steps, Len(Close) + 1, Len(steps))

Running == mode \notin {"ended", "crashed"}
Idle(t) == todo[t] = <<>> /\ on[t] = 0
At(t, step) == Running /\ todo[t] # <<>> /\ Head(todo[t]) = step
Goto(t, steps) == todo' = [todo EXCEPT ![t] = steps]
Step(t) == Goto(t, Tail(todo[t]))
-----------------------------------------------------------------------------
(* One action for each step, taken by thread t on the instance p = on[t]. *)

\* Mutant of Stop: should_stop is not set.
StopUnset(t) ==
    /\ At(t, "stop")
    /\ Goto(t, IF port[on[t]].open THEN Tail(todo[t]) ELSE AfterClose(todo[t]))
    /\ UNCHANGED <<listVars, port, mutex, mode, on, mine, fresh, checked,
                   readerVars, deviceVars, plugVars>>

Stop(t) ==
    /\ At(t, "stop")
    /\ LET p == on[t] IN
         IF port[p].open
         THEN port' = [port EXCEPT ![p].stop = TRUE] /\ Step(t)
         ELSE Goto(t, AfterClose(todo[t])) /\ UNCHANGED port
    /\ UNCHANGED <<listVars, mutex, mode, on, mine, fresh, checked, readerVars,
                   deviceVars, plugVars>>

\* destroy_port_instance sets should_stop without a look at is_open.
Halt(t) ==
    /\ At(t, "halt")
    /\ port' = [port EXCEPT ![on[t]].stop = TRUE]
    /\ Step(t)
    /\ UNCHANGED <<listVars, mutex, mode, on, mine, fresh, checked, readerVars,
                   deviceVars, plugVars>>

\* `if (port->reader_thread)`, and the thread that pthread_join is given.
Join(t) ==
    /\ At(t, "join") \/ At(t, "reap")
    /\ mine' = [mine EXCEPT ![t] = port[on[t]].thread]
    /\ Goto(t, IF port[on[t]].thread = 0 THEN Tail(Tail(todo[t])) ELSE Tail(todo[t]))
    /\ UNCHANGED <<listVars, port, mutex, mode, on, fresh, checked, readerVars,
                   deviceVars, plugVars>>

\* Mutant of Wait: the thread is detached, not joined.
NotWaited(t) ==
    /\ At(t, "wait") \/ At(t, "await")
    /\ port' = IF At(t, "wait") THEN [port EXCEPT ![on[t]].thread = 0] ELSE port
    /\ Step(t)
    /\ UNCHANGED <<listVars, mutex, mode, on, mine, fresh, checked, readerVars,
                   deviceVars, plugVars>>

\* pthread_join returns; only close_at_port clears reader_thread then.  To join a
\* thread twice is undefined: the call returns or the daemon crashes.
Wait(t) ==
    /\ At(t, "wait") \/ At(t, "await")
    /\ reader[mine[t]] = "done"
    /\ joined' = joined \cup {mine[t]}
    /\ \/ UNCHANGED mode
       \/ mine[t] \in joined /\ mode' = "crashed"
    /\ port' = IF At(t, "wait") THEN [port EXCEPT ![on[t]].thread = 0] ELSE port
    /\ Step(t)
    /\ UNCHANGED <<listVars, mutex, on, mine, fresh, checked, reader, owner,
                   deviceVars, plugVars>>

Shut(t) ==
    /\ At(t, "shut")
    /\ LET p == on[t] IN
         /\ fds' = fds \ {port[p].fd}
         /\ port' = [port EXCEPT ![p].fd = 0, ![p].open = FALSE]
    /\ Step(t)
    /\ UNCHANGED <<listVars, mutex, mode, on, mine, fresh, checked, readerVars,
                   opens, dead, plugVars>>

\* An open that fails ends the call; the open method then destroys what it has
\* created.
GiveUp(t) == Goto(t, IF t = "ubus" /\ fresh THEN Destroy ELSE <<>>)

\* access() finds no device file; or open() fails, with -1 in fd; or it succeeds.
OpenDevice(t) ==
    /\ At(t, "open")
    /\ \/ ~present /\ GiveUp(t) /\ UNCHANGED <<opens, fds, port, mine>>
       \/ /\ present /\ GiveUp(t)
          /\ port' = [port EXCEPT ![on[t]].fd = 0]
          /\ UNCHANGED <<opens, fds, mine>>
       \/ /\ present /\ opens < MaxOpens /\ Step(t)
          /\ opens' = opens + 1 /\ fds' = fds \cup {opens'}
          /\ port' = [port EXCEPT ![on[t]].fd = opens']
          /\ mine' = [mine EXCEPT ![t] = opens']
    /\ UNCHANGED <<listVars, mutex, mode, on, fresh, checked, readerVars, dead,
                   plugVars>>

Mark(t) ==
    /\ At(t, "mark")
    /\ port' = [port EXCEPT ![on[t]].open = TRUE, ![on[t]].stop = FALSE]
    /\ Step(t)
    /\ UNCHANGED <<listVars, mutex, mode, on, mine, fresh, checked, readerVars,
                   deviceVars, plugVars>>

\* pthread_create, which may fail.
Spawn(t) ==
    /\ At(t, "spawn")
    /\ LET p == on[t] IN
         \/ /\ reader' = [reader EXCEPT ![mine[t]] = "test"]
            /\ owner' = [owner EXCEPT ![mine[t]] = p]
            /\ port' = [port EXCEPT ![p].thread = mine[t]]
            /\ Goto(t, <<>>) /\ UNCHANGED fds
         \/ /\ fds' = fds \ {port[p].fd}
            /\ port' = [port EXCEPT ![p].fd = 0, ![p].open = FALSE]
            /\ GiveUp(t) /\ UNCHANGED <<reader, owner>>
    /\ UNCHANGED <<listVars, mutex, mode, on, mine, fresh, checked, joined, opens,
                   dead, plugVars>>

\* "Remove from global list", under ports_mutex, which is not recursive.
Unlist(t) ==
    /\ At(t, "unlist") /\ mutex = "free"
    /\ listed' = 0
    /\ Step(t)
    /\ UNCHANGED <<made, freed, port, mutex, mode, on, mine, fresh, checked,
                   readerVars, deviceVars, plugVars>>

Free(t) ==
    /\ At(t, "free")
    /\ freed' = freed \cup {on[t]}
    /\ Step(t)
    /\ UNCHANGED <<listed, made, port, mutex, mode, on, mine, fresh, checked,
                   readerVars, deviceVars, plugVars>>

CallStep(t) ==
    \/ Stop(t) \/ Halt(t) \/ Join(t) \/ Wait(t) \/ Shut(t)
    \/ OpenDevice(t) \/ Mark(t) \/ Spawn(t) \/ Unlist(t) \/ Free(t)
-----------------------------------------------------------------------------
(* The ubus thread: find_port_instance and create_port_instance take ports_mutex  *)
(* for a moment; no other thread creates an instance.                             *)

Begin(steps, new) ==
    /\ mode = "serving" /\ Idle("ubus") /\ mutex = "free"
    /\ on' = [on EXCEPT !["ubus"] = IF listed = 0 THEN made + 1 ELSE listed]
    /\ IF listed = 0
       THEN made < MaxPorts /\ made' = made + 1 /\ listed' = made'
       ELSE UNCHANGED <<made, listed>>
    /\ fresh' = (new /\ listed = 0) /\ checked' = (listed = 0)
    /\ Goto("ubus", steps)
    /\ UNCHANGED <<freed, port, mutex, mode, mine, readerVars, deviceVars, plugVars>>

\* The open method; it creates no instance for a device that is not there.
UbusOpen == (listed = 0 => present) /\ Begin(Open, TRUE)

\* The sendat method opens a port that is closed.  What it sends is AtCommand's.
UbusSendat == (listed # 0 => ~port[listed].open) /\ Begin(Open, FALSE)

UbusClose == listed # 0 /\ Begin(Close \o Destroy, FALSE)

UbusReply ==
    /\ todo["ubus"] = <<>> /\ on["ubus"] # 0 /\ mode = "serving"
    /\ on' = [on EXCEPT !["ubus"] = 0]
    /\ mine' = [mine EXCEPT !["ubus"] = 0]
    /\ fresh' = FALSE /\ checked' = FALSE
    /\ UNCHANGED <<listVars, port, mutex, mode, todo, readerVars, deviceVars, plugVars>>

\* uloop_run returns and stop_port_monitor waits for the monitor thread.
Terminate ==
    /\ mode = "serving" /\ Idle("ubus")
    /\ mode' = "stopping"
    /\ UNCHANGED <<listVars, port, mutex, callVars, readerVars, deviceVars, plugVars>>

\* "Cleanup": main locks ports_mutex and destroys what is in the list.
Cleanup ==
    /\ mode = "stopping" /\ mutex = "free" /\ Idle("monitor")
    /\ mode' = "cleaning" /\ mutex' = "ubus"
    /\ on' = [on EXCEPT !["ubus"] = listed]
    /\ Goto("ubus", IF listed = 0 THEN <<>> ELSE Destroy)
    /\ UNCHANGED <<listVars, port, mine, fresh, checked, readerVars, deviceVars,
                   plugVars>>

Exit ==
    /\ mode = "cleaning" /\ todo["ubus"] = <<>>
    /\ mode' = "ended" /\ mutex' = "free"
    /\ UNCHANGED <<listVars, port, callVars, readerVars, deviceVars, plugVars>>
-----------------------------------------------------------------------------
(* port_monitor_thread_func holds ports_mutex while it checks a port.  It checks  *)
(* one every check_interval, 30 s, which is longer than a ubus call lasts.        *)

MonitorCheck ==
    /\ watched /\ mode = "serving" /\ Idle("monitor") /\ mutex = "free" /\ listed # 0
    /\ ~checked /\ checked' = ~Idle("ubus")
    /\ mutex' = "monitor"
    /\ on' = [on EXCEPT !["monitor"] = listed]
    /\ Goto("monitor",
            IF port[listed].open THEN (IF present THEN <<>> ELSE Close)
                                 ELSE (IF present THEN Open ELSE <<>>))
    /\ UNCHANGED <<listVars, port, mode, mine, fresh, readerVars, deviceVars, plugVars>>

MonitorDone ==
    /\ Running /\ todo["monitor"] = <<>> /\ on["monitor"] # 0
    /\ on' = [on EXCEPT !["monitor"] = 0]
    /\ mine' = [mine EXCEPT !["monitor"] = 0]
    /\ mutex' = "free"
    /\ UNCHANGED <<listVars, port, mode, todo, fresh, checked, readerVars,
                   deviceVars, plugVars>>
-----------------------------------------------------------------------------
(* reader_thread_func *)

ReaderTest(n) ==
    /\ Running /\ reader[n] = "test"
    /\ LET p == port[owner[n]] IN
         /\ p.stop \/ p.open
         /\ reader' = [reader EXCEPT ![n] = IF p.stop THEN "done" ELSE "read"]
    /\ UNCHANGED <<listVars, port, mutex, mode, callVars, owner, joined,
                   deviceVars, plugVars>>

\* A read of the descriptor that port->fd is now: one that is closed fails, one
\* whose device has gone may fail or yield nothing.
ReaderRead(n) ==
    /\ Running /\ reader[n] = "read"
    /\ LET p == owner[n] IN
         \/ /\ port[p].fd \in fds
            /\ reader' = [reader EXCEPT ![n] = "test"]
            /\ UNCHANGED port
         \/ /\ port[p].fd \notin fds \ dead
            /\ reader' = [reader EXCEPT ![n] = "done"]
            /\ port' = [port EXCEPT ![p].open = FALSE]
    /\ UNCHANGED <<listVars, mutex, mode, callVars, owner, joined, deviceVars,
                   plugVars>>

\* The memory of the port is gone: the reader may go on with what is left there,
\* or crash.
ReaderCrashes(n) ==
    /\ Running /\ reader[n] \in {"test", "read"} /\ owner[n] \in freed
    /\ mode' = "crashed"
    /\ UNCHANGED <<listVars, port, mutex, callVars, readerVars, deviceVars, plugVars>>

ReaderStep(n) == ReaderTest(n) \/ ReaderRead(n)
-----------------------------------------------------------------------------
Unplug ==
    /\ Running /\ present /\ unplugs < MaxUnplugs
    /\ present' = FALSE /\ unplugs' = unplugs + 1 /\ dead' = fds
    /\ UNCHANGED <<listVars, port, mutex, mode, callVars, readerVars, opens, fds, watched>>

Plug ==
    /\ Running /\ ~present /\ present' = TRUE
    /\ UNCHANGED <<listVars, port, mutex, mode, callVars, readerVars, deviceVars,
                   unplugs, watched>>

Next ==
    \/ UbusOpen \/ UbusSendat \/ UbusClose \/ UbusReply
    \/ Terminate \/ Cleanup \/ Exit
    \/ MonitorCheck \/ MonitorDone
    \/ \E t \in Threads : CallStep(t)
    \/ \E n \in Openings : ReaderStep(n) \/ ReaderCrashes(n)
    \/ Unplug \/ Plug

Spec == Init /\ [][Next]_vars

\* The scheduler runs every thread; nobody has to call, to plug or to terminate.
LiveSpec ==
    /\ Spec
    /\ \A t \in Threads : WF_vars(CallStep(t))
    /\ WF_vars(UbusReply \/ Cleanup \/ Exit)
    /\ WF_vars(MonitorDone)
    /\ \A n \in Openings : WF_vars(ReaderStep(n))
-----------------------------------------------------------------------------
Steps == {"stop", "join", "wait", "shut", "open", "mark", "spawn",
          "halt", "reap", "await", "unlist", "free"}

\* Type invariant of the ports and the threads.
TypeOK ==
    /\ listed \in 0..MaxPorts /\ made \in 0..MaxPorts /\ freed \subseteq 1..made
    /\ port \in [Ports -> [open : BOOLEAN, stop : BOOLEAN, fd : 0..MaxOpens,
                           thread : 0..MaxOpens]]
    /\ mutex \in Threads \cup {"free"}
    /\ mode \in {"serving", "stopping", "cleaning", "ended", "crashed"}
    /\ \A t \in Threads : \A i \in 1..Len(todo[t]) : todo[t][i] \in Steps
    /\ on \in [Threads -> 0..MaxPorts] /\ mine \in [Threads -> 0..MaxOpens]
    /\ fresh \in BOOLEAN /\ checked \in BOOLEAN
    /\ reader \in [Openings -> {"none", "test", "read", "done"}]
    /\ owner \in [Openings -> 0..MaxPorts]
    /\ opens \in 0..MaxOpens
    /\ joined \subseteq 1..opens /\ fds \subseteq 1..opens /\ dead \subseteq 1..opens
    /\ present \in BOOLEAN /\ unplugs \in 0..MaxUnplugs /\ watched \in BOOLEAN

Alive(n) == reader[n] \in {"test", "read"}

\* port_manager.c:98 "Remove from global list": what the list holds, and what the
\* monitor is at while it holds ports_mutex, is never freed memory, whatever calls
\* race with it; and the state is well typed.
ListIsAllocated ==
    /\ TypeOK
    /\ listed \notin freed
    /\ on["monitor"] # 0 => on["monitor"] \notin freed

\* port_manager.c:69 "Stop the reader thread": no reader thread outlives the
\* instance it serves.  (With the monitor thread at work the code does not keep it.)
NoReaderOutlives == \A n \in Openings : Alive(n) => owner[n] \notin freed

\* The same where only the ubus thread opens and closes ports: the join of
\* destroy_port_instance catches every reader, also after read errors and failed opens.
LoneReadersEnd == ~watched => NoReaderOutlives

\* close_at_port joins before it closes.  Where only the ubus thread does so, a reader
\* that is about to read reads the descriptor it was started for.
ReadsItsOwn ==
    ~watched => \A n \in Openings :
                  reader[n] = "read" => port[owner[n]].fd = n /\ n \in fds

\* Where only the ubus thread opens and closes ports a call returns: the joins on its
\* way come to an end.  (The monitor may reopen a port, and take back should_stop, while
\* the ubus thread joins the reader.)
CallsReturn ==
    ~watched /\ on["ubus"] # 0 /\ mode = "serving" ~> on["ubus"] = 0 \/ ~Running

\* main.c:387 "Cleanup": a daemon that was told to terminate ends.
Terminates == mode = "stopping" ~> ~Running
=============================================================================
