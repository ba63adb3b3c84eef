---------------------------- MODULE AtPortProofs ----------------------------
(***************************************************************************)
(* Proofs about AtPort for any number of instances, openings and           *)
(* disappearances of the device.                                           *)
(***************************************************************************)
EXTENDS AtPort, SequenceTheorems, TLAPS

\* The calls, step by step: what may come after a step, and which step may be the last.
FollowedBy(a, b) ==
    \/ a = "stop"  /\ b = "join"
    \/ a = "join"  /\ b = "wait"
    \/ a = "wait"  /\ b = "shut"
    \/ a = "shut"  /\ b \in {"open", "halt", "unlist"}
    \/ a = "open"  /\ b = "mark"
    \/ a = "mark"  /\ b = "spawn"
    \/ a = "halt"  /\ b = "reap"
    \/ a = "reap"  /\ b = "await"
    \/ a = "await" /\ b = "stop"
    \/ a = "unlist" /\ b = "free"
LastSteps == {"shut", "spawn", "free"}

Linked(s) == \A i \in 1..(Len(s) - 1) : FollowedBy(s[i], s[i + 1])
Ended(s)  == s # <<>> => s[Len(s)] \in LastSteps

\* The monitor closes and opens ports; it neither lists nor frees them.
MonitorSteps == {"stop", "join", "wait", "shut", "open", "mark", "spawn"}
StepsOf(t) == IF t = "monitor" THEN MonitorSteps ELSE Steps

\* Thread t is about to take one of these steps.
Before(t, steps) == todo[t] # <<>> /\ Head(todo[t]) \in steps

Calls ==
    /\ todo \in [Threads -> Seq(Steps)] /\ todo["monitor"] \in Seq(MonitorSteps)
    /\ \A t \in Threads :
         /\ Linked(todo[t]) /\ Ended(todo[t])
         /\ todo[t] # <<>> => on[t] \in Ports /\ on[t] <= made
         /\ Before(t, {"wait", "await", "mark", "spawn"}) => mine[t] \in 1..opens

\* Descriptors and threads are numbered by the openings so far.
Numbers ==
    /\ listed <= made
    /\ \A p \in Ports : port[p].fd <= opens /\ port[p].thread <= opens
    /\ \A n \in Openings : Alive(n) => owner[n] \in Ports

\* While the monitor is at an instance it holds ports_mutex, and the list holds the instance.
MonitorHolds ==
    /\ on["monitor"] # 0 => mutex = "monitor" /\ on["monitor"] = listed
    /\ mode = "cleaning" => on["monitor"] = 0

\* An instance leaves the list before it is freed.
FreedIsUnlisted == Before("ubus", {"free"}) => listed = 0

IInv == Calls /\ Numbers /\ MonitorHolds /\ FreedIsUnlisted /\ ListIsAllocated

\* A reader at work is the one its port knows, and reads the port's descriptor.
ReadersKnown ==
    \A n \in Openings :
        Alive(n) => /\ owner[n] \notin freed
                    /\ port[owner[n]].open
                    /\ port[owner[n]].thread = n
                    /\ port[owner[n]].fd = n /\ n \in fds

\* A descriptor belongs to one port.
OneFdEach ==
    \A p, q \in Ports : p # q /\ port[p].fd = port[q].fd => port[p].fd = 0

\* Where the ubus thread is in a call, and what holds there.
Unread == {"shut", "open", "mark", "spawn", "unlist", "free"}
NoReaderAt(p) == \A n \in Openings : Alive(n) => owner[n] # p
CallHolds ==
    /\ todo["ubus"] # <<>> => on["ubus"] \notin freed
    /\ Before("ubus", Unread) => NoReaderAt(on["ubus"])
    /\ Before("ubus", {"wait"}) => mine["ubus"] = port[on["ubus"]].thread
    /\ Before("ubus", {"mark", "spawn"}) =>
         port[on["ubus"]].fd = mine["ubus"] /\ mine["ubus"] \in fds
    /\ Before("ubus", {"spawn"}) => port[on["ubus"]].open

Lone == on["monitor"] = 0 /\ ReadersKnown /\ OneFdEach /\ CallHolds
LInv == ~watched => Lone
-----------------------------------------------------------------------------
(* Sequences of steps. *)

\* Taking a step off leaves the rest of the call; the next step is one that may follow.
LEMMA TailLinked ==
    ASSUME NEW S, NEW s \in Seq(S), Linked(s), Ended(s), s # <<>>
    PROVE  /\ Tail(s) \in Seq(S) /\ Linked(Tail(s)) /\ Ended(Tail(s))
           /\ Tail(s) # <<>> => FollowedBy(Head(s), Head(Tail(s)))
           /\ Tail(s) = <<>> => Head(s) \in LastSteps
           /\ Head(s) \in S
  <1>1. /\ Len(s) \in Nat /\ Len(s) # 0 /\ Tail(s) \in Seq(S) /\ Len(Tail(s)) = Len(s) - 1
        /\ \A i \in 1..(Len(s) - 1) : Tail(s)[i] = s[i + 1]
        /\ Head(s) = s[1] /\ s[1] \in S
    OBVIOUS
  <1>2. Linked(Tail(s))
    BY <1>1 DEF Linked
  <1>3. Ended(Tail(s))
    <2>1. SUFFICES ASSUME Tail(s) # <<>> PROVE Tail(s)[Len(Tail(s))] \in LastSteps
      BY DEF Ended
    <2>2. Len(Tail(s)) # 0
      BY <1>1, <2>1
    <2>3. Tail(s)[Len(Tail(s))] = s[Len(s)]
      BY <1>1, <2>2
    <2> QED
      BY <2>3 DEF Ended
  <1>4. ASSUME Tail(s) # <<>> PROVE FollowedBy(Head(s), Head(Tail(s)))
    <2>1. Len(Tail(s)) # 0 /\ 1 \in 1..(Len(s) - 1)
      BY <1>1, <1>4
    <2>2. Head(Tail(s)) = s[1 + 1]
      BY <1>1, <1>4, <2>1
    <2> QED
      BY <1>1, <2>1, <2>2 DEF Linked
  <1>5. ASSUME Tail(s) = <<>> PROVE Head(s) \in LastSteps
    <2>1. Len(s) = 1
      <3>1. Len(<<>>) = 0
        OBVIOUS
      <3>2. Len(Tail(s)) = Len(<<>>)
        BY <1>5, Zenon
      <3> QED
        BY <1>1, <3>1, <3>2
    <2> QED
      BY <1>1, <2>1 DEF Ended
  <1> QED
    BY <1>1, <1>2, <1>3, <1>4, <1>5

\* A call that closes a port which is not open goes on after close_at_port.
LEMMA AfterCloseLinked ==
    ASSUME NEW S, NEW s \in Seq(S), Linked(s), Ended(s), s # <<>>, Head(s) = "stop"
    PROVE  /\ AfterClose(s) \in Seq(S) /\ Linked(AfterClose(s)) /\ Ended(AfterClose(s))
           /\ AfterClose(s) # <<>> => Head(AfterClose(s)) \in {"open", "halt", "unlist"}
  <1>1. AfterClose(s) = SubSeq(s, 5, Len(s))
    BY DEF AfterClose, Close
  <1>2. Len(s) \in Nat /\ Len(s) # 0 /\ s[1] = "stop"
    OBVIOUS
  <1>3. Len(s) >= 4 /\ s[4] = "shut"
    <2>1. Len(s) > 1 /\ s[2] = "join"
      BY <1>2 DEF Linked, Ended, FollowedBy, LastSteps
    <2>2. Len(s) > 2 /\ s[3] = "wait"
      BY <1>2, <2>1 DEF Linked, Ended, FollowedBy, LastSteps
    <2> QED
      BY <1>2, <2>1, <2>2 DEF Linked, Ended, FollowedBy, LastSteps
  <1> DEFINE u == SubSeq(s, 5, Len(s))
  <1>4. /\ u \in Seq(S) /\ Len(u) = Len(s) - 4
        /\ \A i \in 1..Len(u) : u[i] = s[i + 4]
    <2>1. \A i \in 5..Len(s) : s[i] \in S
      BY <1>2
    <2>2. /\ u \in Seq(S)
          /\ Len(u) = IF 5 <= Len(s) THEN Len(s) - 5 + 1 ELSE 0
          /\ \A i \in 1..(Len(s) - 5 + 1) : u[i] = s[5 + i - 1]
      BY <1>2, <2>1, SubSeqProperties
    <2> HIDE DEF u
    <2>3. Len(u) = Len(s) - 4
      <3>1. CASE Len(s) = 4
        BY <2>2, <3>1
      <3>2. CASE Len(s) > 4
        BY <1>2, <2>2, <3>2
      <3>3. Len(s) = 4 \/ Len(s) > 4
        <4>1. Len(s) \in Int /\ 4 <= Len(s)
          BY <1>2, <1>3
        <4>2. \A k \in Int : 4 <= k => k = 4 \/ k > 4
          OBVIOUS
        <4> QED
          BY <4>1, <4>2
      <3> QED
        BY <3>1, <3>2, <3>3
    <2>4. \A i \in 1..Len(u) : u[i] = s[i + 4]
      BY <1>2, <1>3, <2>2, <2>3
    <2> QED
      BY <2>2, <2>3, <2>4
  <1> HIDE DEF u
  <1>5. Linked(u)
    <2>1. ASSUME NEW i \in 1..(Len(u) - 1) PROVE FollowedBy(u[i], u[i + 1])
      <3>1. i \in 1..Len(u) /\ i + 1 \in 1..Len(u) /\ i + 4 \in 1..(Len(s) - 1) /\ (i + 1) + 4 = (i + 4) + 1
        BY <1>2, <1>4
      <3>2. u[i] = s[i + 4] /\ u[i + 1] = s[(i + 4) + 1]
        BY <1>4, <3>1
      <3> QED
        BY <3>1, <3>2 DEF Linked
    <2> QED
      BY <2>1 DEF Linked
  <1>6. u # <<>> => Len(u) # 0 /\ Head(u) = u[1]
    BY <1>4
  <1>7. Ended(u)
    BY <1>2, <1>4, <1>6 DEF Ended
  <1>8. u # <<>> => Head(u) \in {"open", "halt", "unlist"}
    <2> SUFFICES ASSUME u # <<>> PROVE Head(u) \in {"open", "halt", "unlist"}
      OBVIOUS
    <2>1. 4 \in 1..(Len(s) - 1) /\ 1 \in 1..Len(u) /\ 4 + 1 = 1 + 4
      BY <1>2, <1>3, <1>4, <1>6
    <2>2. FollowedBy("shut", Head(u))
      BY <1>3, <1>4, <1>6, <2>1 DEF Linked
    <2> QED
      BY <2>2 DEF FollowedBy
  <1>9. AfterClose(s) = u
    BY <1>1 DEF u
  <1> QED
    BY <1>4, <1>5, <1>7, <1>8, <1>9

LEMMA Joined ==
    ASSUME NEW S, NEW s \in Seq(S), NEW u \in Seq(S), Linked(s), Linked(u), Ended(u),
           s # <<>>, u # <<>>, FollowedBy(s[Len(s)], Head(u))
    PROVE  /\ s \o u \in Seq(S) /\ Linked(s \o u) /\ Ended(s \o u)
           /\ s \o u # <<>> /\ Head(s \o u) = Head(s)
  <1> DEFINE w == s \o u
  <1>1. /\ Len(s) \in Nat \ {0} /\ Len(u) \in Nat \ {0} /\ w \in Seq(S)
        /\ Len(w) = Len(s) + Len(u)
        /\ \A i \in 1..Len(s) : w[i] = s[i]
        /\ \A i \in 1..Len(u) : w[Len(s) + i] = u[i]
        /\ Head(u) = u[1] /\ Head(s) = s[1]
    OBVIOUS
  <1> HIDE DEF w
  <1>2. w # <<>> /\ Head(w) = w[1]
    BY <1>1
  <1>3. ASSUME NEW i \in 1..(Len(w) - 1) PROVE FollowedBy(w[i], w[i + 1])
    <2>1. CASE i < Len(s)
      <3>1. i \in 1..(Len(s) - 1) /\ i \in 1..Len(s) /\ i + 1 \in 1..Len(s)
        BY <1>1, <2>1
      <3>2. w[i] = s[i] /\ w[i + 1] = s[i + 1]
        BY <1>1, <3>1
      <3> QED
        BY <3>1, <3>2 DEF Linked
    <2>2. CASE i = Len(s)
      <3>1. Len(s) \in 1..Len(s) /\ 1 \in 1..Len(u)
        BY <1>1
      <3>2. w[i] = s[Len(s)] /\ w[i + 1] = Head(u)
        BY <1>1, <2>2, <3>1
      <3> QED
        BY <3>2
    <2>3. CASE i > Len(s)
      <3>1. /\ i - Len(s) \in 1..(Len(u) - 1)
            /\ w[i] = u[i - Len(s)] /\ w[i + 1] = u[(i - Len(s)) + 1]
        <4> DEFINE j == i - Len(s)
        <4>1. i \in Int /\ j \in Int /\ i = Len(s) + j
          BY <1>1
        <4> HIDE DEF j
        <4>2. j \in 1..(Len(u) - 1) /\ j \in 1..Len(u) /\ j + 1 \in 1..Len(u)
          BY <1>1, <2>3, <4>1
        <4>3. Len(s) + j = i /\ Len(s) + (j + 1) = i + 1
          BY <1>1, <4>1
        <4>4. w[Len(s) + j] = u[j] /\ w[Len(s) + (j + 1)] = u[j + 1]
          BY <1>1, <4>2
        <4> QED
          BY <4>1, <4>2, <4>3, <4>4 DEF j
      <3> QED
        BY <3>1 DEF Linked
    <2> QED
      BY <1>1, <2>1, <2>2, <2>3
  <1>4. Ended(w)
    BY <1>1 DEF Ended
  <1> QED
    BY <1>1, <1>2, <1>3, <1>4 DEF w, Linked

\* The calls are sequences of steps.
LEMMA CallsLinked ==
    /\ Close \in Seq(MonitorSteps) /\ Linked(Close) /\ Ended(Close) /\ Head(Close) = "stop"
    /\ Open \in Seq(MonitorSteps) /\ Linked(Open) /\ Ended(Open) /\ Head(Open) = "stop"
    /\ Destroy \in Seq(Steps) /\ Linked(Destroy) /\ Ended(Destroy) /\ Head(Destroy) = "halt"
    /\ Close \o Destroy \in Seq(Steps) /\ Linked(Close \o Destroy) /\ Ended(Close \o Destroy)
    /\ Head(Close \o Destroy) = "stop"
    /\ Close # <<>> /\ Open # <<>> /\ Destroy # <<>> /\ Close \o Destroy # <<>>
  <1> DEFINE device == <<"open", "mark", "spawn">>
             await  == <<"halt", "reap", "await">>
             gone   == <<"unlist", "free">>
  <1>1. /\ Close \in Seq(MonitorSteps) /\ Close \in Seq(Steps) /\ Linked(Close) /\ Ended(Close)
        /\ Head(Close) = "stop" /\ Close # <<>> /\ Close[Len(Close)] = "shut"
    BY DEF Close, MonitorSteps, Steps, Linked, Ended, FollowedBy, LastSteps
  <1>2. device \in Seq(MonitorSteps) /\ Linked(device) /\ Ended(device) /\ Head(device) = "open" /\ device # <<>>
    BY DEF MonitorSteps, Linked, Ended, FollowedBy, LastSteps
  <1>3. await \in Seq(Steps) /\ Linked(await) /\ Head(await) = "halt" /\ await # <<>> /\ await[Len(await)] = "await"
    BY DEF Steps, Linked, FollowedBy
  <1>4. gone \in Seq(Steps) /\ Linked(gone) /\ Ended(gone) /\ Head(gone) = "unlist" /\ gone # <<>>
    BY DEF Steps, Linked, Ended, FollowedBy, LastSteps
  <1>5. Open = Close \o device /\ Destroy = (await \o Close) \o gone
    BY DEF Open, Destroy, Close
  <1> HIDE DEF device, await, gone
  <1>6. /\ FollowedBy("shut", "open") /\ FollowedBy("await", "stop")
        /\ FollowedBy("shut", "unlist") /\ FollowedBy("shut", "halt")
    BY DEF FollowedBy
  <1>7. Open \in Seq(MonitorSteps) /\ Linked(Open) /\ Ended(Open) /\ Head(Open) = "stop" /\ Open # <<>>
    BY <1>1, <1>2, <1>5, <1>6, Joined
  <1>8. /\ await \o Close \in Seq(Steps) /\ Linked(await \o Close) /\ Head(await \o Close) = "halt"
        /\ await \o Close # <<>> /\ (await \o Close)[Len(await \o Close)] = "shut"
    <2>1. /\ await \o Close \in Seq(Steps) /\ Linked(await \o Close) /\ Head(await \o Close) = "halt"
          /\ await \o Close # <<>>
      BY <1>1, <1>3, <1>6, Joined
    <2>2. (await \o Close)[Len(await \o Close)] = Close[Len(Close)]
      BY <1>1, <1>3
    <2> QED
      BY <1>1, <2>1, <2>2
  <1>9. Destroy \in Seq(Steps) /\ Linked(Destroy) /\ Ended(Destroy) /\ Head(Destroy) = "halt" /\ Destroy # <<>>
    <2>1. PICK s : s = await \o Close
      OBVIOUS
    <2>2. s \in Seq(Steps) /\ Linked(s) /\ Head(s) = "halt" /\ s # <<>> /\ FollowedBy(s[Len(s)], Head(gone))
      BY <1>4, <1>6, <1>8, <2>1
    <2>3. /\ s \o gone \in Seq(Steps) /\ Linked(s \o gone) /\ Ended(s \o gone)
          /\ Head(s \o gone) = "halt" /\ s \o gone # <<>>
      BY <1>4, <2>2, Joined
    <2> QED
      BY Zenon, <1>5, <2>1, <2>3
  <1>10. /\ Close \o Destroy \in Seq(Steps) /\ Linked(Close \o Destroy) /\ Ended(Close \o Destroy)
         /\ Head(Close \o Destroy) = "stop" /\ Close \o Destroy # <<>>
    BY <1>1, <1>6, <1>9, Joined
  <1> QED
    BY <1>1, <1>7, <1>9, <1>10
-----------------------------------------------------------------------------
(* The list, the calls and the numbers, also with the monitor at work. *)

Port == [open : BOOLEAN, stop : BOOLEAN, fd : 0..MaxOpens, thread : 0..MaxOpens]

LEMMA InitInv == Init => IInv
  <1> SUFFICES ASSUME Init PROVE IInv
    OBVIOUS
  <1> USE PortAssumption DEF Init
  <1>1. NoPort \in Port
    BY DEF NoPort, Port
  <1>2. TypeOK
    <2>1. port \in [Ports -> Port]
      BY <1>1
    <2>2. reader \in [Openings -> {"none", "test", "read", "done"}]
      OBVIOUS
    <2>3. owner \in [Openings -> 0..MaxPorts] /\ on \in [Threads -> 0..MaxPorts]
          /\ mine \in [Threads -> 0..MaxOpens]
      OBVIOUS
    <2>4. \A t \in Threads : \A i \in 1..Len(todo[t]) : todo[t][i] \in Steps
      OBVIOUS
    <2>5. fresh \in BOOLEAN /\ checked \in BOOLEAN /\ present \in BOOLEAN /\ watched \in BOOLEAN
      BY Zenon
    <2>6. /\ listed \in 0..MaxPorts /\ made \in 0..MaxPorts /\ freed \subseteq 1..made
          /\ mutex \in Threads \cup {"free"} /\ mode = "serving" /\ opens \in 0..MaxOpens
      OBVIOUS
    <2>7. /\ joined \subseteq 1..opens /\ fds \subseteq 1..opens /\ dead \subseteq 1..opens
          /\ unplugs \in 0..MaxUnplugs
      OBVIOUS
    <2> QED
      BY ONLY <2>1, <2>2, <2>3, <2>4, <2>5, <2>6, <2>7 DEF TypeOK, Port
  <1>3. todo \in [Threads -> Seq(Steps)] /\ todo["monitor"] \in Seq(MonitorSteps)
    BY DEF Threads
  <1>4. Calls
    BY <1>3 DEF Calls, Linked, Ended, Before, Threads
  <1>5. Numbers
    BY DEF Numbers, Alive, NoPort
  <1>6. MonitorHolds /\ FreedIsUnlisted /\ ListIsAllocated
    BY <1>2 DEF MonitorHolds, FreedIsUnlisted, ListIsAllocated, Before, Threads
  <1> QED
    BY <1>4, <1>5, <1>6 DEF IInv

\* A thread in a call is at an instance, and is about to take a step of the call.
LEMMA InCall ==
    ASSUME IInv, NEW t \in Threads, NEW step, At(t, step)
    PROVE  /\ todo[t] \in Seq(StepsOf(t)) /\ Linked(todo[t]) /\ Ended(todo[t])
           /\ todo[t] # <<>> /\ Head(todo[t]) = step /\ on[t] \in Ports /\ on[t] \in 1..made
           /\ mine[t] \in 0..MaxOpens
           /\ step \in {"wait", "await", "mark", "spawn"} => mine[t] \in 1..opens
           /\ step \in {"unlist", "free", "halt", "reap", "await"} => t = "ubus"
  <1>1. todo[t] # <<>> /\ Head(todo[t]) = step
    BY DEF At
  <1>2. todo[t] \in Seq(StepsOf(t)) /\ Linked(todo[t]) /\ Ended(todo[t])
    BY DEF IInv, Calls, StepsOf, Threads
  <1>3. step \in {"unlist", "free", "halt", "reap", "await"} => t = "ubus"
    BY <1>1, <1>2, TailLinked DEF StepsOf, MonitorSteps, Threads
  <1>4. on[t] \in Ports /\ on[t] \in 1..made
    BY <1>1, PortAssumption DEF IInv, Calls, Ports, ListIsAllocated, TypeOK
  <1>5. mine[t] \in 0..MaxOpens /\ (step \in {"wait", "await", "mark", "spawn"} => mine[t] \in 1..opens)
    BY <1>1 DEF IInv, Calls, ListIsAllocated, TypeOK, Before
  <1> QED
    BY <1>1, <1>2, <1>3, <1>4, <1>5

\* What is left of the call is a call.
LEMMA StepLeaves ==
    ASSUME IInv, NEW t \in Threads, NEW step, At(t, step)
    PROVE  /\ Tail(todo[t]) \in Seq(StepsOf(t)) /\ Linked(Tail(todo[t])) /\ Ended(Tail(todo[t]))
           /\ Tail(todo[t]) # <<>> => FollowedBy(step, Head(Tail(todo[t])))
           /\ Tail(todo[t]) = <<>> => step \in LastSteps
  BY InCall, TailLinked

\* A thread that goes on leaves the calls in order.
LEMMA GotoCalls ==
    ASSUME IInv, NEW t \in Threads, NEW u \in Seq(StepsOf(t)), Linked(u), Ended(u), Goto(t, u),
           on' \in [Threads -> 0..MaxPorts], \A q \in Threads \ {t} : on'[q] = on[q] /\ mine'[q] = mine[q],
           u # <<>> => on'[t] \in Ports /\ on'[t] <= made',
           u # <<>> /\ Head(u) \in {"wait", "await", "mark", "spawn"} => mine'[t] \in 1..opens',
           made' \in Nat, made <= made', opens' \in Nat, opens <= opens'
    PROVE  /\ Calls' /\ (\A q \in Threads : \A i \in 1..Len(todo'[q]) : todo'[q][i] \in Steps)
           /\ todo'[t] = u /\ \A q \in Threads \ {t} : todo'[q] = todo[q]
  <1>1. todo' = [todo EXCEPT ![t] = u] /\ todo \in [Threads -> Seq(Steps)]
    BY DEF Goto, IInv, Calls
  <1>2. u \in Seq(Steps)
    BY DEF StepsOf, MonitorSteps, Steps
  <1>3. /\ todo' \in [Threads -> Seq(Steps)] /\ todo'[t] = u
        /\ \A q \in Threads \ {t} : todo'[q] = todo[q]
    BY <1>1, <1>2
  <1>4. todo'["monitor"] \in Seq(MonitorSteps)
    BY <1>3 DEF IInv, Calls, StepsOf, Threads
  <1>5. ASSUME NEW q \in Threads
        PROVE  /\ Linked(todo'[q]) /\ Ended(todo'[q])
               /\ todo'[q] # <<>> => on'[q] \in Ports /\ on'[q] <= made'
               /\ Before(q, {"wait", "await", "mark", "spawn"})' => mine'[q] \in 1..opens'
    <2>1. CASE q = t
      BY <1>3, <2>1 DEF Before
    <2>2. CASE q # t
      <3>1. todo'[q] = todo[q] /\ on'[q] = on[q] /\ mine'[q] = mine[q]
        BY <1>3, <2>2
      <3>2. Linked(todo[q]) /\ Ended(todo[q])
            /\ (todo[q] # <<>> => on[q] \in Ports /\ on[q] <= made)
            /\ (Before(q, {"wait", "await", "mark", "spawn"}) => mine[q] \in 1..opens)
            /\ made \in Nat /\ opens \in Nat
        BY PortAssumption DEF IInv, Calls, ListIsAllocated, TypeOK
      <3>3. on[q] \in Int /\ mine[q] \in Int
        BY PortAssumption DEF IInv, ListIsAllocated, TypeOK
      <3>4. todo'[q] # <<>> => on'[q] \in Ports /\ on'[q] <= made'
        BY <3>1, <3>2, <3>3
      <3>5. Before(q, {"wait", "await", "mark", "spawn"})' => mine'[q] \in 1..opens'
        BY <3>1, <3>2, <3>3 DEF Before
      <3> QED
        BY <3>1, <3>2, <3>4, <3>5
    <2> QED
      BY <2>1, <2>2
  <1>6. Calls'
    BY <1>3, <1>4, <1>5 DEF Calls
  <1>7. \A q \in Threads : \A i \in 1..Len(todo'[q]) : todo'[q][i] \in Steps
    BY <1>3
  <1> QED
    BY <1>3, <1>6, <1>7

\* What is typed, in parts.
PortTyped ==
    port \in [Ports -> Port] /\ \A p \in Ports : port[p].fd \in 0..opens /\ port[p].thread \in 0..opens
MineTyped == mine \in [Threads -> 0..MaxOpens]
ReadersTyped ==
    /\ reader \in [Openings -> {"none", "test", "read", "done"}]
    /\ owner \in [Openings -> 0..MaxPorts]
    /\ \A n \in Openings : Alive(n) => owner[n] \in Ports
DeviceTyped ==
    /\ opens \in 0..MaxOpens /\ opens \in Nat
    /\ joined \subseteq 1..opens /\ fds \subseteq 1..opens /\ dead \subseteq 1..opens
ListTyped ==
    /\ listed \in 0..MaxPorts /\ made \in Nat /\ made <= MaxPorts /\ freed \subseteq 1..made
    /\ on \in [Threads -> 0..MaxPorts]
StateTyped == PortTyped /\ MineTyped /\ ReadersTyped /\ DeviceTyped /\ ListTyped

LEMMA Typed == ASSUME IInv PROVE StateTyped
  <1>1. TypeOK /\ Numbers
    BY DEF IInv, ListIsAllocated
  <1>2. port \in [Ports -> Port]
    BY <1>1 DEF TypeOK, Port
  <1>3. \A p \in Ports : port[p].fd \in 0..MaxOpens /\ port[p].thread \in 0..MaxOpens
    BY <1>2 DEF Port
  <1>4. opens \in Nat /\ made \in Nat /\ made <= MaxPorts
    BY <1>1, PortAssumption DEF TypeOK
  <1>5. \A p \in Ports : port[p].fd \in 0..opens /\ port[p].thread \in 0..opens
    BY <1>1, <1>3, <1>4, PortAssumption DEF Numbers
  <1>6. PortTyped /\ MineTyped /\ ReadersTyped
    BY <1>1, <1>2, <1>5 DEF TypeOK, Numbers, PortTyped, MineTyped, ReadersTyped
  <1>7. DeviceTyped /\ ListTyped
    BY <1>1, <1>4 DEF TypeOK, DeviceTyped, ListTyped
  <1> QED
    BY <1>6, <1>7 DEF StateTyped

\* A step of a call that leaves the list, the mutex and what is freed alone.
ListStays ==
    /\ UNCHANGED <<listed, made, freed, mutex, on, fresh, checked, present, unplugs, watched>>
    /\ mode' \in {mode, "crashed"}

\* Thread t goes on with u.
GoesOn(t, u) ==
    /\ todo[t] # <<>> /\ Goto(t, u)
    /\ u \in Seq(StepsOf(t)) /\ Linked(u) /\ Ended(u)
    /\ u # <<>> => Head(u) # "free"
    /\ u # <<>> /\ Head(u) \in {"wait", "await", "mark", "spawn"} => mine'[t] \in 1..opens'
    /\ \A q \in Threads \ {t} : mine'[q] = mine[q]

LEMMA CallGoesOn ==
    ASSUME IInv, NEW t \in Threads, NEW u, GoesOn(t, u), ListStays, opens <= opens',
           PortTyped', MineTyped', ReadersTyped', DeviceTyped'
    PROVE  IInv'
  <1>1. /\ on' \in [Threads -> 0..MaxPorts] /\ made' \in Nat /\ opens' \in Nat /\ made <= made'
        /\ UNCHANGED <<listed, made, freed, mutex, on, fresh, checked, present, unplugs, watched>>
        /\ mode' \in {mode, "crashed"}
    BY Typed DEF StateTyped, ListTyped, ListStays, DeviceTyped
  <1>2. on'[t] \in Ports /\ on'[t] <= made'
    BY <1>1 DEF IInv, Calls, GoesOn
  <1>3. /\ Calls' /\ (\A q \in Threads : \A i \in 1..Len(todo'[q]) : todo'[q][i] \in Steps)
        /\ todo'[t] = u /\ \A q \in Threads \ {t} : todo'[q] = todo[q]
    BY <1>1, <1>2, GotoCalls DEF GoesOn
  <1>4. TypeOK
    BY DEF IInv, ListIsAllocated
  <1>5. TypeOK'
    <2>1. mode' \in {"serving", "stopping", "cleaning", "ended", "crashed"}
      BY <1>1, <1>4 DEF TypeOK
    <2>2. fresh' \in BOOLEAN /\ checked' \in BOOLEAN /\ present' \in BOOLEAN /\ watched' \in BOOLEAN
      BY <1>1, <1>4, Zenon DEF TypeOK
    <2>3. /\ listed' \in 0..MaxPorts /\ made' \in 0..MaxPorts /\ freed' \subseteq 1..made'
          /\ mutex' \in Threads \cup {"free"} /\ unplugs' \in 0..MaxUnplugs
      BY <1>1, <1>4 DEF TypeOK
    <2>4. /\ port' \in [Ports -> Port] /\ mine' \in [Threads -> 0..MaxOpens]
          /\ reader' \in [Openings -> {"none", "test", "read", "done"}]
          /\ owner' \in [Openings -> 0..MaxPorts] /\ opens' \in 0..MaxOpens
          /\ joined' \subseteq 1..opens' /\ fds' \subseteq 1..opens' /\ dead' \subseteq 1..opens'
      BY DEF PortTyped, MineTyped, ReadersTyped, DeviceTyped
    <2> QED
      BY <1>1, <1>3, <2>1, <2>2, <2>3, <2>4 DEF TypeOK, Port
  <1>6. Numbers'
    <2>1. listed' <= made'
      BY <1>1 DEF IInv, Numbers
    <2>2. \A p \in Ports : port'[p].fd <= opens' /\ port'[p].thread <= opens'
      BY DEF PortTyped
    <2> QED
      BY <2>1, <2>2 DEF Numbers, ReadersTyped
  <1>7. MonitorHolds'
    BY <1>1 DEF IInv, MonitorHolds
  <1>8. FreedIsUnlisted'
    BY <1>1, <1>3 DEF IInv, FreedIsUnlisted, Before, Threads, GoesOn
  <1>9. ListIsAllocated'
    BY <1>1, <1>5 DEF IInv, ListIsAllocated
  <1> QED
    BY <1>3, <1>6, <1>7, <1>8, <1>9 DEF IInv

\* A port is changed, and stays typed.
LEMMA PortSet ==
    ASSUME PortTyped, NEW p \in Ports, NEW r \in Port, port' = [port EXCEPT ![p] = r],
           opens \in Nat, opens' \in Nat, opens <= opens', r.fd \in 0..opens', r.thread \in 0..opens'
    PROVE  PortTyped' /\ port'[p] = r /\ \A q \in Ports \ {p} : port'[q] = port[q]
  <1>1. port' \in [Ports -> Port] /\ port'[p] = r /\ \A q \in Ports \ {p} : port'[q] = port[q]
    BY DEF PortTyped
  <1>2. \A q \in Ports : port'[q].fd \in 0..opens' /\ port'[q].thread \in 0..opens'
    BY <1>1 DEF PortTyped
  <1> QED
    BY <1>1, <1>2 DEF PortTyped

LEMMA PortKept ==
    ASSUME PortTyped, UNCHANGED port, opens \in Nat, opens' \in Nat, opens <= opens'
    PROVE  PortTyped'
  BY DEF PortTyped

LEMMA RestKept ==
    /\ MineTyped /\ UNCHANGED mine => MineTyped'
    /\ ReadersTyped /\ UNCHANGED <<reader, owner>> => ReadersTyped'
    /\ DeviceTyped /\ UNCHANGED <<opens, joined, fds, dead>> => DeviceTyped' /\ opens <= opens'
  BY DEF MineTyped, ReadersTyped, DeviceTyped, Alive

\* The steps of a call, one by one.
LEMMA StopInv == ASSUME IInv, NEW t \in Threads, Stop(t) PROVE IInv'
  <1>1. At(t, "stop") /\ on[t] \in Ports /\ todo[t] # <<>>
    BY InCall DEF Stop
  <1>2. StateTyped
    BY Typed
  <1>3. UNCHANGED <<mode, opens, mine, reader, owner, joined, fds, dead>> /\ ListStays
    BY DEF Stop, listVars, readerVars, deviceVars, plugVars, ListStays
  <1>4. MineTyped' /\ ReadersTyped' /\ DeviceTyped' /\ opens <= opens'
    BY <1>2, <1>3, RestKept DEF StateTyped
  <1>5. CASE port[on[t]].open
    <2>1. port' = [port EXCEPT ![on[t]].stop = TRUE] /\ Goto(t, Tail(todo[t]))
      BY <1>5 DEF Stop, Step
    <2>2. PortTyped'
      <3> DEFINE r == [port[on[t]] EXCEPT !.stop = TRUE]
      <3>1. r \in Port /\ r.fd = port[on[t]].fd /\ r.thread = port[on[t]].thread
        BY <1>1, <1>2 DEF StateTyped, PortTyped, Port
      <3>2. port' = [port EXCEPT ![on[t]] = r]
        BY <2>1
      <3> HIDE DEF r
      <3> QED
        BY <1>1, <1>2, <1>3, <3>1, <3>2, PortSet DEF StateTyped, PortTyped, DeviceTyped
    <2>3. GoesOn(t, Tail(todo[t]))
      BY <1>1, <1>3, <2>1, StepLeaves DEF GoesOn, FollowedBy
    <2> QED
      BY <1>3, <1>4, <2>2, <2>3, CallGoesOn
  <1>6. CASE ~port[on[t]].open
    <2>1. UNCHANGED port /\ Goto(t, AfterClose(todo[t]))
      BY <1>6 DEF Stop
    <2>2. PortTyped'
      BY <1>2, <1>3, <2>1 DEF StateTyped, PortTyped
    <2>3. GoesOn(t, AfterClose(todo[t]))
      BY <1>1, <1>3, <2>1, InCall, AfterCloseLinked DEF GoesOn
    <2> QED
      BY <1>3, <1>4, <2>2, <2>3, CallGoesOn
  <1> QED
    BY <1>5, <1>6

LEMMA HaltInv == ASSUME IInv, NEW t \in Threads, Halt(t) PROVE IInv'
  <1>1. At(t, "halt") /\ on[t] \in Ports /\ todo[t] # <<>>
    BY InCall DEF Halt
  <1>2. StateTyped
    BY Typed
  <1>3. UNCHANGED <<mode, opens, mine, reader, owner, joined, fds, dead>> /\ ListStays
    BY DEF Halt, listVars, readerVars, deviceVars, plugVars, ListStays
  <1>4. MineTyped' /\ ReadersTyped' /\ DeviceTyped' /\ opens <= opens'
    BY <1>2, <1>3, RestKept DEF StateTyped
  <1>5. PortTyped'
    <2> DEFINE r == [port[on[t]] EXCEPT !.stop = TRUE]
    <2>1. r \in Port /\ r.fd = port[on[t]].fd /\ r.thread = port[on[t]].thread
      BY <1>1, <1>2 DEF StateTyped, PortTyped, Port
    <2>2. port' = [port EXCEPT ![on[t]] = r]
      BY DEF Halt
    <2> HIDE DEF r
    <2> QED
      BY <1>1, <1>2, <1>3, <2>1, <2>2, PortSet DEF StateTyped, PortTyped, DeviceTyped
  <1>6. GoesOn(t, Tail(todo[t]))
    <2>1. Goto(t, Tail(todo[t])) /\ mine' = mine
      BY <1>3 DEF Halt, Step
    <2>2. /\ Tail(todo[t]) \in Seq(StepsOf(t)) /\ Linked(Tail(todo[t])) /\ Ended(Tail(todo[t]))
          /\ Tail(todo[t]) # <<>> => FollowedBy("halt", Head(Tail(todo[t])))
      BY <1>1, StepLeaves
    <2>3. \A b : FollowedBy("halt", b) => b = "reap"
      BY DEF FollowedBy
    <2> QED
      BY <1>1, <2>1, <2>2, <2>3 DEF GoesOn
  <1> QED
    BY <1>3, <1>4, <1>5, <1>6, CallGoesOn

LEMMA JoinInv == ASSUME IInv, NEW t \in Threads, Join(t) PROVE IInv'
  <1>1. PICK step \in {"join", "reap"} : At(t, step)
    BY DEF Join
  <1>2. on[t] \in Ports /\ todo[t] # <<>>
    BY <1>1, InCall
  <1>3. StateTyped
    BY Typed
  <1>4. UNCHANGED <<mode, opens, port, reader, owner, joined, fds, dead>> /\ ListStays
    BY DEF Join, listVars, readerVars, deviceVars, plugVars, ListStays
  <1>5. ReadersTyped' /\ DeviceTyped' /\ opens <= opens' /\ PortTyped'
    BY <1>3, <1>4, RestKept DEF StateTyped, PortTyped
  <1>6. /\ MineTyped' /\ mine'[t] = port[on[t]].thread /\ port[on[t]].thread \in 0..opens
        /\ \A q \in Threads \ {t} : mine'[q] = mine[q]
    <2>1. port[on[t]].thread \in 0..opens /\ port[on[t]].thread \in 0..MaxOpens
      BY <1>2, <1>3 DEF StateTyped, PortTyped, Port
    <2>2. mine' = [mine EXCEPT ![t] = port[on[t]].thread]
      BY DEF Join
    <2> QED
      BY <1>3, <2>1, <2>2 DEF StateTyped, MineTyped
  <1> DEFINE v == Tail(todo[t])
  <1>7. /\ v \in Seq(StepsOf(t)) /\ Linked(v) /\ Ended(v)
        /\ v # <<>> /\ Head(v) \in {"wait", "await"}
    BY <1>1, StepLeaves DEF FollowedBy, LastSteps
  <1>8. Goto(t, IF port[on[t]].thread = 0 THEN Tail(v) ELSE v)
    BY DEF Join
  <1> HIDE DEF v
  <1>9. CASE port[on[t]].thread = 0
    <2>1. /\ Tail(v) \in Seq(StepsOf(t)) /\ Linked(Tail(v)) /\ Ended(Tail(v))
          /\ Tail(v) # <<>> => Head(Tail(v)) \in {"shut", "stop"}
      BY <1>7, TailLinked DEF FollowedBy
    <2>2. GoesOn(t, Tail(v))
      BY <1>2, <1>6, <1>8, <1>9, <2>1 DEF GoesOn
    <2> QED
      BY <1>4, <1>5, <1>6, <2>2, CallGoesOn
  <1>10. CASE port[on[t]].thread # 0
    <2>1. mine'[t] \in 1..opens'
      BY <1>3, <1>4, <1>6, <1>10 DEF StateTyped, DeviceTyped
    <2>2. GoesOn(t, v)
      BY <1>2, <1>6, <1>7, <1>8, <1>10, <2>1 DEF GoesOn
    <2> QED
      BY <1>4, <1>5, <1>6, <2>2, CallGoesOn
  <1> QED
    BY <1>9, <1>10

LEMMA WaitInv == ASSUME IInv, NEW t \in Threads, Wait(t) PROVE IInv'
  <1>1. PICK step \in {"wait", "await"} : At(t, step)
    BY DEF Wait
  <1>2. on[t] \in Ports /\ todo[t] # <<>> /\ mine[t] \in 1..opens
    BY <1>1, InCall
  <1>3. StateTyped
    BY Typed
  <1>4. UNCHANGED <<opens, mine, reader, owner, fds, dead>> /\ ListStays
    BY DEF Wait, listVars, deviceVars, plugVars, ListStays
  <1>5. ReadersTyped' /\ MineTyped'
    BY <1>3, <1>4, RestKept DEF StateTyped
  <1>6. DeviceTyped' /\ opens <= opens'
    BY <1>2, <1>3, <1>4 DEF StateTyped, DeviceTyped, Wait
  <1>7. PortTyped'
    <2>1. CASE port' = port
      BY <1>3, <1>4, <2>1 DEF StateTyped, PortTyped
    <2>2. CASE port' = [port EXCEPT ![on[t]].thread = 0]
      <3> DEFINE r == [port[on[t]] EXCEPT !.thread = 0]
      <3>1. r \in Port /\ r.fd = port[on[t]].fd /\ r.thread = 0
        <4>1. port[on[t]] \in Port /\ 0 \in 0..MaxOpens
          BY <1>2, <1>3, PortAssumption DEF StateTyped, PortTyped
        <4> QED
          BY <4>1 DEF Port
      <3>2. port' = [port EXCEPT ![on[t]] = r] /\ 0 \in 0..opens'
        BY <1>3, <1>4, <2>2 DEF StateTyped, DeviceTyped
      <3> HIDE DEF r
      <3> QED
        BY <1>2, <1>3, <1>4, <3>1, <3>2, PortSet DEF StateTyped, PortTyped, DeviceTyped
    <2> QED
      BY <2>1, <2>2 DEF Wait
  <1>8. GoesOn(t, Tail(todo[t]))
    BY <1>1, <1>2, <1>4, StepLeaves DEF GoesOn, FollowedBy, Wait, Step
  <1> QED
    BY <1>4, <1>5, <1>6, <1>7, <1>8, CallGoesOn

\* close() of a port: no descriptor, not open.
LEMMA PortShut ==
    ASSUME StateTyped, NEW p \in Ports, port' = [port EXCEPT ![p].fd = 0, ![p].open = FALSE],
           UNCHANGED opens
    PROVE  /\ PortTyped' /\ port'[p].fd = 0 /\ port'[p].open = FALSE
           /\ port'[p].thread = port[p].thread
           /\ \A q \in Ports \ {p} : port'[q] = port[q]
  <1> DEFINE r == [port[p] EXCEPT !.fd = 0, !.open = FALSE]
  <1>1. r \in Port /\ r.fd = 0 /\ r.open = FALSE /\ r.thread = port[p].thread
    <2>1. port[p] \in Port /\ 0 \in 0..MaxOpens
      BY PortAssumption DEF StateTyped, PortTyped
    <2>2. \A x \in Port : LET y == [x EXCEPT !.fd = 0, !.open = FALSE] IN
            y \in Port /\ y.fd = 0 /\ y.open = FALSE /\ y.thread = x.thread
      BY <2>1 DEF Port
    <2> QED
      BY <2>1, <2>2
  <1>2. port' = [port EXCEPT ![p] = r] /\ 0 \in 0..opens'
    <2>1. 0 \in 0..opens'
      BY DEF StateTyped, DeviceTyped
    <2>2. port \in [Ports -> Port]
      BY DEF StateTyped, PortTyped
    <2>3. port' = [port EXCEPT ![p] = r]
      BY <2>2
    <2> QED
      BY <2>1, <2>3
  <1> HIDE DEF r
  <1>3. PortTyped' /\ port'[p] = r /\ \A q \in Ports \ {p} : port'[q] = port[q]
    BY <1>1, <1>2, PortSet DEF StateTyped, PortTyped, DeviceTyped
  <1> QED
    BY <1>1, <1>3

LEMMA ShutInv == ASSUME IInv, NEW t \in Threads, Shut(t) PROVE IInv'
  <1>1. At(t, "shut") /\ on[t] \in Ports /\ todo[t] # <<>>
    BY InCall DEF Shut
  <1>2. StateTyped
    BY Typed
  <1>3. UNCHANGED <<mode, opens, mine, reader, owner, joined, dead>> /\ ListStays
    BY DEF Shut, listVars, readerVars, plugVars, ListStays
  <1>4. MineTyped' /\ ReadersTyped'
    BY <1>2, <1>3, RestKept DEF StateTyped
  <1>5. DeviceTyped' /\ opens <= opens'
    BY <1>2, <1>3 DEF StateTyped, DeviceTyped, Shut
  <1>6. PortTyped'
    BY <1>1, <1>2, <1>3, PortShut DEF Shut
  <1>7. GoesOn(t, Tail(todo[t]))
    <2>1. Goto(t, Tail(todo[t])) /\ mine' = mine
      BY <1>3 DEF Shut, Step
    <2>2. /\ Tail(todo[t]) \in Seq(StepsOf(t)) /\ Linked(Tail(todo[t])) /\ Ended(Tail(todo[t]))
          /\ Tail(todo[t]) # <<>> => FollowedBy("shut", Head(Tail(todo[t])))
      BY <1>1, StepLeaves
    <2>3. \A b : FollowedBy("shut", b) => b \in {"open", "halt", "unlist"}
      BY DEF FollowedBy
    <2> QED
      BY <1>1, <2>1, <2>2, <2>3 DEF GoesOn
  <1> QED
    BY <1>3, <1>4, <1>5, <1>6, <1>7, CallGoesOn

\* A call that gives up ends, or destroys what it has created.
LEMMA GivesUp ==
    ASSUME IInv, NEW t \in Threads, GiveUp(t), todo[t] # <<>>, UNCHANGED mine
    PROVE  \E u : GoesOn(t, u) /\ (u # <<>> => Head(u) = "halt")
  <1> DEFINE u == IF t = "ubus" /\ fresh THEN Destroy ELSE <<>>
  <1>1. /\ u \in Seq(StepsOf(t)) /\ Linked(u) /\ Ended(u)
        /\ u # <<>> => Head(u) = "halt"
    <2>1. CASE t = "ubus" /\ fresh
      BY <2>1, CallsLinked DEF StepsOf
    <2>2. CASE ~(t = "ubus" /\ fresh)
      <3>1. <<>> \in Seq(StepsOf(t)) /\ Linked(<<>>) /\ Ended(<<>>)
        BY DEF Linked, Ended
      <3> QED
        BY <2>2, <3>1
    <2> QED
      BY <2>1, <2>2
  <1>2. Goto(t, u)
    BY DEF GiveUp
  <1> HIDE DEF u
  <1>3. GoesOn(t, u)
    BY <1>1, <1>2 DEF GoesOn
  <1> QED
    BY <1>1, <1>3

LEMMA OpenInv == ASSUME IInv, NEW t \in Threads, OpenDevice(t) PROVE IInv'
  <1>1. At(t, "open") /\ on[t] \in Ports /\ todo[t] # <<>>
    BY InCall DEF OpenDevice
  <1>2. StateTyped
    BY Typed
  <1>3. UNCHANGED <<mode, reader, owner, joined, dead>> /\ ListStays
    BY DEF OpenDevice, listVars, readerVars, plugVars, ListStays
  <1>4. ReadersTyped'
    BY <1>2, <1>3, RestKept DEF StateTyped
  <1>5. CASE GiveUp(t) /\ UNCHANGED <<opens, fds, port, mine>>
    <2>1. MineTyped' /\ DeviceTyped' /\ opens <= opens' /\ PortTyped'
      BY <1>2, <1>3, <1>5, RestKept DEF StateTyped, PortTyped
    <2> QED
      BY <1>1, <1>3, <1>4, <1>5, <2>1, GivesUp, CallGoesOn
  <1>6. CASE GiveUp(t) /\ port' = [port EXCEPT ![on[t]].fd = 0] /\ UNCHANGED <<opens, fds, mine>>
    <2>1. MineTyped' /\ DeviceTyped' /\ opens <= opens'
      BY <1>2, <1>3, <1>6, RestKept DEF StateTyped
    <2>2. PortTyped'
      <3> DEFINE r == [port[on[t]] EXCEPT !.fd = 0]
      <3>1. r \in Port /\ r.fd = 0 /\ r.thread = port[on[t]].thread
        BY <1>1, <1>2, PortAssumption DEF StateTyped, PortTyped, Port
      <3>2. port' = [port EXCEPT ![on[t]] = r] /\ 0 \in 0..opens'
        BY <1>2, <1>6 DEF StateTyped, DeviceTyped
      <3> HIDE DEF r
      <3> QED
        BY <1>1, <1>2, <1>6, <3>1, <3>2, PortSet DEF StateTyped, PortTyped, DeviceTyped
    <2> QED
      BY <1>1, <1>3, <1>4, <1>6, <2>1, <2>2, GivesUp, CallGoesOn
  <1>7. CASE /\ opens < MaxOpens /\ Step(t)
             /\ opens' = opens + 1 /\ fds' = fds \cup {opens'}
             /\ port' = [port EXCEPT ![on[t]].fd = opens']
             /\ mine' = [mine EXCEPT ![t] = opens']
    <2>1. DeviceTyped' /\ opens <= opens' /\ opens' \in 1..opens' /\ opens' \in 0..MaxOpens
      BY <1>2, <1>3, <1>7, PortAssumption DEF StateTyped, DeviceTyped
    <2>2. MineTyped' /\ mine'[t] = opens' /\ \A q \in Threads \ {t} : mine'[q] = mine[q]
      BY <1>2, <1>7, <2>1 DEF StateTyped, MineTyped
    <2>3. PortTyped'
      <3> DEFINE r == [port[on[t]] EXCEPT !.fd = opens']
      <3>1. r \in Port /\ r.fd = opens' /\ r.thread = port[on[t]].thread
        BY <1>1, <1>2, <2>1 DEF StateTyped, PortTyped, Port
      <3>2. port' = [port EXCEPT ![on[t]] = r]
        BY <1>7
      <3>3. r.fd \in 0..opens' /\ r.thread \in 0..opens'
        BY <1>1, <1>2, <1>7, <3>1 DEF StateTyped, PortTyped, DeviceTyped
      <3> HIDE DEF r
      <3> QED
        BY <1>1, <1>2, <2>1, <3>1, <3>2, <3>3, PortSet DEF StateTyped, DeviceTyped
    <2>4. GoesOn(t, Tail(todo[t]))
      BY <1>1, <1>7, <2>1, <2>2, StepLeaves DEF GoesOn, FollowedBy, Step
    <2> QED
      BY <1>3, <1>4, <2>1, <2>2, <2>3, <2>4, CallGoesOn
  <1> QED
    BY <1>5, <1>6, <1>7 DEF OpenDevice

LEMMA MarkInv == ASSUME IInv, NEW t \in Threads, Mark(t) PROVE IInv'
  <1>1. At(t, "mark") /\ on[t] \in Ports /\ todo[t] # <<>> /\ mine[t] \in 1..opens
    BY InCall DEF Mark
  <1>2. StateTyped
    BY Typed
  <1>3. UNCHANGED <<mode, opens, mine, reader, owner, joined, fds, dead>> /\ ListStays
    BY DEF Mark, listVars, readerVars, deviceVars, plugVars, ListStays
  <1>4. MineTyped' /\ ReadersTyped' /\ DeviceTyped' /\ opens <= opens'
    BY <1>2, <1>3, RestKept DEF StateTyped
  <1>5. PortTyped'
    <2> DEFINE r == [port[on[t]] EXCEPT !.open = TRUE, !.stop = FALSE]
    <2>1. r \in Port /\ r.fd = port[on[t]].fd /\ r.thread = port[on[t]].thread
      BY <1>1, <1>2 DEF StateTyped, PortTyped, Port
    <2>2. port' = [port EXCEPT ![on[t]] = r]
      BY DEF Mark
    <2> HIDE DEF r
    <2> QED
      BY <1>1, <1>2, <1>3, <2>1, <2>2, PortSet DEF StateTyped, PortTyped, DeviceTyped
  <1>6. GoesOn(t, Tail(todo[t]))
    BY <1>1, <1>3, StepLeaves DEF GoesOn, FollowedBy, Mark, Step
  <1> QED
    BY <1>3, <1>4, <1>5, <1>6, CallGoesOn

LEMMA SpawnInv == ASSUME IInv, NEW t \in Threads, Spawn(t) PROVE IInv'
  <1>1. At(t, "spawn") /\ on[t] \in Ports /\ todo[t] # <<>> /\ mine[t] \in 1..opens
    BY InCall DEF Spawn
  <1>2. StateTyped
    BY Typed
  <1>3. UNCHANGED <<mode, opens, mine, joined, dead>> /\ ListStays
    BY DEF Spawn, listVars, plugVars, ListStays
  <1>4. MineTyped' /\ DeviceTyped' /\ opens <= opens'
    BY <1>2, <1>3, RestKept DEF StateTyped, DeviceTyped, Spawn
  <1>5. CASE /\ reader' = [reader EXCEPT ![mine[t]] = "test"]
             /\ owner' = [owner EXCEPT ![mine[t]] = on[t]]
             /\ port' = [port EXCEPT ![on[t]].thread = mine[t]]
             /\ Goto(t, <<>>)
    <2>1. mine[t] \in Openings /\ mine[t] \in 0..MaxOpens
      <3>1. opens \in 0..MaxOpens /\ MaxOpens \in Nat
        BY <1>2, PortAssumption DEF StateTyped, DeviceTyped
      <3> QED
        BY <1>1, <3>1 DEF Openings
    <2>2. ReadersTyped'
      BY <1>1, <1>2, <1>5, <2>1, PortAssumption DEF StateTyped, ReadersTyped, Alive, Ports
    <2>3. PortTyped'
      <3> DEFINE r == [port[on[t]] EXCEPT !.thread = mine[t]]
      <3>1. r \in Port /\ r.fd = port[on[t]].fd /\ r.thread = mine[t]
        BY <1>1, <1>2, <2>1 DEF StateTyped, PortTyped, Port
      <3>2. port' = [port EXCEPT ![on[t]] = r]
        BY <1>5
      <3>3. r.fd \in 0..opens' /\ r.thread \in 0..opens'
        BY <1>1, <1>2, <1>3, <3>1 DEF StateTyped, PortTyped, DeviceTyped
      <3> HIDE DEF r
      <3> QED
        BY <1>1, <1>2, <1>3, <1>4, <3>1, <3>2, <3>3, PortSet DEF StateTyped, DeviceTyped
    <2>4. GoesOn(t, <<>>)
      BY <1>1, <1>3, <1>5 DEF GoesOn, Linked, Ended
    <2> QED
      BY <1>3, <1>4, <2>2, <2>3, <2>4, CallGoesOn
  <1>6. CASE /\ port' = [port EXCEPT ![on[t]].fd = 0, ![on[t]].open = FALSE]
             /\ GiveUp(t) /\ UNCHANGED <<reader, owner>>
    <2>1. ReadersTyped' /\ PortTyped'
      BY <1>1, <1>2, <1>3, <1>6, RestKept, PortShut DEF StateTyped
    <2> QED
      BY <1>1, <1>3, <1>4, <1>6, <2>1, GivesUp, CallGoesOn
  <1> QED
    BY <1>5, <1>6 DEF Spawn

\* The rest of the state.
RestTyped ==
    /\ mutex \in Threads \cup {"free"}
    /\ mode \in {"serving", "stopping", "cleaning", "ended", "crashed"}
    /\ fresh \in BOOLEAN /\ checked \in BOOLEAN /\ present \in BOOLEAN /\ watched \in BOOLEAN
    /\ unplugs \in 0..MaxUnplugs

LEMMA RestIsTyped == ASSUME IInv PROVE RestTyped
  <1>1. TypeOK
    BY DEF IInv, ListIsAllocated
  <1>2. fresh \in BOOLEAN /\ checked \in BOOLEAN /\ present \in BOOLEAN /\ watched \in BOOLEAN
    BY <1>1, Zenon DEF TypeOK
  <1> QED
    BY <1>1, <1>2 DEF TypeOK, RestTyped

\* What the list holds is allocated, also for the monitor.
Allocated == listed \notin freed /\ (on["monitor"] # 0 => on["monitor"] \notin freed)

LEMMA Together ==
    ASSUME StateTyped', RestTyped', Calls', listed' <= made', MonitorHolds', FreedIsUnlisted', Allocated'
    PROVE  IInv'
  <1>1. TypeOK'
    <2>1. PortTyped' /\ MineTyped' /\ ReadersTyped' /\ DeviceTyped' /\ ListTyped'
      BY DEF StateTyped
    <2>2. \A q \in Threads : \A i \in 1..Len(todo'[q]) : todo'[q][i] \in Steps
      BY DEF Calls
    <2>3. /\ port' \in [Ports -> Port] /\ mine' \in [Threads -> 0..MaxOpens]
          /\ reader' \in [Openings -> {"none", "test", "read", "done"}]
          /\ owner' \in [Openings -> 0..MaxPorts] /\ opens' \in 0..MaxOpens
          /\ joined' \subseteq 1..opens' /\ fds' \subseteq 1..opens' /\ dead' \subseteq 1..opens'
      BY <2>1 DEF PortTyped, MineTyped, ReadersTyped, DeviceTyped
    <2>4. /\ listed' \in 0..MaxPorts /\ made' \in 0..MaxPorts /\ freed' \subseteq 1..made'
          /\ on' \in [Threads -> 0..MaxPorts]
      BY <2>1, PortAssumption DEF ListTyped
    <2>5. fresh' \in BOOLEAN /\ checked' \in BOOLEAN /\ present' \in BOOLEAN /\ watched' \in BOOLEAN
      BY Zenon DEF RestTyped
    <2>6. /\ mutex' \in Threads \cup {"free"} /\ unplugs' \in 0..MaxUnplugs
          /\ mode' \in {"serving", "stopping", "cleaning", "ended", "crashed"}
      BY DEF RestTyped
    <2> QED
      BY <2>2, <2>3, <2>4, <2>5, <2>6 DEF TypeOK, Port
  <1>2. Numbers'
    BY DEF StateTyped, PortTyped, ReadersTyped, Numbers
  <1> QED
    BY <1>1, <1>2 DEF IInv, ListIsAllocated, Allocated

\* Nothing but the places of threads outside a call changes.
LEMMA SameCalls ==
    ASSUME IInv, UNCHANGED <<todo, made, opens>>,
           \A t \in Threads : todo[t] # <<>> => on'[t] = on[t] /\ mine'[t] = mine[t]
    PROVE  Calls'
  <1>1. todo' \in [Threads -> Seq(Steps)] /\ todo'["monitor"] \in Seq(MonitorSteps)
    BY DEF IInv, Calls
  <1>2. ASSUME NEW t \in Threads
        PROVE  /\ Linked(todo'[t]) /\ Ended(todo'[t])
               /\ todo'[t] # <<>> => on'[t] \in Ports /\ on'[t] <= made'
               /\ Before(t, {"wait", "await", "mark", "spawn"})' => mine'[t] \in 1..opens'
    BY DEF IInv, Calls, Before
  <1> QED
    BY <1>1, <1>2 DEF Calls

LEMMA ListKept == ListTyped /\ UNCHANGED <<listed, made, freed, on>> => ListTyped'
  BY DEF ListTyped

LEMMA UnlistInv == ASSUME IInv, NEW t \in Threads, Unlist(t) PROVE IInv'
  <1>1. At(t, "unlist") /\ t = "ubus" /\ on[t] \in Ports /\ on[t] <= made /\ mutex = "free"
    BY InCall DEF Unlist, IInv, Calls
  <1>2. /\ StateTyped /\ RestTyped /\ listed' = 0
        /\ UNCHANGED <<made, freed, port, mutex, mode, on, mine, fresh, checked, reader, owner,
                       joined, opens, fds, dead, present, unplugs, watched>>
    BY Typed, RestIsTyped DEF Unlist, readerVars, deviceVars, plugVars
  <1>3. StateTyped' /\ RestTyped' /\ listed' <= made'
    <2>1. PortTyped' /\ MineTyped' /\ ReadersTyped' /\ DeviceTyped'
      BY <1>2, RestKept DEF StateTyped, PortTyped
    <2>2. ListTyped' /\ listed' <= made'
      BY <1>2, PortAssumption DEF StateTyped, ListTyped
    <2>3. RestTyped'
      BY <1>2 DEF RestTyped
    <2> QED
      BY <2>1, <2>2, <2>3 DEF StateTyped
  <1>4. Calls'
    <2>1. /\ Tail(todo[t]) \in Seq(StepsOf(t)) /\ Linked(Tail(todo[t])) /\ Ended(Tail(todo[t]))
          /\ Goto(t, Tail(todo[t]))
          /\ Tail(todo[t]) # <<>> => Head(Tail(todo[t])) = "free"
      BY <1>1, StepLeaves DEF FollowedBy, Unlist, Step
    <2>2. on' \in [Threads -> 0..MaxPorts] /\ made' \in Nat /\ opens' \in Nat /\ made <= made' /\ opens <= opens'
      BY <1>2, <1>3 DEF StateTyped, ListTyped, DeviceTyped
    <2> QED
      BY <1>1, <1>2, <2>1, <2>2, GotoCalls
  <1>5. on'["monitor"] = 0 /\ MonitorHolds'
    BY <1>1, <1>2 DEF IInv, MonitorHolds
  <1>6. FreedIsUnlisted' /\ Allocated'
    BY <1>2, <1>5 DEF FreedIsUnlisted, Allocated, StateTyped, ListTyped
  <1> QED
    BY <1>3, <1>4, <1>5, <1>6, Together

LEMMA FreeInv == ASSUME IInv, NEW t \in Threads, Free(t) PROVE IInv'
  <1>1. At(t, "free") /\ t = "ubus" /\ on[t] \in Ports /\ on[t] \in 1..made
    BY InCall DEF Free
  <1>2. /\ StateTyped /\ RestTyped /\ freed' = freed \cup {on[t]}
        /\ UNCHANGED <<listed, made, port, mutex, mode, on, mine, fresh, checked, reader, owner,
                       joined, opens, fds, dead, present, unplugs, watched>>
    BY Typed, RestIsTyped DEF Free, readerVars, deviceVars, plugVars
  <1>3. StateTyped' /\ RestTyped' /\ listed' <= made'
    <2>1. PortTyped' /\ MineTyped' /\ ReadersTyped' /\ DeviceTyped'
      BY <1>2, RestKept DEF StateTyped, PortTyped
    <2>2. ListTyped' /\ listed' <= made'
      BY <1>1, <1>2 DEF StateTyped, ListTyped, IInv, Numbers
    <2>3. RestTyped'
      BY <1>2 DEF RestTyped
    <2> QED
      BY <2>1, <2>2, <2>3 DEF StateTyped
  <1>4. Calls' /\ FreedIsUnlisted'
    <2>1. /\ Tail(todo[t]) \in Seq(StepsOf(t)) /\ Linked(Tail(todo[t])) /\ Ended(Tail(todo[t]))
          /\ Goto(t, Tail(todo[t])) /\ Tail(todo[t]) = <<>>
      BY <1>1, StepLeaves DEF FollowedBy, Free, Step
    <2>2. on' \in [Threads -> 0..MaxPorts] /\ made' \in Nat /\ opens' \in Nat /\ made <= made' /\ opens <= opens'
      BY <1>2, <1>3 DEF StateTyped, ListTyped, DeviceTyped
    <2>3. Calls' /\ todo'[t] = <<>>
      BY <1>1, <1>2, <2>1, <2>2, GotoCalls
    <2> QED
      BY <1>1, <2>3 DEF FreedIsUnlisted, Before
  <1>5. listed = 0
    BY <1>1 DEF At, IInv, FreedIsUnlisted, Before
  <1>6. MonitorHolds' /\ on'["monitor"] = 0
    BY <1>2, <1>5 DEF IInv, MonitorHolds
  <1>7. Allocated'
    <2>1. 0 \notin freed' 
      BY <1>1, <1>2 DEF StateTyped, ListTyped
    <2> QED
      BY <1>2, <1>5, <1>6, <2>1 DEF Allocated
  <1> QED
    BY <1>3, <1>4, <1>6, <1>7, Together

LEMMA CallStepInv == ASSUME IInv, NEW t \in Threads, CallStep(t) PROVE IInv'
  BY StopInv, HaltInv, JoinInv, WaitInv, ShutInv, OpenInv, MarkInv, SpawnInv, UnlistInv, FreeInv
  DEF CallStep

\* A call of the ubus thread begins: the instance it is about is the one in the list.
LEMMA BeginInv ==
    ASSUME IInv, NEW steps \in Seq(Steps), Linked(steps), Ended(steps), steps # <<>>,
           Head(steps) = "stop", NEW new \in BOOLEAN, Begin(steps, new)
    PROVE  IInv'
  <1>1. /\ StateTyped /\ RestTyped /\ mutex = "free" /\ on["monitor"] = 0
        /\ UNCHANGED <<freed, port, mutex, mode, mine, reader, owner, joined, opens, fds, dead,
                       present, unplugs, watched>>
    BY Typed, RestIsTyped DEF Begin, readerVars, deviceVars, plugVars, IInv, MonitorHolds
  <1>2. "ubus" \in Threads /\ "monitor" \in Threads \ {"ubus"}
    BY DEF Threads
  <1>3. /\ listed \in 0..MaxPorts /\ listed <= made /\ made \in Nat /\ made <= MaxPorts
        /\ freed \subseteq 1..made /\ on \in [Threads -> 0..MaxPorts] /\ listed \notin freed
    BY <1>1 DEF StateTyped, ListTyped, IInv, Numbers, ListIsAllocated
  <1>4. /\ listed' \in 1..MaxPorts /\ listed' \notin freed /\ made' \in Nat /\ made <= made'
        /\ made' <= MaxPorts /\ listed' <= made' /\ on' = [on EXCEPT !["ubus"] = listed']
    <2>1. CASE listed = 0
      <3>1. made < MaxPorts /\ made' = made + 1 /\ listed' = made' /\ on' = [on EXCEPT !["ubus"] = made + 1]
        BY <2>1 DEF Begin
      <3>2. made + 1 \notin freed
        BY <1>3
      <3> QED
        BY <1>3, <3>1, <3>2, PortAssumption
    <2>2. CASE listed # 0
      <3>1. made' = made /\ listed' = listed /\ on' = [on EXCEPT !["ubus"] = listed]
        BY <2>2 DEF Begin
      <3> QED
        BY <1>3, <2>2, <3>1, PortAssumption
    <2> QED
      BY <2>1, <2>2
  <1>5. on' \in [Threads -> 0..MaxPorts] /\ on'["ubus"] = listed' /\ on'["monitor"] = 0
        /\ \A q \in Threads \ {"ubus"} : on'[q] = on[q]
    BY <1>1, <1>2, <1>3, <1>4, PortAssumption
  <1>6. ListTyped'
    <2>1. freed' \subseteq 1..made' /\ listed' \in 0..MaxPorts
      BY <1>1, <1>3, <1>4
    <2> QED
      BY <1>4, <1>5, <2>1 DEF ListTyped
  <1>7. StateTyped'
    BY <1>1, <1>6, RestKept DEF StateTyped, PortTyped
  <1>8. RestTyped'
    <2>1. fresh' \in BOOLEAN /\ checked' \in BOOLEAN
      BY Zenon DEF Begin
    <2> QED
      BY <1>1, <2>1 DEF RestTyped
  <1>9. Calls' /\ todo'["ubus"] = steps
    <2>1. Goto("ubus", steps) /\ steps \in Seq(StepsOf("ubus"))
      BY DEF Begin, StepsOf
    <2>2. opens' \in Nat /\ opens <= opens'
      BY <1>1 DEF StateTyped, DeviceTyped
    <2>3. on'["ubus"] \in Ports /\ on'["ubus"] <= made'
      BY <1>4, <1>5 DEF Ports
    <2> QED
      BY <1>1, <1>2, <1>4, <1>5, <2>1, <2>2, <2>3, GotoCalls
  <1>10. FreedIsUnlisted' /\ MonitorHolds' /\ Allocated'
    BY <1>1, <1>4, <1>5, <1>9 DEF FreedIsUnlisted, Before, MonitorHolds, Allocated
  <1> QED
    BY <1>4, <1>7, <1>8, <1>9, <1>10, Together

LEMMA UbusInv == ASSUME IInv, UbusOpen \/ UbusSendat \/ UbusClose PROVE IInv'
  <1>1. /\ Open \in Seq(Steps) /\ Linked(Open) /\ Ended(Open) /\ Open # <<>> /\ Head(Open) = "stop"
    BY CallsLinked DEF MonitorSteps, Steps
  <1>2. /\ Close \o Destroy \in Seq(Steps) /\ Linked(Close \o Destroy) /\ Ended(Close \o Destroy)
        /\ Close \o Destroy # <<>> /\ Head(Close \o Destroy) = "stop"
    BY CallsLinked
  <1>3. CASE UbusOpen
    <2>1. Begin(Open, TRUE)
      BY <1>3 DEF UbusOpen
    <2> QED
      BY <1>1, <2>1, BeginInv
  <1>4. CASE UbusSendat
    <2>1. Begin(Open, FALSE)
      BY <1>4 DEF UbusSendat
    <2> QED
      BY <1>1, <2>1, BeginInv
  <1>5. CASE UbusClose
    <2>1. Begin(Close \o Destroy, FALSE)
      BY <1>5 DEF UbusClose
    <2> QED
      BY <1>2, <2>1, BeginInv
  <1> QED
    BY <1>3, <1>4, <1>5

LEMMA ReplyInv == ASSUME IInv, UbusReply PROVE IInv'
  <1>1. /\ StateTyped /\ RestTyped /\ todo["ubus"] = <<>> /\ "ubus" \in Threads
        /\ on' = [on EXCEPT !["ubus"] = 0] /\ mine' = [mine EXCEPT !["ubus"] = 0]
        /\ fresh' = FALSE /\ checked' = FALSE
        /\ UNCHANGED <<listed, made, freed, port, mutex, mode, todo, reader, owner, joined, opens,
                       fds, dead, present, unplugs, watched>>
    BY Typed, RestIsTyped DEF UbusReply, listVars, readerVars, deviceVars, plugVars, Threads
  <1>2. on \in [Threads -> 0..MaxPorts] /\ mine \in [Threads -> 0..MaxOpens] /\ 0 \in 0..MaxPorts /\ 0 \in 0..MaxOpens
    BY <1>1, PortAssumption DEF StateTyped, ListTyped, MineTyped
  <1>3. /\ on' \in [Threads -> 0..MaxPorts] /\ mine' \in [Threads -> 0..MaxOpens]
        /\ \A t \in Threads \ {"ubus"} : on'[t] = on[t] /\ mine'[t] = mine[t]
    BY <1>1, <1>2
  <1>4. StateTyped'
    BY <1>1, <1>3, RestKept DEF StateTyped, PortTyped, MineTyped, ListTyped
  <1>5. RestTyped'
    <2>1. fresh' \in BOOLEAN /\ checked' \in BOOLEAN
      BY <1>1, Zenon
    <2> QED
      BY <1>1, <2>1 DEF RestTyped
  <1>6. Calls'
    <2>1. \A t \in Threads : todo[t] # <<>> => on'[t] = on[t] /\ mine'[t] = mine[t]
      BY <1>1, <1>3
    <2> QED
      BY <1>1, <2>1, SameCalls
  <1>7. on'["monitor"] = on["monitor"]
    BY <1>3 DEF Threads
  <1>8. listed' <= made' /\ FreedIsUnlisted' /\ MonitorHolds' /\ Allocated'
    BY <1>1, <1>7 DEF IInv, Numbers, FreedIsUnlisted, Before, MonitorHolds, ListIsAllocated, Allocated
  <1> QED
    BY <1>4, <1>5, <1>6, <1>8, Together

\* The daemon is told to stop, cleans up and ends.
LEMMA StopDaemonInv == ASSUME IInv, Terminate \/ Exit PROVE IInv'
  <1>1. /\ StateTyped /\ RestTyped
        /\ UNCHANGED <<listed, made, freed, port, todo, on, mine, fresh, checked, reader, owner,
                       joined, opens, fds, dead, present, unplugs, watched>>
    BY Typed, RestIsTyped DEF Terminate, Exit, listVars, callVars, readerVars, deviceVars, plugVars
  <1>2. \/ mode' = "stopping" /\ mutex' = mutex
        \/ mode = "cleaning" /\ mode' = "ended" /\ mutex' = "free"
    BY DEF Terminate, Exit
  <1>3. StateTyped'
    BY <1>1, RestKept, ListKept DEF StateTyped, PortTyped
  <1>4. RestTyped'
    BY <1>1, <1>2 DEF RestTyped
  <1>5. Calls'
    BY <1>1, SameCalls
  <1>6. MonitorHolds'
    BY <1>1, <1>2 DEF IInv, MonitorHolds
  <1>7. listed' <= made' /\ FreedIsUnlisted' /\ Allocated'
    BY <1>1 DEF IInv, Numbers, FreedIsUnlisted, Before, ListIsAllocated, Allocated
  <1> QED
    BY <1>3, <1>4, <1>5, <1>6, <1>7, Together

LEMMA CleanupInv == ASSUME IInv, Cleanup PROVE IInv'
  <1>1. /\ StateTyped /\ RestTyped /\ mode' = "cleaning" /\ mutex' = "ubus" /\ on["monitor"] = 0
        /\ on' = [on EXCEPT !["ubus"] = listed] /\ "ubus" \in Threads /\ "monitor" \in Threads \ {"ubus"}
        /\ UNCHANGED <<listed, made, freed, port, mine, fresh, checked, reader, owner,
                       joined, opens, fds, dead, present, unplugs, watched>>
    BY Typed, RestIsTyped
    DEF Cleanup, Idle, listVars, readerVars, deviceVars, plugVars, Threads
  <1>2. /\ listed \in 0..MaxPorts /\ listed <= made /\ made \in Nat /\ on \in [Threads -> 0..MaxPorts]
        /\ opens \in Nat
    BY <1>1 DEF StateTyped, ListTyped, DeviceTyped, IInv, Numbers
  <1>3. /\ on' \in [Threads -> 0..MaxPorts] /\ on'["ubus"] = listed /\ on'["monitor"] = 0
        /\ \A q \in Threads \ {"ubus"} : on'[q] = on[q]
    BY <1>1, <1>2
  <1>4. StateTyped'
    BY <1>1, <1>3, RestKept DEF StateTyped, PortTyped, ListTyped
  <1>5. RestTyped'
    BY <1>1 DEF RestTyped
  <1> DEFINE u == IF listed = 0 THEN <<>> ELSE Destroy
  <1>6. /\ u \in Seq(StepsOf("ubus")) /\ Linked(u) /\ Ended(u)
        /\ u # <<>> => Head(u) = "halt" /\ listed \in Ports
    <2>1. CASE listed = 0
      BY <2>1 DEF Linked, Ended
    <2>2. CASE listed # 0
      BY <1>2, <2>2, CallsLinked DEF StepsOf, Ports
    <2> QED
      BY <2>1, <2>2
  <1>7. Goto("ubus", u)
    BY DEF Cleanup
  <1> HIDE DEF u
  <1>8. Calls' /\ todo'["ubus"] = u
    BY <1>1, <1>2, <1>3, <1>6, <1>7, GotoCalls
  <1>9. FreedIsUnlisted' /\ MonitorHolds'
    BY <1>3, <1>6, <1>8 DEF FreedIsUnlisted, Before, MonitorHolds
  <1>10. listed' <= made' /\ Allocated'
    BY <1>1, <1>3 DEF IInv, Numbers, ListIsAllocated, Allocated
  <1> QED
    BY <1>4, <1>5, <1>8, <1>9, <1>10, Together

\* The monitor takes the mutex and is at what the list holds.
LEMMA MonitorCheckInv == ASSUME IInv, MonitorCheck PROVE IInv'
  <1>1. /\ StateTyped /\ RestTyped /\ mutex' = "monitor" /\ mode' = "serving" /\ listed # 0
        /\ on' = [on EXCEPT !["monitor"] = listed] /\ "monitor" \in Threads /\ "ubus" \in Threads \ {"monitor"}
        /\ UNCHANGED <<listed, made, freed, port, mode, mine, fresh, reader, owner,
                       joined, opens, fds, dead, present, unplugs, watched>>
    BY Typed, RestIsTyped DEF MonitorCheck, listVars, readerVars, deviceVars, plugVars, Threads
  <1>2. /\ listed \in 0..MaxPorts /\ listed <= made /\ made \in Nat /\ on \in [Threads -> 0..MaxPorts]
        /\ opens \in Nat
    BY <1>1 DEF StateTyped, ListTyped, DeviceTyped, IInv, Numbers
  <1>3. /\ on' \in [Threads -> 0..MaxPorts] /\ on'["monitor"] = listed /\ listed \in Ports
        /\ \A q \in Threads \ {"monitor"} : on'[q] = on[q]
    BY <1>1, <1>2, PortAssumption DEF Ports
  <1>4. StateTyped'
    BY <1>1, <1>3, RestKept DEF StateTyped, PortTyped, ListTyped
  <1>5. RestTyped'
    <2>1. checked' \in BOOLEAN
      BY Zenon DEF MonitorCheck, Idle
    <2> QED
      BY <1>1, <2>1 DEF RestTyped
  <1>6. PICK u \in {<<>>, Close, Open} : Goto("monitor", u)
    BY DEF MonitorCheck
  <1>7. /\ u \in Seq(StepsOf("monitor")) /\ Linked(u) /\ Ended(u)
        /\ u # <<>> => Head(u) = "stop"
    <2>1. <<>> \in Seq(MonitorSteps) /\ Linked(<<>>) /\ Ended(<<>>)
      BY DEF Linked, Ended
    <2> QED
      BY <1>6, <2>1, CallsLinked DEF StepsOf
  <1>8. Calls' /\ \A q \in Threads \ {"monitor"} : todo'[q] = todo[q]
    BY <1>1, <1>2, <1>3, <1>6, <1>7, GotoCalls
  <1>9. FreedIsUnlisted'
    BY <1>1, <1>8 DEF IInv, FreedIsUnlisted, Before
  <1>10. MonitorHolds'
    BY <1>1, <1>3 DEF MonitorHolds
  <1>11. listed' <= made' /\ Allocated'
    BY <1>1, <1>3 DEF IInv, Numbers, ListIsAllocated, Allocated
  <1> QED
    BY <1>4, <1>5, <1>8, <1>9, <1>10, <1>11, Together

LEMMA MonitorDoneInv == ASSUME IInv, MonitorDone PROVE IInv'
  <1>1. /\ StateTyped /\ RestTyped /\ todo["monitor"] = <<>> /\ mutex' = "free"
        /\ on' = [on EXCEPT !["monitor"] = 0] /\ mine' = [mine EXCEPT !["monitor"] = 0]
        /\ "monitor" \in Threads
        /\ UNCHANGED <<listed, made, freed, port, mode, todo, fresh, checked, reader, owner, joined,
                       opens, fds, dead, present, unplugs, watched>>
    BY Typed, RestIsTyped DEF MonitorDone, listVars, readerVars, deviceVars, plugVars, Threads
  <1>2. on \in [Threads -> 0..MaxPorts] /\ mine \in [Threads -> 0..MaxOpens] /\ 0 \in 0..MaxPorts /\ 0 \in 0..MaxOpens
    BY <1>1, PortAssumption DEF StateTyped, ListTyped, MineTyped
  <1>3. /\ on' \in [Threads -> 0..MaxPorts] /\ mine' \in [Threads -> 0..MaxOpens] /\ on'["monitor"] = 0
        /\ \A t \in Threads \ {"monitor"} : on'[t] = on[t] /\ mine'[t] = mine[t]
    BY <1>1, <1>2
  <1>4. StateTyped'
    BY <1>1, <1>3, RestKept DEF StateTyped, PortTyped, MineTyped, ListTyped
  <1>5. RestTyped'
    BY <1>1 DEF RestTyped
  <1>6. Calls'
    <2>1. \A t \in Threads : todo[t] # <<>> => on'[t] = on[t] /\ mine'[t] = mine[t]
      BY <1>1, <1>3
    <2> QED
      BY <1>1, <2>1, SameCalls
  <1>7. listed' <= made' /\ FreedIsUnlisted' /\ MonitorHolds' /\ Allocated'
    BY <1>1, <1>3 DEF IInv, Numbers, FreedIsUnlisted, Before, MonitorHolds, ListIsAllocated, Allocated
  <1> QED
    BY <1>4, <1>5, <1>6, <1>7, Together

\* The readers and the device leave the list and the calls alone.
LEMMA OutsideInv ==
    ASSUME IInv, UNCHANGED <<listed, made, freed, mutex, todo, on, mine, fresh, checked, opens, watched>>,
           StateTyped', RestTyped', mode' \in {mode, "crashed"}
    PROVE  IInv'
  <1>1. Calls'
    BY SameCalls
  <1>2. listed' <= made' /\ FreedIsUnlisted' /\ MonitorHolds' /\ Allocated'
    BY DEF IInv, Numbers, FreedIsUnlisted, Before, MonitorHolds, ListIsAllocated, Allocated
  <1> QED
    BY <1>1, <1>2, Together

LEMMA ReaderInv == ASSUME IInv, NEW n \in Openings, ReaderStep(n) \/ ReaderCrashes(n) PROVE IInv'
  <1>1. /\ StateTyped /\ RestTyped /\ mode' \in {mode, "crashed"}
        /\ UNCHANGED <<listed, made, freed, mutex, todo, on, mine, fresh, checked, owner, joined,
                       opens, fds, dead, present, unplugs, watched>>
    BY Typed, RestIsTyped
    DEF ReaderStep, ReaderTest, ReaderRead, ReaderCrashes, listVars, callVars, readerVars, deviceVars, plugVars
  <1>2. MineTyped' /\ DeviceTyped' /\ ListTyped' /\ RestTyped'
    BY <1>1, RestKept, ListKept DEF StateTyped, RestTyped
  <1>3. ReadersTyped'
    <2>1. UNCHANGED reader \/ \E to \in {"test", "read", "done"} :
            Alive(n) /\ reader' = [reader EXCEPT ![n] = to]
      BY DEF ReaderStep, ReaderTest, ReaderRead, ReaderCrashes, readerVars, Alive
    <2> QED
      BY <1>1, <2>1 DEF StateTyped, ReadersTyped, Alive
  <1>4. PortTyped'
    <2>1. CASE UNCHANGED port
      BY <1>1, <2>1 DEF StateTyped, PortTyped
    <2>2. CASE Alive(n) /\ port' = [port EXCEPT ![owner[n]].open = FALSE]
      <3> DEFINE p == owner[n]
                 r == [port[p] EXCEPT !.open = FALSE]
      <3>1. p \in Ports
        BY <1>1, <2>2 DEF StateTyped, ReadersTyped
      <3>2. r \in Port /\ r.fd = port[p].fd /\ r.thread = port[p].thread
        BY <1>1, <3>1 DEF StateTyped, PortTyped, Port
      <3>3. port' = [port EXCEPT ![p] = r]
        BY <2>2
      <3> HIDE DEF p, r
      <3> QED
        BY <1>1, <3>1, <3>2, <3>3, PortSet DEF StateTyped, PortTyped, DeviceTyped
    <2> QED
      BY <2>1, <2>2 DEF ReaderStep, ReaderTest, ReaderRead, ReaderCrashes, Alive
  <1> QED
    BY <1>1, <1>2, <1>3, <1>4, OutsideInv DEF StateTyped

LEMMA PlugInv == ASSUME IInv, Unplug \/ Plug PROVE IInv'
  <1>1. /\ StateTyped /\ RestTyped
        /\ UNCHANGED <<listed, made, freed, port, mutex, mode, todo, on, mine, fresh, checked,
                       reader, owner, joined, opens, fds, watched>>
        /\ dead' \in {dead, fds}
    BY Typed, RestIsTyped DEF Unplug, Plug, listVars, callVars, readerVars, deviceVars
  <1>2. MineTyped' /\ ReadersTyped' /\ ListTyped' /\ PortTyped' /\ DeviceTyped'
    BY <1>1, RestKept, ListKept DEF StateTyped, PortTyped, DeviceTyped
  <1>3. RestTyped'
    <2>1. present' \in BOOLEAN
      BY Zenon DEF Unplug, Plug
    <2>2. unplugs' \in 0..MaxUnplugs
      BY <1>1, PortAssumption DEF Unplug, Plug, RestTyped
    <2> QED
      BY <1>1, <2>1, <2>2 DEF RestTyped
  <1> QED
    BY <1>1, <1>2, <1>3, OutsideInv DEF StateTyped

LEMMA NextInv == IInv /\ [Next]_vars => IInv'
  <1> SUFFICES ASSUME IInv, [Next]_vars PROVE IInv'
    OBVIOUS
  <1>1. CASE UNCHANGED vars
    <2>1. UNCHANGED <<listed, made, freed, port, mutex, mode, todo, on, mine, fresh, checked,
                      reader, owner, joined, opens, fds, dead, present, unplugs, watched>>
      BY <1>1 DEF vars, listVars, callVars, readerVars, deviceVars, plugVars
    <2>2. StateTyped' /\ RestTyped'
      BY <2>1, Typed, RestIsTyped, RestKept, ListKept DEF StateTyped, PortTyped, RestTyped
    <2> QED
      BY <2>1, <2>2, OutsideInv
  <1>2. CASE Next
    BY <1>2, UbusInv, ReplyInv, StopDaemonInv, CleanupInv, MonitorCheckInv, MonitorDoneInv,
       CallStepInv, ReaderInv, PlugInv DEF Next
  <1> QED
    BY <1>1, <1>2
-----------------------------------------------------------------------------
(* The readers, where the ubus thread alone opens and closes ports. *)

\* Then a step of a call is one of the ubus thread.
LEMMA UbusIsAtIt ==
    ASSUME IInv, Lone, NEW t \in Threads, NEW step, At(t, step)
    PROVE  /\ t = "ubus" /\ on["ubus"] \in Ports /\ on["ubus"] \notin freed
           /\ \A steps : step \in steps => Before("ubus", steps)
           /\ step \in Unread => NoReaderAt(on["ubus"])
           /\ step \in {"wait", "await", "mark", "spawn"} => mine["ubus"] \in 1..opens
           /\ \A u : Goto(t, u) => todo'["ubus"] = u
           /\ Tail(todo[t]) # <<>> => FollowedBy(step, Head(Tail(todo[t])))
  <1>1. on[t] \in Ports /\ todo[t] # <<>> /\ Head(todo[t]) = step
        /\ (step \in {"wait", "await", "mark", "spawn"} => mine[t] \in 1..opens)
        /\ (Tail(todo[t]) # <<>> => FollowedBy(step, Head(Tail(todo[t]))))
    BY InCall, StepLeaves
  <1>2. t = "ubus"
    BY <1>1 DEF Lone, Threads, Ports
  <1>3. \A steps : step \in steps => Before("ubus", steps)
    BY <1>1, <1>2 DEF Before
  <1>4. ASSUME NEW u, Goto(t, u) PROVE todo'["ubus"] = u
    BY <1>2, <1>4 DEF Goto, IInv, Calls
  <1> QED
    BY <1>1, <1>2, <1>3, <1>4 DEF Lone, CallHolds

\* Nothing of the readers and the ports changes.
LEMMA ReadersStay ==
    /\ ReadersKnown /\ UNCHANGED <<reader, owner, freed, port, fds>> => ReadersKnown'
    /\ OneFdEach /\ UNCHANGED port => OneFdEach'
    /\ \A p : NoReaderAt(p) /\ UNCHANGED <<reader, owner>> => NoReaderAt(p)'
  BY DEF ReadersKnown, OneFdEach, NoReaderAt, Alive

LEMMA StopLone == ASSUME IInv, Lone, NEW t \in Threads, Stop(t) PROVE Lone'
  <1>1. /\ t = "ubus" /\ on["ubus"] \in Ports /\ on["ubus"] \notin freed
        /\ \A u : Goto(t, u) => todo'["ubus"] = u
        /\ Tail(todo[t]) # <<>> => FollowedBy("stop", Head(Tail(todo[t])))
    BY UbusIsAtIt DEF Stop
  <1>2. UNCHANGED <<on, mine, freed, reader, owner, fds>>
    BY DEF Stop, listVars, readerVars, deviceVars
  <1>3. StateTyped
    BY Typed
  <1>4. CASE port[on[t]].open
    <2>1. port' = [port EXCEPT ![on[t]].stop = TRUE] /\ todo'["ubus"] = Tail(todo[t])
      BY <1>1, <1>4 DEF Stop, Step
    <2>2. \A q \in Ports : /\ port'[q].fd = port[q].fd /\ port'[q].thread = port[q].thread
                           /\ port'[q].open = port[q].open
      BY <1>3, <2>1 DEF StateTyped, PortTyped, Port
    <2>3. ReadersKnown' /\ OneFdEach'
      BY <1>2, <1>3, <2>2 DEF Lone, ReadersKnown, OneFdEach, Alive, StateTyped, ReadersTyped
    <2>4. CallHolds'
      BY <1>1, <1>2, <2>1 DEF CallHolds, Before, Unread, FollowedBy
    <2> QED
      BY <1>2, <2>3, <2>4 DEF Lone
  <1>5. CASE ~port[on[t]].open
    <2>1. UNCHANGED port /\ todo'["ubus"] = AfterClose(todo[t])
      BY <1>1, <1>5 DEF Stop
    <2>2. AfterClose(todo[t]) # <<>> => Head(AfterClose(todo[t])) \in {"open", "halt", "unlist"}
      BY InCall, AfterCloseLinked DEF Stop
    <2>3. NoReaderAt(on["ubus"])
      BY <1>1, <1>5 DEF NoReaderAt, Lone, ReadersKnown
    <2>4. ReadersKnown' /\ OneFdEach' /\ NoReaderAt(on["ubus"])'
      BY <1>2, <2>1, <2>3, ReadersStay DEF Lone, NoReaderAt, Alive
    <2>5. CallHolds'
      BY <1>1, <1>2, <2>1, <2>2, <2>4 DEF CallHolds, Before, Unread
    <2> QED
      BY <1>2, <2>4, <2>5 DEF Lone
  <1> QED
    BY <1>4, <1>5

LEMMA HaltLone == ASSUME IInv, Lone, NEW t \in Threads, Halt(t) PROVE Lone'
  <1>1. /\ t = "ubus" /\ on["ubus"] \in Ports /\ on["ubus"] \notin freed
        /\ \A u : Goto(t, u) => todo'["ubus"] = u
        /\ Tail(todo[t]) # <<>> => FollowedBy("halt", Head(Tail(todo[t])))
    BY UbusIsAtIt DEF Halt
  <1>2. UNCHANGED <<on, mine, freed, reader, owner, fds>>
    BY DEF Halt, listVars, readerVars, deviceVars
  <1>3. StateTyped
    BY Typed
  <1>4. port' = [port EXCEPT ![on[t]].stop = TRUE] /\ todo'["ubus"] = Tail(todo[t])
    BY <1>1 DEF Halt, Step
  <1>5. \A q \in Ports : /\ port'[q].fd = port[q].fd /\ port'[q].thread = port[q].thread
                         /\ port'[q].open = port[q].open
    BY <1>3, <1>4 DEF StateTyped, PortTyped, Port
  <1>6. ReadersKnown' /\ OneFdEach'
    BY <1>2, <1>3, <1>5 DEF Lone, ReadersKnown, OneFdEach, Alive, StateTyped, ReadersTyped
  <1>7. CallHolds'
    BY <1>1, <1>2, <1>4 DEF CallHolds, Before, Unread, FollowedBy
  <1> QED
    BY <1>2, <1>6, <1>7 DEF Lone

\* A port that knows no thread has no reader.
LEMMA JoinLone == ASSUME IInv, Lone, NEW t \in Threads, Join(t) PROVE Lone'
  <1>1. PICK step \in {"join", "reap"} : At(t, step)
    BY DEF Join
  <1>2. /\ t = "ubus" /\ on["ubus"] \in Ports /\ on["ubus"] \notin freed
        /\ \A u : Goto(t, u) => todo'["ubus"] = u
    BY <1>1, UbusIsAtIt
  <1>3. /\ UNCHANGED <<on, port, freed, reader, owner, fds>> /\ StateTyped
        /\ mine' = [mine EXCEPT ![t] = port[on[t]].thread]
    BY Typed DEF Join, listVars, readerVars, deviceVars
  <1>4. mine'["ubus"] = port[on["ubus"]].thread
    BY <1>2, <1>3 DEF StateTyped, MineTyped
  <1>5. ReadersKnown' /\ OneFdEach'
    BY <1>3, ReadersStay DEF Lone
  <1> DEFINE v == Tail(todo[t])
  <1>6. v \in Seq(StepsOf(t)) /\ Linked(v) /\ Ended(v) /\ v # <<>> /\ Head(v) \in {"wait", "await"}
    BY <1>1, StepLeaves DEF FollowedBy, LastSteps
  <1>7. Goto(t, IF port[on[t]].thread = 0 THEN Tail(v) ELSE v)
    BY DEF Join
  <1> HIDE DEF v
  <1>8. CASE port[on[t]].thread = 0
    <2>1. todo'["ubus"] = Tail(v) /\ (Tail(v) # <<>> => Head(Tail(v)) \in {"shut", "stop"})
      BY <1>2, <1>6, <1>7, <1>8, TailLinked DEF FollowedBy
    <2>2. NoReaderAt(on["ubus"])
      BY <1>2, <1>8 DEF NoReaderAt, Lone, ReadersKnown, Openings
    <2>3. NoReaderAt(on["ubus"])'
      BY <1>3, <2>2 DEF NoReaderAt, Alive
    <2>4. CallHolds'
      BY <1>2, <1>3, <2>1, <2>3 DEF CallHolds, Before, Unread
    <2> QED
      BY <1>3, <1>5, <2>4 DEF Lone
  <1>9. CASE port[on[t]].thread # 0
    <2>1. todo'["ubus"] = v
      BY <1>2, <1>7, <1>9
    <2>2. CallHolds'
      BY <1>2, <1>3, <1>4, <1>6, <2>1 DEF CallHolds, Before, Unread
    <2> QED
      BY <1>3, <1>5, <2>2 DEF Lone
  <1> QED
    BY <1>8, <1>9

\* The reader that was joined was the one of the port, and has ended.
LEMMA WaitLone == ASSUME IInv, Lone, NEW t \in Threads, Wait(t) PROVE Lone'
  <1>1. PICK step \in {"wait", "await"} : At(t, step)
    BY DEF Wait
  <1>2. /\ t = "ubus" /\ on["ubus"] \in Ports /\ on["ubus"] \notin freed
        /\ Before("ubus", {step}) /\ todo'["ubus"] = Tail(todo[t])
        /\ Tail(todo[t]) # <<>> => FollowedBy(step, Head(Tail(todo[t])))
    BY <1>1, UbusIsAtIt DEF Wait, Step
  <1>3. /\ UNCHANGED <<on, mine, freed, reader, owner, fds>> /\ StateTyped
        /\ reader[mine["ubus"]] = "done"
    BY <1>2, Typed DEF Wait, listVars, deviceVars
  <1>4. CASE step = "await"
    <2>1. UNCHANGED port
      BY <1>1, <1>4 DEF Wait, At
    <2>2. ReadersKnown' /\ OneFdEach'
      BY <1>3, <2>1, ReadersStay DEF Lone
    <2>3. CallHolds'
      BY <1>2, <1>3, <1>4 DEF CallHolds, Before, Unread, FollowedBy
    <2> QED
      BY <1>3, <2>2, <2>3 DEF Lone
  <1>5. CASE step = "wait"
    <2>1. port' = [port EXCEPT ![on["ubus"]].thread = 0]
      BY <1>1, <1>2, <1>5 DEF Wait
    <2>2. /\ \A q \in Ports : port'[q].fd = port[q].fd /\ port'[q].open = port[q].open
          /\ \A q \in Ports \ {on["ubus"]} : port'[q].thread = port[q].thread
      BY <1>2, <1>3, <2>1 DEF StateTyped, PortTyped, Port
    <2>3. NoReaderAt(on["ubus"])
      <3>1. mine["ubus"] = port[on["ubus"]].thread
        BY <1>2, <1>5 DEF Lone, CallHolds
      <3> QED
        BY <1>3, <3>1 DEF NoReaderAt, Lone, ReadersKnown, Alive
    <2>4. ReadersKnown'
      BY <1>3, <2>2, <2>3 DEF Lone, ReadersKnown, NoReaderAt, Alive, StateTyped, ReadersTyped
    <2>5. OneFdEach'
      BY <2>2 DEF Lone, OneFdEach
    <2>6. NoReaderAt(on["ubus"])'
      BY <1>3, <2>3 DEF NoReaderAt, Alive
    <2>7. CallHolds'
      BY <1>2, <1>3, <1>5, <2>6 DEF CallHolds, Before, Unread, FollowedBy
    <2> QED
      BY <1>3, <2>4, <2>5, <2>7 DEF Lone
  <1> QED
    BY <1>4, <1>5

\* The port of the call is changed; no reader is at it.
LEMMA OthersKnown ==
    ASSUME StateTyped, Lone, NEW p \in Ports, NoReaderAt(p), NEW r, port' = [port EXCEPT ![p] = r],
           UNCHANGED <<reader, owner, freed>>,
           \A q \in Ports \ {p} : port[q].fd # 0 /\ port[q].fd \in fds => port[q].fd \in fds',
           r.fd = 0 \/ \A q \in Ports \ {p} : port[q].fd # r.fd
    PROVE  ReadersKnown' /\ OneFdEach' /\ NoReaderAt(p)'
  <1>1. port'[p] = r /\ \A q \in Ports \ {p} : port'[q] = port[q]
    BY DEF StateTyped, PortTyped
  <1>2. NoReaderAt(p)'
    BY DEF NoReaderAt, Alive
  <1>3. ReadersKnown'
    BY <1>1 DEF Lone, ReadersKnown, NoReaderAt, Alive, StateTyped, ReadersTyped, Openings
  <1>4. OneFdEach'
    BY <1>1 DEF Lone, OneFdEach
  <1> QED
    BY <1>2, <1>3, <1>4

\* The descriptor of the port is closed: it is no other port's.
LEMMA ShutKeepsFds ==
    ASSUME Lone, NEW p \in Ports, fds' = fds \ {port[p].fd}
    PROVE  \A q \in Ports \ {p} : port[q].fd # 0 /\ port[q].fd \in fds => port[q].fd \in fds'
  BY DEF Lone, OneFdEach

LEMMA ShutLone == ASSUME IInv, Lone, NEW t \in Threads, Shut(t) PROVE Lone'
  <1>1. /\ t = "ubus" /\ on["ubus"] \in Ports /\ on["ubus"] \notin freed
        /\ NoReaderAt(on["ubus"]) /\ todo'["ubus"] = Tail(todo[t])
        /\ Tail(todo[t]) # <<>> => FollowedBy("shut", Head(Tail(todo[t])))
    BY UbusIsAtIt DEF Shut, Step, Unread
  <1>2. /\ UNCHANGED <<on, mine, freed, reader, owner>> /\ StateTyped
        /\ fds' = fds \ {port[on["ubus"]].fd}
    BY <1>1, Typed DEF Shut, listVars, readerVars
  <1> DEFINE r == [port[on["ubus"]] EXCEPT !.fd = 0, !.open = FALSE]
  <1>3. r.fd = 0
    BY <1>1, <1>2 DEF StateTyped, PortTyped, Port
  <1>4. port' = [port EXCEPT ![on["ubus"]] = r]
    <2>1. port' = [port EXCEPT ![on["ubus"]].fd = 0, ![on["ubus"]].open = FALSE] /\ port \in [Ports -> Port]
      BY <1>1, <1>2 DEF Shut, StateTyped, PortTyped
    <2> QED
      BY <1>1, <2>1
  <1> HIDE DEF r
  <1>5. ReadersKnown' /\ OneFdEach' /\ NoReaderAt(on["ubus"])'
    BY <1>1, <1>2, <1>3, <1>4, ShutKeepsFds, OthersKnown
  <1>6. CallHolds'
    BY <1>1, <1>2, <1>5 DEF CallHolds, Before, Unread, FollowedBy, NoReaderAt, Alive
  <1> QED
    BY <1>2, <1>5, <1>6 DEF Lone

\* A call that gave up ends, or goes on to destroy the instance.
LEMMA GaveUpHolds ==
    ASSUME IInv, Lone, NEW t \in Threads, t = "ubus", todo[t] # <<>>, GiveUp(t), UNCHANGED <<on, mine, freed>>
    PROVE  CallHolds'
  <1>1. PICK u : GoesOn(t, u) /\ (u # <<>> => Head(u) = "halt")
    BY GivesUp
  <1>2. todo'["ubus"] = u
    BY <1>1 DEF GoesOn, Goto, IInv, Calls
  <1> QED
    BY <1>1, <1>2 DEF Lone, CallHolds, Before, Unread

LEMMA OpenLone == ASSUME IInv, Lone, NEW t \in Threads, OpenDevice(t) PROVE Lone'
  <1>1. /\ t = "ubus" /\ on["ubus"] \in Ports /\ on["ubus"] \notin freed /\ todo[t] # <<>>
        /\ NoReaderAt(on["ubus"]) /\ (\A u : Goto(t, u) => todo'["ubus"] = u)
        /\ Tail(todo[t]) # <<>> => FollowedBy("open", Head(Tail(todo[t])))
    BY UbusIsAtIt DEF OpenDevice, Unread, At
  <1>2. UNCHANGED <<on, freed, reader, owner>> /\ StateTyped
    BY Typed DEF OpenDevice, listVars, readerVars
  <1>3. CASE GiveUp(t) /\ UNCHANGED <<fds, port, mine>>
    BY <1>1, <1>2, <1>3, GaveUpHolds, ReadersStay DEF Lone
  <1>4. CASE GiveUp(t) /\ port' = [port EXCEPT ![on[t]].fd = 0] /\ UNCHANGED <<fds, mine>>
    <2> DEFINE r == [port[on["ubus"]] EXCEPT !.fd = 0]
    <2>1. r.fd = 0
      BY <1>1, <1>2 DEF StateTyped, PortTyped, Port
    <2>2. port' = [port EXCEPT ![on["ubus"]] = r]
      BY <1>1, <1>4
    <2> HIDE DEF r
    <2>3. ReadersKnown' /\ OneFdEach'
      BY <1>1, <1>2, <1>4, <2>1, <2>2, OthersKnown
    <2> QED
      BY <1>1, <1>2, <1>4, <2>3, GaveUpHolds DEF Lone
  <1>5. CASE /\ Step(t) /\ opens' = opens + 1 /\ fds' = fds \cup {opens'}
             /\ port' = [port EXCEPT ![on[t]].fd = opens']
             /\ mine' = [mine EXCEPT ![t] = opens']
    <2> DEFINE r == [port[on["ubus"]] EXCEPT !.fd = opens']
    <2>1. r.fd = opens'
      BY <1>1, <1>2 DEF StateTyped, PortTyped, Port
    <2>2. port' = [port EXCEPT ![on["ubus"]] = r]
      BY <1>1, <1>5
    <2> HIDE DEF r
    <2>3. \A q \in Ports \ {on["ubus"]} : port[q].fd # r.fd
      BY <1>2, <1>5, <2>1 DEF StateTyped, PortTyped, DeviceTyped
    <2>4. ReadersKnown' /\ OneFdEach' /\ NoReaderAt(on["ubus"])'
      BY <1>1, <1>2, <1>5, <2>2, <2>3, OthersKnown
    <2>5. mine'["ubus"] = opens' /\ port'[on["ubus"]].fd = opens' /\ opens' \in fds'
      BY <1>1, <1>2, <1>5, <2>1, <2>2 DEF StateTyped, PortTyped, MineTyped
    <2>6. todo'["ubus"] = Tail(todo[t])
      BY <1>1, <1>5 DEF Step
    <2>7. CallHolds'
      BY <1>1, <1>2, <2>4, <2>5, <2>6 DEF CallHolds, Before, Unread, FollowedBy, NoReaderAt, Alive
    <2> QED
      BY <1>2, <2>4, <2>7 DEF Lone
  <1> QED
    BY <1>3, <1>4, <1>5 DEF OpenDevice

LEMMA MarkLone == ASSUME IInv, Lone, NEW t \in Threads, Mark(t) PROVE Lone'
  <1>1. /\ t = "ubus" /\ on["ubus"] \in Ports /\ on["ubus"] \notin freed
        /\ NoReaderAt(on["ubus"]) /\ Before("ubus", {"mark", "spawn"})
        /\ todo'["ubus"] = Tail(todo[t])
        /\ Tail(todo[t]) # <<>> => FollowedBy("mark", Head(Tail(todo[t])))
    BY UbusIsAtIt DEF Mark, Step, Unread
  <1>2. UNCHANGED <<on, mine, freed, reader, owner, fds>> /\ StateTyped
    BY Typed DEF Mark, listVars, readerVars, deviceVars
  <1>3. port[on["ubus"]].fd = mine["ubus"] /\ mine["ubus"] \in fds
    BY <1>1 DEF Lone, CallHolds
  <1> DEFINE r == [port[on["ubus"]] EXCEPT !.open = TRUE, !.stop = FALSE]
  <1>4. r.fd = port[on["ubus"]].fd /\ r.open = TRUE
    BY <1>1, <1>2 DEF StateTyped, PortTyped, Port
  <1>5. port' = [port EXCEPT ![on["ubus"]] = r]
    <2>1. port' = [port EXCEPT ![on["ubus"]].open = TRUE, ![on["ubus"]].stop = FALSE] /\ port \in [Ports -> Port]
      BY <1>1, <1>2 DEF Mark, StateTyped, PortTyped
    <2> QED
      BY <1>1, <2>1
  <1> HIDE DEF r
  <1>6. r.fd = 0 \/ \A q \in Ports \ {on["ubus"]} : port[q].fd # r.fd
    BY <1>1, <1>4 DEF Lone, OneFdEach
  <1>7. ReadersKnown' /\ OneFdEach' /\ NoReaderAt(on["ubus"])'
    BY <1>1, <1>2, <1>5, <1>6, OthersKnown
  <1>8. port'[on["ubus"]].fd = mine'["ubus"] /\ port'[on["ubus"]].open = TRUE
    BY <1>1, <1>2, <1>3, <1>4, <1>5 DEF StateTyped, PortTyped
  <1>9. CallHolds'
    BY <1>1, <1>2, <1>3, <1>7, <1>8 DEF CallHolds, Before, Unread, FollowedBy, NoReaderAt, Alive
  <1> QED
    BY <1>2, <1>7, <1>9 DEF Lone

\* A reader is started for the descriptor the port has.
LEMMA SpawnLone == ASSUME IInv, Lone, NEW t \in Threads, Spawn(t) PROVE Lone'
  <1> DEFINE p == on["ubus"]
             m == mine["ubus"]
  <1>1. /\ t = "ubus" /\ p \in Ports /\ p \notin freed /\ NoReaderAt(p) /\ m \in 1..opens /\ todo[t] # <<>>
        /\ Before("ubus", {"mark", "spawn"}) /\ Before("ubus", {"spawn"})
        /\ \A u : Goto(t, u) => todo'["ubus"] = u
    BY UbusIsAtIt DEF Spawn, Unread, At
  <1>2. UNCHANGED <<on, mine, freed>> /\ StateTyped
    BY Typed DEF Spawn, listVars
  <1>3. port[p].fd = m /\ m \in fds /\ port[p].open
    BY <1>1 DEF Lone, CallHolds
  <1>4. CASE /\ reader' = [reader EXCEPT ![mine[t]] = "test"]
             /\ owner' = [owner EXCEPT ![mine[t]] = on[t]]
             /\ port' = [port EXCEPT ![on[t]].thread = mine[t]]
             /\ Goto(t, <<>>) /\ UNCHANGED fds
    <2>1. m \in Openings
      <3>1. opens \in 0..MaxOpens /\ MaxOpens \in Nat
        BY <1>2, PortAssumption DEF StateTyped, DeviceTyped
      <3> QED
        BY <1>1, <3>1 DEF Openings
    <2>2. /\ port' = [port EXCEPT ![p].thread = m] /\ reader' = [reader EXCEPT ![m] = "test"]
          /\ owner' = [owner EXCEPT ![m] = p]
      BY <1>1, <1>4
    <2>3. /\ port'[p].fd = m /\ port'[p].thread = m /\ port'[p].open
          /\ \A q \in Ports : port'[q].fd = port[q].fd
          /\ \A q \in Ports \ {p} : port'[q] = port[q]
      <3>1. port[p] \in Port
        BY <1>1, <1>2 DEF StateTyped, PortTyped
      <3>2. port'[p] = [port[p] EXCEPT !.thread = m] /\ \A q \in Ports \ {p} : port'[q] = port[q]
        BY <1>1, <1>2, <2>2 DEF StateTyped, PortTyped
      <3>3. port'[p].fd = port[p].fd /\ port'[p].thread = m /\ port'[p].open = port[p].open
        BY <3>1, <3>2 DEF Port
      <3> QED
        BY <1>3, <3>2, <3>3
    <2>4. /\ owner'[m] = p
          /\ \A n \in Openings \ {m} : owner'[n] = owner[n] /\ reader'[n] = reader[n]
      BY <1>2, <2>1, <2>2 DEF StateTyped, ReadersTyped
    <2> HIDE DEF p, m
    <2>5. ReadersKnown'
      <3> SUFFICES ASSUME NEW n \in Openings, reader'[n] \in {"test", "read"}
                   PROVE  /\ owner'[n] \notin freed /\ port'[owner'[n]].open
                          /\ port'[owner'[n]].thread = n /\ port'[owner'[n]].fd = n /\ n \in fds
        BY <1>2, <1>4 DEF ReadersKnown, Alive
      <3>1. CASE n = m
        BY <1>1, <1>3, <2>3, <2>4, <3>1
      <3>2. CASE n # m
        <4>1. owner'[n] = owner[n] /\ Alive(n)
          BY <2>4, <3>2 DEF Alive
        <4>2. owner[n] # p /\ owner[n] \in Ports
          BY <1>1, <1>2, <4>1 DEF NoReaderAt, StateTyped, ReadersTyped
        <4>3. /\ owner[n] \notin freed /\ port[owner[n]].open
              /\ port[owner[n]].thread = n /\ port[owner[n]].fd = n /\ n \in fds
          BY <4>1 DEF Lone, ReadersKnown
        <4> QED
          BY <2>3, <4>1, <4>2, <4>3
      <3> QED
        BY <3>1, <3>2
    <2>6. OneFdEach'
      BY <2>3 DEF Lone, OneFdEach
    <2>7. CallHolds'
      BY <1>1, <1>4 DEF CallHolds, Before
    <2> QED
      BY <1>2, <2>5, <2>6, <2>7 DEF Lone
  <1>5. CASE /\ fds' = fds \ {port[on[t]].fd}
             /\ port' = [port EXCEPT ![on[t]].fd = 0, ![on[t]].open = FALSE]
             /\ GiveUp(t) /\ UNCHANGED <<reader, owner>>
    <2> DEFINE r == [port[p] EXCEPT !.fd = 0, !.open = FALSE]
    <2>1. r.fd = 0
      BY <1>1, <1>2 DEF StateTyped, PortTyped, Port
    <2>2. port' = [port EXCEPT ![p] = r]
      <3>1. port' = [port EXCEPT ![p].fd = 0, ![p].open = FALSE] /\ port \in [Ports -> Port]
        BY <1>1, <1>2, <1>5 DEF StateTyped, PortTyped
      <3> QED
        BY <1>1, <3>1
    <2> HIDE DEF r
    <2>3. fds' = fds \ {port[p].fd}
      BY <1>1, <1>5
    <2>4. ReadersKnown' /\ OneFdEach'
      <3>1. \A q \in Ports \ {p} : port[q].fd # 0 /\ port[q].fd \in fds => port[q].fd \in fds'
        BY <1>1, <2>3, ShutKeepsFds
      <3>2. p \in Ports /\ NoReaderAt(p) /\ UNCHANGED <<reader, owner, freed>> /\ StateTyped
        BY <1>1, <1>2, <1>5
      <3> QED
        BY <2>1, <2>2, <3>1, <3>2, OthersKnown
    <2> QED
      BY <1>1, <1>2, <1>5, <2>4, GaveUpHolds DEF Lone
  <1> QED
    BY <1>4, <1>5 DEF Spawn

LEMMA UnlistLone == ASSUME IInv, Lone, NEW t \in Threads, Unlist(t) PROVE Lone'
  <1>1. /\ on["ubus"] \notin freed /\ NoReaderAt(on["ubus"]) /\ todo'["ubus"] = Tail(todo[t])
        /\ Tail(todo[t]) # <<>> => FollowedBy("unlist", Head(Tail(todo[t])))
    BY UbusIsAtIt DEF Unlist, Step, Unread
  <1>2. UNCHANGED <<on, mine, freed, reader, owner, port, fds>>
    BY DEF Unlist, readerVars, deviceVars
  <1>3. ReadersKnown' /\ OneFdEach' /\ NoReaderAt(on["ubus"])'
    BY <1>1, <1>2, ReadersStay DEF Lone, NoReaderAt, Alive
  <1>4. CallHolds'
    BY <1>1, <1>2, <1>3 DEF CallHolds, Before, Unread, FollowedBy
  <1> QED
    BY <1>2, <1>3, <1>4 DEF Lone

LEMMA FreeLone == ASSUME IInv, Lone, NEW t \in Threads, Free(t) PROVE Lone'
  <1>1. /\ t = "ubus" /\ NoReaderAt(on["ubus"]) /\ todo'["ubus"] = Tail(todo[t])
        /\ Tail(todo[t]) # <<>> => FollowedBy("free", Head(Tail(todo[t])))
    BY UbusIsAtIt DEF Free, Step, Unread
  <1>2. UNCHANGED <<on, mine, reader, owner, port, fds>> /\ freed' = freed \cup {on["ubus"]}
    BY <1>1 DEF Free, readerVars, deviceVars
  <1>3. todo'["ubus"] = <<>>
    BY <1>1 DEF FollowedBy
  <1>4. ReadersKnown' /\ OneFdEach'
    BY <1>1, <1>2 DEF Lone, ReadersKnown, NoReaderAt, Alive, OneFdEach
  <1>5. CallHolds'
    BY <1>3 DEF CallHolds, Before
  <1> QED
    BY <1>2, <1>4, <1>5 DEF Lone

LEMMA CallStepLone == ASSUME IInv, Lone, NEW t \in Threads, CallStep(t) PROVE Lone'
  BY StopLone, HaltLone, JoinLone, WaitLone, ShutLone, OpenLone, MarkLone, SpawnLone, UnlistLone, FreeLone
  DEF CallStep

\* The calls begin with what is in the list, which is allocated.
LEMMA BeginLone ==
    ASSUME IInv, IInv', Lone, NEW steps \in Seq(Steps), steps # <<>>, Head(steps) = "stop", NEW new,
           Begin(steps, new)
    PROVE  Lone'
  <1>1. /\ UNCHANGED <<freed, port, mine, reader, owner, fds>> /\ todo'["ubus"] = steps
        /\ on' = [on EXCEPT !["ubus"] = on'["ubus"]] /\ on'["ubus"] = listed'
    <2>1. /\ todo' = [todo EXCEPT !["ubus"] = steps]
          /\ on' = [on EXCEPT !["ubus"] = IF listed = 0 THEN made + 1 ELSE listed]
          /\ listed' = IF listed = 0 THEN made + 1 ELSE listed
      BY DEF Begin, Goto
    <2>2. todo \in [Threads -> Seq(Steps)] /\ on \in [Threads -> 0..MaxPorts] /\ "ubus" \in Threads
      BY Typed DEF IInv, Calls, StateTyped, ListTyped, Threads
    <2>3. UNCHANGED <<freed, port, mine, reader, owner, fds>>
      BY DEF Begin, readerVars, deviceVars
    <2> QED
      BY <2>1, <2>2, <2>3
  <1>2. on'["monitor"] = 0
    BY <1>1, Typed DEF Lone, StateTyped, ListTyped, Threads
  <1>3. listed' \notin freed'
    BY DEF IInv, ListIsAllocated
  <1>4. ReadersKnown' /\ OneFdEach'
    BY <1>1, ReadersStay DEF Lone
  <1>5. CallHolds'
    BY <1>1, <1>3 DEF CallHolds, Before, Unread
  <1> QED
    BY <1>2, <1>4, <1>5 DEF Lone

LEMMA UbusLone == ASSUME IInv, IInv', Lone, UbusOpen \/ UbusSendat \/ UbusClose PROVE Lone'
  <1>1. /\ Open \in Seq(Steps) /\ Open # <<>> /\ Head(Open) = "stop"
        /\ Close \o Destroy \in Seq(Steps) /\ Close \o Destroy # <<>> /\ Head(Close \o Destroy) = "stop"
    BY CallsLinked DEF MonitorSteps, Steps
  <1> QED
    BY <1>1, BeginLone DEF UbusOpen, UbusSendat, UbusClose

LEMMA ServiceLone ==
    ASSUME IInv, Lone, UbusReply \/ Terminate \/ Cleanup \/ Exit \/ MonitorDone
    PROVE  Lone'
  <1>1. UNCHANGED <<freed, port, reader, owner, fds>>
    BY DEF UbusReply, Terminate, Cleanup, Exit, MonitorDone, listVars, readerVars, deviceVars
  <1>2. ReadersKnown' /\ OneFdEach'
    BY <1>1, ReadersStay DEF Lone
  <1>3. on \in [Threads -> 0..MaxPorts] /\ todo \in [Threads -> Seq(Steps)]
    BY Typed DEF StateTyped, ListTyped, IInv, Calls
  <1>4. CASE UbusReply
    <2>1. on' = [on EXCEPT !["ubus"] = 0] /\ todo' = todo /\ todo["ubus"] = <<>>
      BY <1>4 DEF UbusReply
    <2>2. on'["monitor"] = 0
      BY <1>3, <2>1 DEF Lone, Threads
    <2>3. CallHolds'
      BY <2>1 DEF CallHolds, Before
    <2> QED
      BY <1>2, <2>2, <2>3 DEF Lone
  <1>5. CASE Terminate \/ Exit
    <2>1. UNCHANGED <<on, todo, mine>>
      BY <1>5 DEF Terminate, Exit, callVars
    <2>2. CallHolds'
      BY <1>1, <2>1 DEF Lone, CallHolds, Before, Unread, NoReaderAt, Alive
    <2> QED
      BY <1>2, <2>1, <2>2 DEF Lone
  <1>6. CASE Cleanup
    <2> DEFINE u == IF listed = 0 THEN <<>> ELSE Destroy
    <2>1. on' = [on EXCEPT !["ubus"] = listed] /\ todo' = [todo EXCEPT !["ubus"] = u]
      BY <1>6 DEF Cleanup, Goto
    <2>2. u # <<>> => Head(u) = "halt"
      BY CallsLinked
    <2> HIDE DEF u
    <2>3. on'["ubus"] = listed /\ on'["monitor"] = 0 /\ todo'["ubus"] = u
      BY <1>3, <2>1 DEF Lone, Threads
    <2>4. CallHolds'
      BY <1>1, <2>2, <2>3 DEF CallHolds, Before, Unread, IInv, ListIsAllocated
    <2> QED
      BY <1>2, <2>3, <2>4 DEF Lone
  <1>7. CASE MonitorDone
    BY <1>7 DEF MonitorDone, Lone
  <1> QED
    BY <1>4, <1>5, <1>6, <1>7

\* A read that fails ends the only reader of its port.
LEMMA ReaderLone ==
    ASSUME IInv, Lone, NEW n \in Openings, ReaderStep(n) \/ ReaderCrashes(n)
    PROVE  Lone'
  <1>1. /\ UNCHANGED <<freed, todo, on, mine, owner, fds>> /\ StateTyped
    BY Typed DEF ReaderStep, ReaderTest, ReaderRead, ReaderCrashes, listVars, callVars, readerVars, deviceVars
  <1>2. CASE UNCHANGED reader /\ UNCHANGED port
    <2>1. CallHolds'
      BY <1>1, <1>2 DEF Lone, CallHolds, Before, Unread, NoReaderAt, Alive
    <2> QED
      BY <1>1, <1>2, <2>1, ReadersStay DEF Lone
  <1>3. CASE /\ UNCHANGED port /\ Alive(n)
             /\ \E to \in {"test", "read", "done"} : reader' = [reader EXCEPT ![n] = to]
    <2>1. \A k \in Openings : Alive(k)' => Alive(k)
      BY <1>1, <1>3 DEF Alive, StateTyped, ReadersTyped
    <2>2. ReadersKnown' /\ OneFdEach'
      BY <1>1, <1>3, <2>1 DEF Lone, ReadersKnown, OneFdEach
    <2>3. CallHolds'
      BY <1>1, <1>3, <2>1 DEF Lone, CallHolds, Before, Unread, NoReaderAt
    <2> QED
      BY <1>1, <2>2, <2>3 DEF Lone
  <1>4. CASE /\ Alive(n) /\ reader' = [reader EXCEPT ![n] = "done"]
             /\ port' = [port EXCEPT ![owner[n]].open = FALSE]
    <2>1. /\ reader'[n] = "done" /\ \A k \in Openings \ {n} : reader'[k] = reader[k]
      BY <1>1, <1>4 DEF StateTyped, ReadersTyped
    <2>2. \A k \in Openings : Alive(k)' => Alive(k) /\ k # n
      BY <2>1 DEF Alive
    <2>3. owner[n] \in Ports
      BY <1>1, <1>4 DEF StateTyped, ReadersTyped
    <2>4. /\ \A q \in Ports : port'[q].fd = port[q].fd /\ port'[q].thread = port[q].thread
          /\ \A q \in Ports \ {owner[n]} : port'[q].open = port[q].open
      BY <1>1, <1>4, <2>3 DEF StateTyped, PortTyped, Port
    <2>5. \A k \in Openings : Alive(k)' => owner[k] \in Ports /\ owner[k] # owner[n]
      BY <1>1, <1>4, <2>2 DEF Lone, ReadersKnown, StateTyped, ReadersTyped
    <2>6. ReadersKnown'
      BY <1>1, <2>2, <2>4, <2>5 DEF Lone, ReadersKnown
    <2>7. OneFdEach'
      BY <2>4 DEF Lone, OneFdEach
    <2>8. CallHolds'
      <3>1. todo["ubus"] # <<>> => on["ubus"] \in Ports
        BY DEF IInv, Calls, Threads
      <3>2. Before("ubus", Unread) => NoReaderAt(on["ubus"]) /\ NoReaderAt(on["ubus"])' /\ owner[n] # on["ubus"]
        BY <1>1, <1>4, <2>2 DEF Lone, CallHolds, NoReaderAt
      <3>3. Before("ubus", {"spawn"}) => Before("ubus", Unread)
        BY DEF Before, Unread
      <3> QED
        BY <1>1, <2>4, <3>1, <3>2, <3>3 DEF Lone, CallHolds, Before, NoReaderAt
    <2> QED
      BY <1>1, <2>6, <2>7, <2>8 DEF Lone
  <1> QED
    BY <1>2, <1>3, <1>4 DEF ReaderStep, ReaderTest, ReaderRead, ReaderCrashes, readerVars, Alive

LEMMA PlugLone ==
    ASSUME Lone, UNCHANGED <<freed, port, todo, on, mine, reader, owner, fds>>
    PROVE  Lone'
  BY ReadersStay DEF Lone, CallHolds, Before, Unread, NoReaderAt, Alive

LEMMA InitLone == Init => LInv
  <1> SUFFICES ASSUME Init PROVE Lone
    BY DEF LInv
  <1>1. on["monitor"] = 0 /\ todo["ubus"] = <<>>
    BY DEF Init, Threads
  <1>2. ReadersKnown /\ OneFdEach
    BY DEF Init, ReadersKnown, OneFdEach, Alive, NoPort
  <1>3. CallHolds
    BY <1>1 DEF CallHolds, Before
  <1> QED
    BY <1>1, <1>2, <1>3 DEF Lone

LEMMA NextLone == IInv /\ IInv' /\ LInv /\ [Next]_vars => LInv'
  <1> SUFFICES ASSUME IInv, IInv', LInv, [Next]_vars, ~watched' PROVE Lone'
    BY DEF LInv
  <1>1. UNCHANGED watched
    BY DEF Next, vars, plugVars, UbusOpen, UbusSendat, UbusClose, Begin, UbusReply, Terminate, Cleanup, Exit,
           MonitorCheck, MonitorDone, CallStep, Stop, Halt, Join, Wait, Shut, OpenDevice, Mark, Spawn,
           Unlist, Free, ReaderStep, ReaderTest, ReaderRead, ReaderCrashes, Unplug, Plug
  <1>2. ~watched /\ Lone
    BY <1>1 DEF LInv
  <1>3. CASE UNCHANGED vars
    BY <1>2, <1>3, PlugLone DEF vars, listVars, callVars, readerVars, deviceVars
  <1>4. CASE Unplug \/ Plug
    BY <1>2, <1>4, PlugLone DEF Unplug, Plug, listVars, callVars, readerVars, deviceVars
  <1>5. CASE MonitorCheck
    BY <1>2, <1>5 DEF MonitorCheck
  <1> QED
    BY <1>2, <1>3, <1>4, <1>5, UbusLone, ServiceLone, CallStepLone, ReaderLone DEF Next

LEMMA AlwaysInv == Spec => [](IInv /\ LInv)
  <1>1. Init => IInv /\ LInv
    BY InitInv, InitLone
  <1>2. (IInv /\ LInv) /\ [Next]_vars => (IInv /\ LInv)'
    BY NextInv, NextLone
  <1> QED
    BY <1>1, <1>2, PTL DEF Spec
-----------------------------------------------------------------------------
(* The theorems. *)

\* The list of ports never holds freed memory, and the monitor is never at such memory
\* while it holds ports_mutex, however its checks and the ubus calls interleave
\* (port_manager.c:98 unlists a port before it frees it).
THEOREM ListIsAllocatedHolds == Spec => []ListIsAllocated
  <1>1. IInv => ListIsAllocated
    BY DEF IInv
  <1> QED
    BY <1>1, AlwaysInv, PTL

\* Without the monitor no reader outlives the port it serves: destroy_port_instance has
\* joined it, also after failed opens and read errors.
THEOREM LoneReadersEndHolds == Spec => []LoneReadersEnd
  <1>1. LInv => LoneReadersEnd
    BY DEF LInv, Lone, ReadersKnown, LoneReadersEnd, NoReaderOutlives
  <1> QED
    BY <1>1, AlwaysInv, PTL

\* Without the monitor a reader only reads the descriptor it was started for, which is
\* still open: close_at_port joins it before it closes.
THEOREM ReadsItsOwnHolds == Spec => []ReadsItsOwn
  <1>1. LInv => ReadsItsOwn
    BY DEF LInv, Lone, ReadersKnown, ReadsItsOwn, Alive
  <1> QED
    BY <1>1, AlwaysInv, PTL
=============================================================================
