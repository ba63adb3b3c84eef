------------------------------ MODULE MonitorPage ------------------------------
(***************************************************************************)
(* luci-app-qmodem-monitor (view/qmodem/monitor.js): the control buttons   *)
(* of the qmodem_monitor service, the user scripts it may run, and the     *)
(* options of each modem.  The service and the file system are external;   *)
(* a call is carried out some time before its answer is handled.           *)
(***************************************************************************)
EXTENDS LuciForm, InitScript

CONSTANTS
  Scripts,        \* names of scripts, as they are after sanitizing
  MaxPresses,     \* presses of control and script buttons
  MonitorValues   \* what the user may enter in the form of a modem

VARIABLES
  service,    \* external: whether the service is enabled and running
  rcShown,    \* the status the page shows and takes its buttons from
  rcCalls,    \* calls for it in flight
  pressed,    \* buttons pressed so far
  unsure,     \* whether a button was pressed while another was under way, or a step failed
  files,      \* external: the scripts' files, and whether they can be executed
  listed,     \* the scripts the page lists
  jobs,       \* uploads and deletions under way, with the step each is at
  monitorCfg  \* the uci options of a modem, saved by its form

rcVars == <<service, rcShown, rcCalls>>
fileVars == <<files, listed, jobs>>
monVars == <<rcVars, pressed, unsure, fileVars>>

Idle == rcCalls = {} /\ jobs = {}

MonInit ==
  /\ service \in [enabled : BOOLEAN, running : BOOLEAN]
  /\ \E known \in BOOLEAN : rcShown = Status(known, service)
  /\ rcCalls = {} /\ pressed = 0 /\ unsure = FALSE
  /\ files \in [Scripts -> {"absent", "plain", "executable"}]
  /\ listed = {s \in Scripts : files[s] # "absent"}
  /\ jobs = {}

CountPress ==
  /\ pressed < MaxPresses
  /\ pressed' = pressed + 1
  /\ unsure' = (unsure \/ ~Idle)

\* createHandlerFn keeps a button disabled until its handler's promise settles, but
\* a status that is shown meanwhile draws all buttons anew.
PressControl(action) ==
  /\ action \in ButtonsOf(rcShown)
  /\ \A c \in rcCalls : c.action = action => ~c.drawn
  /\ CountPress
  /\ rcCalls' = rcCalls \cup {[action |-> action, nth |-> pressed', drawn |-> TRUE, at |-> "action", ok |-> TRUE,
                               again |-> FALSE, saw |-> Status(TRUE, service)]}
  /\ UNCHANGED <<service, rcShown, fileVars>>

\* External: a status call reads the service; an action is carried out or not, and
\* the call may resolve either way, setInitAction's own result being ignored.
RcServed(c, ok, done) ==
  /\ c.at \in {"action", "status"}
  /\ service' = IF c.at = "action" /\ done THEN After(service, c.action) ELSE service
  /\ rcCalls' = (rcCalls \ {c}) \cup
       {[c EXCEPT !.at = IF @ = "action" THEN "acted" ELSE "read", !.ok = ok, !.saw = Status(TRUE, service')]}
  /\ UNCHANGED <<rcShown, pressed, unsure, fileVars>>

\* As if a failed action were not followed by a look at the status.
ActedQuietly(c) ==
  /\ c.at = "acted"
  /\ rcCalls' = (rcCalls \ {c}) \cup IF c.ok THEN {[c EXCEPT !.at = "status"]} ELSE {}
  /\ rcShown' = IF c.ok THEN rcShown ELSE Status(TRUE, After(rcShown, c.action))
  /\ UNCHANGED <<service, pressed, unsure, fileVars>>

\* Success or failure is reported, then the status is asked for.
Acted(c) ==
  /\ c.at = "acted"
  /\ rcCalls' = (rcCalls \ {c}) \cup {[c EXCEPT !.at = "status", !.again = ~c.ok]}
  /\ UNCHANGED <<service, rcShown, pressed, unsure, fileVars>>

\* updateRcStatus shows what it read.  A failure of the first look is reported as
\* a failure of the action, and a second look follows.
StatusRead(c) ==
  /\ c.at = "read"
  /\ rcShown' = IF c.ok THEN c.saw ELSE rcShown
  /\ rcCalls' = (IF c.ok THEN {[d EXCEPT !.drawn = FALSE] : d \in rcCalls \ {c}} ELSE rcCalls \ {c}) \cup
       IF c.ok \/ c.again THEN {} ELSE {[c EXCEPT !.at = "status", !.again = TRUE]}
  /\ unsure' = (unsure \/ (~c.ok /\ c.again))
  /\ UNCHANGED <<service, pressed, fileVars>>

-----------------------------------------------------------------------------
(* User scripts.                                                           *)

\* mkdir, write, chmod, list; or remove, list.  Each step starts when the one
\* before it succeeded; a failure ends the job with what was done so far.
Upload(s) ==
  /\ CountPress
  /\ jobs' = jobs \cup {[script |-> s, nth |-> pressed', step |-> "write", saw |-> {}]}
  /\ UNCHANGED <<rcVars, files, listed>>

DeleteScript(s) ==
  /\ s \in listed
  /\ CountPress
  /\ jobs' = jobs \cup {[script |-> s, nth |-> pressed', step |-> "remove", saw |-> {}]}
  /\ UNCHANGED <<rcVars, files, listed>>

Present == {s \in Scripts : files'[s] # "absent"}

JobStep(j) ==
  /\ j.step # "show"
  /\ CASE j.step = "write"  -> files' = [files EXCEPT ![j.script] = IF @ = "absent" THEN "plain" ELSE @]
       [] j.step = "chmod"  -> /\ files[j.script] # "absent"
                               /\ files' = [files EXCEPT ![j.script] = "executable"]
       [] j.step = "remove" -> /\ files[j.script] # "absent"
                               /\ files' = [files EXCEPT ![j.script] = "absent"]
       [] j.step = "list"   -> UNCHANGED files
  /\ jobs' = (jobs \ {j}) \cup
       {[j EXCEPT !.step = CASE @ = "write" -> "chmod" [] @ = "list" -> "show" [] OTHER -> "list",
                  !.saw = IF j.step = "list" THEN Present ELSE @]}
  /\ UNCHANGED <<rcVars, listed, pressed, unsure>>

\* A failed step is reported and ends the job, but a list that cannot be read is
\* shown as an empty one.
JobFails(j) ==
  /\ j.step # "show"
  /\ jobs' = (jobs \ {j}) \cup IF j.step = "list" THEN {[j EXCEPT !.step = "show", !.saw = {}]} ELSE {}
  /\ unsure' = TRUE
  /\ UNCHANGED <<rcVars, files, listed, pressed>>

\* updateScriptList shows the list as it was read.
ListShown(j) ==
  /\ j.step = "show"
  /\ listed' = j.saw
  /\ jobs' = jobs \ {j}
  /\ UNCHANGED <<rcVars, files, pressed, unsure>>

-----------------------------------------------------------------------------
(* The options of a modem.                                                 *)

Ping == {"ping"}
\* monitor_action is a list: "at" and "script" are its members that matter here.
MonitorTable ==
  [monitor_method |-> Always,
   monitor_ping_type |-> {On("monitor_method", Ping)},
   monitor_ping_dest |-> {On2("monitor_method", Ping, "monitor_ping_type", {"ip"})},
   monitor_ping_ip_version |-> {On2("monitor_method", Ping, "monitor_ping_type", {"gateway", "dns"})},
   monitor_http_url |-> {On("monitor_method", {"curl"})},
   monitor_action |-> Always,
   at_command |-> {On("monitor_action", {"at", "both"})},
   script |-> {On("monitor_action", {"script", "both"})}]

\* The form shares nothing with the buttons: it is a machine of its own.
FormInit == monitorCfg = [o \in {} |-> ""]
SaveModem(v) == monitorCfg' = Saved(MonitorTable, v)
FormNext == \E v \in MonitorValues : SaveModem(v)

MonNext ==
  \/ \E a \in Actions : PressControl(a)
  \/ \E c \in rcCalls : Acted(c) \/ StatusRead(c) \/ \E ok, done \in BOOLEAN : RcServed(c, ok, done)
  \/ \E s \in Scripts : Upload(s) \/ DeleteScript(s)
  \/ \E j \in jobs : JobStep(j) \/ JobFails(j) \/ ListShown(j)

MonSpec == MonInit /\ [][MonNext]_monVars

-----------------------------------------------------------------------------
(* Properties.                                                             *)

\* Once everything asked for is answered, and if no button was pressed while
\* another was under way and no step failed for good, the page shows the
\* service and the scripts as they are, also after actions that failed.
PageIsCurrent ==
  Idle /\ ~unsure =>
    /\ rcShown.known /\ pressed > 0 => rcShown = Status(TRUE, service)
    /\ listed = {s \in Scripts : files[s] # "absent"}

\* A saved modem has no target but that of its way of checking, so a change of the
\* method or of the ping type leaves nothing of the old one behind.
OneTarget ==
  DOMAIN monitorCfg # {} =>
    LET target == IF monitorCfg["monitor_method"] = "curl" THEN "monitor_http_url"
                  ELSE IF monitorCfg["monitor_ping_type"] = "ip" THEN "monitor_ping_dest" ELSE "monitor_ping_ip_version"
    IN  \A o \in {"monitor_ping_dest", "monitor_ping_ip_version", "monitor_http_url"} \ {target} : monitorCfg[o] = ""
===============================================================================
