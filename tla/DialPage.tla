------------------------------- MODULE DialPage -------------------------------
(***************************************************************************)
(* view/qmodem/network_config.js: the qmodem_network service with its      *)
(* control buttons, the dial buttons and the connection dot of each modem, *)
(* and the dialog of a modem's dial log.  A save renders the whole form    *)
(* anew from what the page remembers, while polls and presses are under    *)
(* way; their answers still hold the elements of the form they saw.        *)
(***************************************************************************)
EXTENDS Naturals, FiniteSets, InitScript

CONSTANTS
  Dialers,        \* sections of type modem-device
  MaxDialCalls,   \* calls and timers under way at once
  MaxSaves        \* saves of the form

VARIABLES
  dialOn,     \* enable_dial of each modem, as uci has it
  dialing,    \* external: whether the modem's dial service runs, and is connected
  controls,   \* what stands in the dial control cell of each modem
  dot,        \* the connection dot of each modem, and the answer kept for the next rendering
  network,    \* external: the status of qmodem_network
  rcData,     \* rcStatusData
  rcLine,     \* the status line
  rcButtons,  \* the status the control buttons were drawn from
  rendering,  \* how often the form was rendered
  dialCalls   \* calls and timers under way

dialVars == <<dialOn, dialing, controls, dot, network, rcData, rcLine, rcButtons, rendering, dialCalls>>
rcPart == <<network, rcData, rcLine, rcButtons>>
dialPart == <<dialOn, dialing, controls, dot>>

\* External: a call the page sends.  It holds the elements of this rendering.
Free(n) == n \in 1..MaxDialCalls /\ \A c \in dialCalls : c.n # n
Sent(kind, modem, n) ==
  [kind |-> kind, modem |-> modem, n |-> n, form |-> rendering, at |-> "sent", ok |-> TRUE, saw |-> NoStatus]

NoModem == "none"

Cell(on) == IF on THEN "loading" ELSE "off"
Colour(d) == IF d.connected THEN "green" ELSE "red"

DialInit ==
  /\ dialOn \in [Dialers -> BOOLEAN]
  /\ dialing \in [Dialers -> [running : {FALSE}, connected : {FALSE}]]
  /\ controls = [m \in Dialers |-> Cell(dialOn[m])]
  /\ dot \in [Dialers -> [shown : {"grey"}, kept : {"grey"}] \cup [shown : {"red"}, kept : {"red"}]]
  /\ network \in [enabled : BOOLEAN, running : BOOLEAN]
  /\ rcData \in {NoStatus, Status(TRUE, network)}
  /\ rcLine = rcData /\ rcButtons = rcData
  /\ rendering = 0 /\ dialCalls = {}

\* The polls: dial status of the modems with dial enabled, connection, service.
PollDial(m) ==
  /\ dialOn[m]
  /\ \E n \in 1..MaxDialCalls : Free(n) /\ dialCalls' = dialCalls \cup {Sent("dialstatus", m, n)}
  /\ UNCHANGED <<dialPart, rcPart, rendering>>

PollLink(m) ==
  /\ \E n \in 1..MaxDialCalls : Free(n) /\ dialCalls' = dialCalls \cup {Sent("link", m, n)}
  /\ UNCHANGED <<dialPart, rcPart, rendering>>

PollService ==
  /\ \E n \in 1..MaxDialCalls : Free(n) /\ dialCalls' = dialCalls \cup {Sent("rcstatus", NoModem, n)}
  /\ UNCHANGED <<dialPart, rcPart, rendering>>

\* Dial while the modem is seen stopped, Hang and ReDial while it is seen running.
PressDial(m, what) ==
  /\ what \in CASE controls[m] = "dial" -> {"dial"} [] controls[m] = "hang" -> {"hang", "redial"} [] OTHER -> {}
  /\ \E n \in 1..MaxDialCalls : Free(n) /\ dialCalls' = dialCalls \cup {Sent(what, m, n)}
  /\ UNCHANGED <<dialPart, rcPart, rendering>>

PressService(action) ==
  /\ action \in ButtonsOf(rcButtons)
  /\ \E n \in 1..MaxDialCalls : Free(n) /\ dialCalls' = dialCalls \cup {Sent(action, NoModem, n)}
  /\ UNCHANGED <<dialPart, rcPart, rendering>>

\* External: the router carries a call out or fails it; the answer is on its way.
Served(c, ok) ==
  /\ c.at = "sent"
  /\ network' = IF ok /\ c.kind \in Actions THEN After(network, c.kind) ELSE network
  /\ dialing' = IF ok /\ c.kind \in {"dial", "hang", "redial"}
                THEN [dialing EXCEPT ![c.modem] = [running |-> c.kind # "hang", connected |-> FALSE]]
                ELSE dialing
  /\ dialCalls' = (dialCalls \ {c}) \cup {[c EXCEPT !.at = "served", !.ok = ok,
       !.saw = IF c.kind \in {"dialstatus", "link"} /\ ok
               THEN [known |-> TRUE, enabled |-> dialing[c.modem].connected, running |-> dialing[c.modem].running]
               ELSE IF ok /\ c.kind = "rcstatus" THEN Status(TRUE, network) ELSE NoStatus]}
  /\ UNCHANGED <<dialOn, controls, dot, rcData, rcLine, rcButtons, rendering>>

\* External: a dialled modem gets its connection.
Connect(m) ==
  /\ dialing[m].running /\ ~dialing[m].connected
  /\ dialing' = [dialing EXCEPT ![m].connected = TRUE]
  /\ UNCHANGED <<dialOn, controls, dot, rcPart, rendering, dialCalls>>

\* updateDialControls looks for the cell when the answer is there; a modem whose
\* dial was disabled since has none.  A failure is only logged.
DialShown(c) ==
  /\ c.kind = "dialstatus" /\ c.at = "served"
  /\ controls' = IF c.ok /\ controls[c.modem] # "off"
                 THEN [controls EXCEPT ![c.modem] = IF c.saw.running THEN "hang" ELSE "dial"]
                 ELSE controls
  /\ dialCalls' = dialCalls \ {c}
  /\ UNCHANGED <<dialOn, dialing, dot, rcPart, rendering>>

\* Dial and Hang look at the modem a second after they succeeded; ReDial does not.
DialAnswered(c) ==
  /\ c.kind \in {"dial", "hang", "redial"} /\ c.at = "served"
  /\ dialCalls' = (dialCalls \ {c}) \cup IF c.ok /\ c.kind # "redial" THEN {Sent("dialstatus", c.modem, c.n)} ELSE {}
  /\ UNCHANGED <<dialPart, rcPart, rendering>>

\* The dot of the rendering that asked; the answer is also kept, a failure is not.
LinkShown(c) ==
  /\ c.kind = "link" /\ c.at = "served"
  /\ LET seen == IF c.ok THEN Colour([connected |-> c.saw.enabled]) ELSE "yellow" IN
     dot' = [dot EXCEPT ![c.modem] = [shown |-> IF c.form = rendering THEN seen ELSE @.shown,
                                      kept |-> IF c.ok THEN seen ELSE @.kept]]
  /\ dialCalls' = dialCalls \ {c}
  /\ UNCHANGED <<dialOn, dialing, controls, rcPart, rendering>>

\* An init action is followed by a look at the status, done or failed.
ServiceActed(c) ==
  /\ c.kind \in Actions /\ c.at = "served"
  /\ dialCalls' = (dialCalls \ {c}) \cup {Sent("rcstatus", NoModem, c.n)}
  /\ UNCHANGED <<dialPart, rcPart, rendering>>

\* As if only the line were drawn anew when nobody had pressed a button.
StatusLineOnly(c) ==
  /\ c.kind = "rcstatus" /\ c.at = "served"
  /\ rcLine' = IF c.form = rendering THEN c.saw ELSE rcLine
  /\ rcData' = c.saw
  /\ dialCalls' = dialCalls \ {c}
  /\ UNCHANGED <<dialPart, network, rcButtons, rendering>>

\* updateRcStatus: a status draws the line and the buttons, an answer without one
\* or a failure only the line.  An error leaves rcStatusData as it was.
StatusShown(c) ==
  /\ c.kind = "rcstatus" /\ c.at = "served"
  /\ rcData' \in IF c.ok THEN {c.saw} ELSE {rcData, NoStatus}
  /\ rcLine' = IF c.form = rendering THEN c.saw ELSE rcLine
  /\ rcButtons' = IF c.ok /\ c.form = rendering THEN c.saw ELSE rcButtons
  /\ dialCalls' = dialCalls \ {c}
  /\ UNCHANGED <<dialPart, network, rendering>>

\* A save writes the options and renders the form from what the page remembers.
\* Save & Apply then asks the service to reload, which leaves it running as it was.
SaveForm(m, on) ==
  /\ rendering < MaxSaves
  /\ rendering' = rendering + 1
  /\ dialOn' = [dialOn EXCEPT ![m] = on]
  /\ controls' = [d \in Dialers |-> Cell(dialOn'[d])]
  /\ dot' = [d \in Dialers |-> [dot[d] EXCEPT !.shown = dot[d].kept]]
  /\ rcLine' = rcData /\ rcButtons' = rcData
  /\ UNCHANGED <<dialing, network, rcData, dialCalls>>

\* The cells of the modems and the service have no call in common.
CellSteps ==
  \/ \E m \in Dialers :
       \/ PollDial(m) \/ PollLink(m) \/ Connect(m)
       \/ \E what \in {"dial", "hang", "redial"} : PressDial(m, what)
  \/ \E c \in dialCalls : DialShown(c) \/ DialAnswered(c) \/ LinkShown(c)

ServiceSteps ==
  \/ PollService \/ \E a \in Actions : PressService(a)
  \/ \E c \in dialCalls : ServiceActed(c) \/ StatusShown(c)

SharedSteps ==
  \/ \E c \in dialCalls, ok \in BOOLEAN : Served(c, ok)
  \/ \E m \in Dialers, on \in BOOLEAN : SaveForm(m, on)

DialNext == CellSteps \/ ServiceSteps \/ SharedSteps

DialSpec == DialInit /\ [][DialNext]_dialVars

-----------------------------------------------------------------------------
(* The dialog of the dial log: LuCI has one modal at a time.               *)

VARIABLES
  logModal,   \* the dialog that is open: its kind, modem, element, and the log it shows
  logCalls,   \* calls for a log, to clear one, and the timer that opens the dialog again
  logBoxes    \* elements made for logs so far

logVars == <<logModal, logCalls, logBoxes>>
NoLog == [kind |-> "none", modem |-> NoModem, box |-> 0, log |-> NoModem]

LogInit == logModal = NoLog /\ logCalls = {} /\ logBoxes = 0

\* showDialLogDialog makes an element and loads the log into it.
ShowLog(m) ==
  /\ logBoxes < MaxDialCalls
  /\ logBoxes' = logBoxes + 1
  /\ logModal' = [kind |-> "log", modem |-> m, box |-> logBoxes', log |-> NoModem]
  /\ logCalls' = logCalls \cup {[kind |-> "load", modem |-> m, box |-> logBoxes']}

\* View Log is in the page, under the dialogs.
ViewLog(m) == logModal.kind = "none" /\ ShowLog(m)

\* loadDialLog fills the element it was given, in whichever dialog it is.
LogLoaded(c) ==
  /\ c.kind = "load"
  /\ logModal' = IF logModal.kind = "log" /\ logModal.box = c.box THEN [logModal EXCEPT !.log = c.modem] ELSE logModal
  /\ logCalls' = logCalls \ {c}
  /\ UNCHANGED logBoxes

\* Clear replaces the dialog with a question; Confirm leaves that one open.
AskClear ==
  /\ logModal.kind = "log"
  /\ logModal' = [NoLog EXCEPT !.kind = "clear", !.modem = logModal.modem]
  /\ UNCHANGED <<logCalls, logBoxes>>

ConfirmClear ==
  /\ logModal.kind = "clear" /\ Cardinality(logCalls) < MaxDialCalls
  /\ logCalls' = logCalls \cup {[kind |-> "clear", modem |-> logModal.modem, box |-> logBoxes]}
  /\ UNCHANGED <<logModal, logBoxes>>

\* The answer closes the dialog that is open, whichever it is; after a success the
\* log is shown again 300 ms later.
Cleared(c, ok) ==
  /\ c.kind = "clear"
  /\ logModal' = NoLog
  /\ logCalls' = (logCalls \ {c}) \cup IF ok THEN {[c EXCEPT !.kind = "again"]} ELSE {}
  /\ UNCHANGED logBoxes

ShowAgain(c) ==
  /\ c.kind = "again" /\ logBoxes < MaxDialCalls
  /\ logBoxes' = logBoxes + 1
  /\ logModal' = [kind |-> "log", modem |-> c.modem, box |-> logBoxes', log |-> NoModem]
  /\ logCalls' = (logCalls \ {c}) \cup {[kind |-> "load", modem |-> c.modem, box |-> logBoxes']}

\* Close and Cancel.
CloseLog == logModal.kind # "none" /\ logModal' = NoLog /\ UNCHANGED <<logCalls, logBoxes>>

LogNext ==
  \/ \E m \in Dialers : ViewLog(m)
  \/ AskClear \/ ConfirmClear \/ CloseLog
  \/ \E c \in logCalls : LogLoaded(c) \/ ShowAgain(c) \/ \E ok \in BOOLEAN : Cleared(c, ok)

-----------------------------------------------------------------------------
(* Properties.                                                             *)

\* A modem whose dialling is disabled gets no dial buttons from an answer that was
\* under way when it was disabled.
NoButtonsWhenOff == \A m \in Dialers : controls[m] = "off" <=> ~dialOn[m]

\* The buttons never contradict the status line above them: a line that says how
\* the service is stands over the buttons of that status, whichever of the polls,
\* the actions and the renderings came last.
LineAndButtonsAgree == rcLine.known => rcButtons = rcLine

\* A dialog never shows the log of another modem than the one in its title, though
\* dialogs close, reopen and load while older answers are under way.
LogIsOfModem == logModal.log \in {NoModem, logModal.modem}

\* Line, buttons, cells and dialog never contradict one another or the form.
ControlsAgree == NoButtonsWhenOff /\ LineAndButtonsAgree /\ LogIsOfModem
===============================================================================
