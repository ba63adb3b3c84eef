------------------------------ MODULE ModemTools ------------------------------
(***************************************************************************)
(* Two views of luci-app-qmodem-next that build an interface of their own  *)
(* for every modem selected: SIM Switch (view/qmodem/sim_switch.js) and AT *)
(* Debug (view/qmodem/debug.js).  The modem itself is external: it carries *)
(* a request out some time before the answer is handled.                   *)
(***************************************************************************)
EXTENDS Naturals, Sequences, FiniteSets

CONSTANTS
  ToolModems,   \* the enabled modems
  Slots,        \* the SIM slots of a modem
  MaxPanes,     \* interfaces the selector makes
  MaxSent       \* calls in flight at once

ASSUME ToolAssumption == ToolModems # {}

VARIABLES
  simPane,   \* the SIM interface shown, its widgets
  simCalls,  \* calls of SIM interfaces in flight
  simSlot,   \* external: the slot each modem uses
  atPane,    \* the AT interface shown, its widgets
  atCalls    \* calls of AT interfaces in flight

simVars == <<simPane, simCalls, simSlot>>
atVars == <<atPane, atCalls>>
toolVars == <<simPane, simCalls, simSlot, atPane, atCalls>>

Busy(m) == \E c \in simCalls : c.op = "set" /\ c.modem = m

\* A new interface asks for the capabilities and the slot of its modem at once.
\* overlapped records whether a switch of that modem was under way.
NewSimPane(m, id) == [modem |-> m, id |-> id, state |-> "loading", buttons |-> {}, marked |-> "N/A",
                      off |-> FALSE, result |-> "none", overlapped |-> Busy(m)]
Asked(m, id) == [op |-> "load", modem |-> m, of |-> id, slot |-> "N/A", at |-> "sent", ok |-> TRUE]

SimInit ==
  /\ simSlot \in [ToolModems -> Slots]
  /\ simCalls = {Asked(CHOOSE m \in ToolModems : TRUE, 1)}
  /\ simPane = [modem |-> CHOOSE m \in ToolModems : TRUE, id |-> 1, state |-> "loading", buttons |-> {},
                marked |-> "N/A", off |-> FALSE, result |-> "none", overlapped |-> FALSE]

SimSelect(m) ==
  /\ m # simPane.modem
  /\ simPane.id < MaxPanes
  /\ simPane' = NewSimPane(m, simPane.id + 1)
  /\ simCalls' = simCalls \cup {Asked(m, simPane.id + 1)}
  /\ UNCHANGED simSlot

\* External: the modem carries a call out, or refuses it.
ModemServes(c, ok) ==
  /\ c.at = "sent"
  /\ simSlot' = IF ok /\ c.op = "set" THEN [simSlot EXCEPT ![c.modem] = c.slot] ELSE simSlot
  /\ simCalls' = (simCalls \ {c}) \cup
       {[c EXCEPT !.at = "answered", !.ok = ok, !.slot = IF c.op = "load" THEN simSlot[c.modem] ELSE @]}
  /\ UNCHANGED simPane

\* Buttons only where switching is supported and both the slot and slots are known.
SimLoaded(c, supported, slots) ==
  /\ c.op = "load" /\ c.at = "answered"
  /\ simCalls' = simCalls \ {c}
  /\ simPane' = IF c.of # simPane.id THEN simPane
                ELSE IF ~c.ok THEN [simPane EXCEPT !.state = "failed"]
                ELSE [simPane EXCEPT !.state = "ready", !.marked = c.slot,
                                     !.buttons = IF supported THEN slots ELSE {}]
  /\ UNCHANGED simSlot

\* switchSimSlot disables all buttons of its interface.
SwitchSlot(s) ==
  /\ s \in simPane.buttons /\ ~simPane.off
  /\ Cardinality(simCalls) < MaxSent
  /\ simPane' = [simPane EXCEPT !.off = TRUE, !.result = "switching"]
  /\ simCalls' = simCalls \cup {[op |-> "set", modem |-> simPane.modem, of |-> simPane.id,
                                 slot |-> s, at |-> "sent", ok |-> TRUE]}
  /\ UNCHANGED simSlot

\* As if the answer marked no button.
SlotSwitchedQuietly(c) ==
  /\ c.op = "set" /\ c.at = "answered"
  /\ simCalls' = simCalls \ {c}
  /\ simPane' = IF c.of # simPane.id THEN simPane
                ELSE [simPane EXCEPT !.off = FALSE, !.result = IF c.ok THEN "success" ELSE "failed"]
  /\ UNCHANGED simSlot

SlotSwitched(c) ==
  /\ c.op = "set" /\ c.at = "answered"
  /\ simCalls' = simCalls \ {c}
  /\ simPane' = IF c.of # simPane.id THEN simPane
                ELSE [simPane EXCEPT !.off = FALSE, !.result = IF c.ok THEN "success" ELSE "failed",
                                     !.marked = IF c.ok THEN c.slot ELSE @]
  /\ UNCHANGED simSlot

SimNext ==
  \/ \E m \in ToolModems : SimSelect(m)
  \/ \E c \in simCalls, yes \in BOOLEAN : ModemServes(c, yes)
  \/ \E c \in simCalls, yes \in BOOLEAN, S \in SUBSET Slots : SimLoaded(c, yes, S)
  \/ \E s \in Slots : SwitchSlot(s)
  \/ \E c \in simCalls : SlotSwitched(c)

-----------------------------------------------------------------------------
(* AT Debug.                                                               *)

NewAtPane(m, id) == [modem |-> m, id |-> id, state |-> "loading", command |-> "empty",
                     response |-> [of |-> "none", modem |-> m], sent |-> 0]

AtInit ==
  /\ atPane = NewAtPane(CHOOSE m \in ToolModems : TRUE, 1)
  /\ atCalls = {[op |-> "load", modem |-> CHOOSE m \in ToolModems : TRUE, of |-> 1, nth |-> 0]}

AtSelect(m) ==
  /\ m # atPane.modem
  /\ atPane.id < MaxPanes
  /\ atPane' = NewAtPane(m, atPane.id + 1)
  /\ atCalls' = atCalls \cup {[op |-> "load", modem |-> m, of |-> atPane.id + 1, nth |-> 0]}

\* The command form is built by the answer of getAtCfg.
AtLoaded(c, ok) ==
  /\ c.op = "load"
  /\ atCalls' = atCalls \ {c}
  /\ atPane' = IF c.of = atPane.id THEN [atPane EXCEPT !.state = IF ok THEN "ready" ELSE "failed"] ELSE atPane

\* Typing a command, or a quick command, which fills the input of its modem.
EnterCommand ==
  /\ atPane.state = "ready" /\ atPane.command = "empty"
  /\ atPane' = [atPane EXCEPT !.command = "typed"]
  /\ UNCHANGED atCalls

\* The send button stays enabled; an empty command is refused in the response area.
SendAt ==
  /\ atPane.state = "ready"
  /\ IF atPane.command = "empty"
     THEN /\ atPane' = [atPane EXCEPT !.response.of = "refused"]
          /\ UNCHANGED atCalls
     ELSE /\ Cardinality(atCalls) < MaxSent /\ atPane.sent < MaxSent
          /\ atPane' = [atPane EXCEPT !.response.of = "sending", !.sent = @ + 1]
          /\ atCalls' = atCalls \cup {[op |-> "send", modem |-> atPane.modem, of |-> atPane.id,
                                       nth |-> atPane.sent + 1]}

\* Answers are written in the order they come, not in the order of the commands.
AtAnswered(c) ==
  /\ c.op = "send"
  /\ atCalls' = atCalls \ {c}
  /\ atPane' = IF c.of = atPane.id
               THEN [atPane EXCEPT !.response = [of |-> "answer", modem |-> c.modem]] ELSE atPane

AtNext ==
  \/ \E m \in ToolModems : AtSelect(m)
  \/ \E c \in atCalls : AtAnswered(c) \/ \E yes \in BOOLEAN : AtLoaded(c, yes)
  \/ EnterCommand \/ SendAt

-----------------------------------------------------------------------------
(* Properties.                                                             *)

\* An interface has at most one switch under way, the button that started it
\* disabled until it is answered: two slots are never requested at once from it.
OneSwitchAtATime ==
  LET own == {c \in simCalls : c.op = "set" /\ c.of = simPane.id} IN
  Cardinality(own) <= 1 /\ (simPane.off <=> own # {})

\* When nothing is under way, the button marked as current is the slot the modem
\* uses, if no switch of that modem was under way when the interface was built:
\* else the slot it loaded may be the one before that switch.
MarkedIsSlot ==
  (simPane.state = "ready" /\ ~simPane.off /\ ~simPane.overlapped)
    => simPane.marked = simSlot[simPane.modem]

\* The response shown is of the modem selected, and "Sending command..." stands
\* only while a command of this interface is under way.
ResponseIsOfModem ==
  /\ atPane.response.modem = atPane.modem
  /\ atPane.response.of = "sending" => \E c \in atCalls : c.op = "send" /\ c.of = atPane.id

\* What the two views tell about a modem is of that modem, and one thing is asked of
\* it at a time.
ToolsShowModem == OneSwitchAtATime /\ MarkedIsSlot /\ ResponseIsOfModem
===============================================================================
