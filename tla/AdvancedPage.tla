----------------------------- MODULE AdvancedPage -----------------------------
(***************************************************************************)
(* The "Advanced Configuration" view of luci-app-qmodem-next               *)
(* (view/qmodem/config_advanced.js): a modem selector, one tab interface   *)
(* for the modem it shows, and six tabs whose widgets load from and write  *)
(* to that modem by ubus calls that answer in any order.                   *)
(*                                                                         *)
(* Every call carries the interface it was made from (its closure): an     *)
(* answer to a call of a replaced interface changes widgets nobody sees.   *)
(***************************************************************************)
EXTENDS Naturals, Sequences, FiniteSets

CONSTANTS
  Modems,         \* the enabled modems of the selector
  DisabledSets,   \* what getDisabledFeatures may answer
  BandClasses,    \* the band classes of a modem, named apart from the buttons
  Bands,          \* band ids; those a class offers are any subset
  MaxInterfaces,  \* how many times the selector asks for an interface
  MaxCalls        \* how many tab calls are in flight at once

ASSUME AdvAssumption ==
  /\ Modems # {} /\ MaxInterfaces \in Nat \ {0}
  /\ BandClasses \cap {"DialMode", "RatPrefer", "IMEI", "scan", "unlock", "lock", "soft", "hard"} = {}

FeatureOrder == <<"DialMode", "RatPrefer", "IMEI", "NeighborCell", "LockBand", "RebootModem">>
Features == {FeatureOrder[i] : i \in DOMAIN FeatureOrder}

\* The tabs with a value, a load and one Apply button that starts disabled.
Fields == {"DialMode", "RatPrefer", "IMEI"}
Buttons == Fields \cup {"scan", "unlock", "lock", "soft", "hard"} \cup BandClasses

VARIABLES
  chosen,     \* the value of the selector
  asked,      \* getDisabledFeatures calls in flight
  interfaces, \* interfaces asked for so far
  pane,       \* what the tab container holds
  tabs,       \* the widgets of the interface in the container
  calls       \* the calls of tabs in flight, those of replaced interfaces too

advVars == <<chosen, asked, interfaces, pane, tabs, calls>>

Call(op, on) == [op |-> op, on |-> on, modem |-> pane.modem, of |-> pane.id]

\* An interface before any tab of it is built.
NoTabs == [open |-> "none", built |-> {}, off |-> {}, field |-> [f \in Fields |-> "none"],
           digits |-> FALSE, nr |-> FALSE, nrRows |-> FALSE, cellIds |-> FALSE, cellBand |-> FALSE,
           cells |-> {}, offers |-> [c \in BandClasses |-> {}], draft |-> [c \in BandClasses |-> {}],
           boxes |-> [c \in BandClasses |-> {}], reboots |-> {}]

Empty(kind) == [kind |-> kind, modem |-> chosen, id |-> 0]

\* A tab's handler: its widgets, and the load it starts.
Built(t, f) == [t EXCEPT !.built = @ \cup {f},
                         !.off = IF f \in Fields THEN @ \cup {f} ELSE @,
                         !.field = IF f \in Fields THEN [@ EXCEPT ![f] = "loading"] ELSE @]
LoadsOf(f, modem, id) ==
  IF f = "NeighborCell" THEN {} ELSE {[op |-> "load", on |-> f, modem |-> modem, of |-> id]}

FirstOf(F) == FeatureOrder[CHOOSE i \in DOMAIN FeatureOrder :
                /\ FeatureOrder[i] \in F
                /\ \A j \in 1..(i - 1) : FeatureOrder[j] \notin F]

AdvInit ==
  /\ chosen = CHOOSE m \in Modems : TRUE
  /\ asked = {[modem |-> chosen, id |-> 1]}
  /\ interfaces = 1
  /\ pane = Empty("loading")
  /\ tabs = NoTabs
  /\ calls = {}

\* The selector's change handler: the old interface goes, the new one is asked for.
SelectModem(m) ==
  /\ m # chosen
  /\ interfaces < MaxInterfaces
  /\ chosen' = m
  /\ interfaces' = interfaces + 1
  /\ asked' = asked \cup {[modem |-> m, id |-> interfaces + 1]}
  /\ pane' = [kind |-> "loading", modem |-> m, id |-> 0]
  /\ tabs' = NoTabs
  /\ UNCHANGED calls

\* createTabInterface of the modem the answer is about; the first tab is built at once.
FeaturesAnswered(a, disabled) ==
  LET F == Features \ disabled IN
  /\ asked' = asked \ {a}
  /\ IF F = {}
     THEN /\ pane' = [kind |-> "none", modem |-> a.modem, id |-> 0]
          /\ tabs' = NoTabs
          /\ UNCHANGED calls
     ELSE /\ pane' = [kind |-> "tabs", modem |-> a.modem, id |-> a.id, features |-> F]
          /\ tabs' = Built([NoTabs EXCEPT !.open = FirstOf(F)], FirstOf(F))
          /\ calls' = calls \cup LoadsOf(FirstOf(F), a.modem, a.id)
  /\ UNCHANGED <<chosen, interfaces>>

FeaturesFailed(a) ==
  /\ asked' = asked \ {a}
  /\ pane' = [kind |-> "error", modem |-> a.modem, id |-> 0]
  /\ tabs' = NoTabs
  /\ UNCHANGED <<chosen, interfaces, calls>>

\* A tab is built when it is first opened.
OpenTab(f) ==
  /\ pane.kind = "tabs"
  /\ f \in pane.features \ {tabs.open}
  /\ IF f \in tabs.built
     THEN tabs' = [tabs EXCEPT !.open = f] /\ UNCHANGED calls
     ELSE /\ Cardinality(calls) < MaxCalls
          /\ tabs' = Built([tabs EXCEPT !.open = f], f)
          /\ calls' = calls \cup LoadsOf(f, pane.modem, pane.id)
  /\ UNCHANGED <<chosen, asked, interfaces, pane>>

-----------------------------------------------------------------------------
(* Answers.  Of a call c of a replaced interface only the removal is seen. *)

Seen(c) == c.of = pane.id
Answered(c, t, next) ==
  /\ tabs' = IF Seen(c) THEN t ELSE tabs
  /\ calls' = (calls \ {c}) \cup next
  /\ UNCHANGED <<chosen, asked, interfaces, pane>>
Follow(c, op, on) == [c EXCEPT !.op = op, !.on = on]

\* loadDialMode, loadNetworkPrefer: only an answer with choices enables Apply.
ValueLoaded(c, good) ==
  /\ c.op = "load" /\ c.on \in {"DialMode", "RatPrefer"}
  /\ Answered(c, [tabs EXCEPT !.field[c.on] = IF good THEN "value" ELSE "failed",
                              !.off = IF good THEN @ \ {c.on} ELSE @], {})

\* loadImei: a 15-digit answer is put into the input, whose input event enables
\* the Apply button that the document holds for that modem, whoever built it.
ImeiLoaded(c, good) ==
  /\ c.op = "load" /\ c.on = "IMEI"
  /\ calls' = calls \ {c}
  /\ tabs' = LET enabled == IF good /\ pane.kind = "tabs" /\ pane.modem = c.modem
                            THEN [tabs EXCEPT !.off = @ \ {"IMEI"}] ELSE tabs
             IN  IF Seen(c)
                 THEN [enabled EXCEPT !.field["IMEI"] = IF good THEN "value" ELSE "failed",
                                      !.digits = good \/ @]
                 ELSE enabled
  /\ UNCHANGED <<chosen, asked, interfaces, pane>>

\* Typing in the IMEI input: 15 digits enable Apply, anything else disables it.
TypeImei(full) ==
  /\ "IMEI" \in tabs.built
  /\ tabs' = [tabs EXCEPT !.digits = full, !.off = IF full THEN @ \ {"IMEI"} ELSE @ \cup {"IMEI"}]
  /\ UNCHANGED <<chosen, asked, interfaces, pane, calls>>

\* The Apply handlers of the three value tabs.
SubmitField(f) ==
  /\ f \in tabs.built \ tabs.off
  /\ f = "IMEI" => tabs.digits
  /\ Cardinality(calls) < MaxCalls
  /\ tabs' = [tabs EXCEPT !.off = @ \cup {f}]
  /\ calls' = calls \cup {Call("set", f)}
  /\ UNCHANGED <<chosen, asked, interfaces, pane>>

\* As if the handler enabled Apply before the reload, as the failure path does.
FieldSetEnables(c, ok) ==
  /\ c.op = "set" /\ c.on \in Fields
  /\ Answered(c, [tabs EXCEPT !.off = @ \ {c.on}], IF ok THEN {Follow(c, "load", c.on)} ELSE {})

\* A set that succeeded loads the value again and leaves Apply to that load.
FieldSet(c, ok) ==
  /\ c.op = "set" /\ c.on \in Fields
  /\ Answered(c, IF ok THEN tabs ELSE [tabs EXCEPT !.off = @ \ {c.on}],
              IF ok THEN {Follow(c, "load", c.on)} ELSE {})

-----------------------------------------------------------------------------
(* Neighbor cells.                                                         *)

Press(b, op) ==
  /\ b \notin tabs.off
  /\ Cardinality(calls) < MaxCalls
  /\ tabs' = [tabs EXCEPT !.off = @ \cup {b}, !.cells = IF b = "scan" THEN {} ELSE @]
  /\ calls' = calls \cup {Call(op, b)}
  /\ UNCHANGED <<chosen, asked, interfaces, pane>>

ScanCells == "NeighborCell" \in tabs.built /\ Press("scan", "scan")
UnlockCell == "NeighborCell" \in tabs.built /\ Press("unlock", "set")
LockCell ==
  /\ "NeighborCell" \in tabs.built
  /\ tabs.cellIds
  /\ tabs.nr => tabs.cellBand
  /\ Press("lock", "set")

CellsScanned(c, found) ==
  /\ c.op = "scan"
  /\ Answered(c, [tabs EXCEPT !.off = @ \ {"scan"}, !.cells = found], {})

\* The answer to a lock or an unlock enables its button; a success asks for the status.
CellSet(c, ok) ==
  /\ c.op = "set" /\ c.on \in {"lock", "unlock"}
  /\ Answered(c, [tabs EXCEPT !.off = @ \ {c.on}], IF ok THEN {Follow(c, "status", "scan")} ELSE {})

\* updateLockCellStatus writes the status text only.
RadioStatusShown(c) == c.op = "status" /\ Answered(c, tabs, {})

ChangeRat(nr) ==
  /\ "NeighborCell" \in tabs.built
  /\ nr # tabs.nr
  /\ tabs' = [tabs EXCEPT !.nr = nr, !.nrRows = nr]
  /\ UNCHANGED <<chosen, asked, interfaces, pane, calls>>

TypeCell(ids, band) ==
  /\ "NeighborCell" \in tabs.built
  /\ band # tabs.cellBand => tabs.nrRows
  /\ tabs' = [tabs EXCEPT !.cellIds = ids, !.cellBand = band]
  /\ UNCHANGED <<chosen, asked, interfaces, pane, calls>>

\* The Copy button of a scanned cell.
CopyCell(rat, hasBand) ==
  /\ rat \in tabs.cells
  /\ tabs' = [tabs EXCEPT !.nr = (rat = "NR"), !.nrRows = (rat = "NR"),
                          !.cellIds = TRUE, !.cellBand = hasBand]
  /\ UNCHANGED <<chosen, asked, interfaces, pane, calls>>

-----------------------------------------------------------------------------
(* Band locks.  draft is lockbandState[class].locked, boxes the checkboxes. *)

\* loadLockBand rebuilds every class, with its Apply buttons enabled.
BandsLoaded(c, offers, locked) ==
  /\ c.op = "load" /\ c.on = "LockBand"
  /\ Answered(c, [tabs EXCEPT !.offers = offers, !.draft = locked,
                              !.boxes = [k \in BandClasses |-> locked[k] \cap offers[k]],
                              !.off = @ \ BandClasses], {})
BandsFailed(c) ==
  /\ c.op = "load" /\ c.on = "LockBand"
  /\ Answered(c, [tabs EXCEPT !.offers = [k \in BandClasses |-> {}], !.draft = [k \in BandClasses |-> {}],
                              !.boxes = [k \in BandClasses |-> {}]], {})

ToggleBand(k, b) ==
  /\ b \in tabs.offers[k]
  /\ LET on == b \notin tabs.boxes[k] IN
     tabs' = [tabs EXCEPT !.boxes[k] = IF on THEN @ \cup {b} ELSE @ \ {b},
                          !.draft[k] = IF on THEN @ \cup {b} ELSE @ \ {b}]
  /\ UNCHANGED <<chosen, asked, interfaces, pane, calls>>

\* Select All / None compares lengths, and the draft may hold bands not offered.
SelectAllBands(k) ==
  /\ tabs.offers[k] # {}
  /\ LET all == Cardinality(tabs.draft[k]) = Cardinality(tabs.offers[k])
         now == IF all THEN {} ELSE tabs.offers[k]
     IN  tabs' = [tabs EXCEPT !.draft[k] = now, !.boxes[k] = now]
  /\ UNCHANGED <<chosen, asked, interfaces, pane, calls>>

ApplyBands(k) == tabs.offers[k] # {} /\ Press(k, "set")

BandsSet(c, ok) ==
  /\ c.op = "set" /\ c.on \in BandClasses
  /\ Answered(c, IF ok THEN tabs ELSE [tabs EXCEPT !.off = @ \ {c.on}],
              IF ok THEN {Follow(c, "load", "LockBand")} ELSE {})

-----------------------------------------------------------------------------
(* Reboots.                                                                *)

CapsLoaded(c, caps) ==
  /\ c.op = "load" /\ c.on = "RebootModem"
  /\ Answered(c, [tabs EXCEPT !.reboots = caps], {})

Reboot(b) == b \in tabs.reboots /\ Press(b, "set")

\* A started reboot keeps its button for 10 s (soft) or 15 s (hard) more.
RebootDone(c, ok) ==
  /\ c.op = "set" /\ c.on \in {"soft", "hard"}
  /\ Answered(c, IF ok THEN tabs ELSE [tabs EXCEPT !.off = @ \ {c.on}],
              IF ok THEN {Follow(c, "timer", c.on)} ELSE {})
RebootWaited(c) ==
  /\ c.op = "timer"
  /\ Answered(c, [tabs EXCEPT !.off = @ \ {c.on}], {})

-----------------------------------------------------------------------------
AdvNext ==
  \/ \E m \in Modems : SelectModem(m)
  \/ \E a \in asked : FeaturesFailed(a) \/ \E D \in DisabledSets : FeaturesAnswered(a, D)
  \/ \E f \in Features : OpenTab(f)
  \/ \E f \in Fields : SubmitField(f)
  \/ \E yes \in BOOLEAN : TypeImei(yes) \/ ChangeRat(yes)
  \/ \E c \in calls, yes \in BOOLEAN :
       ValueLoaded(c, yes) \/ ImeiLoaded(c, yes) \/ FieldSet(c, yes) \/ CellSet(c, yes)
         \/ BandsSet(c, yes) \/ RebootDone(c, yes)
  \/ \E c \in calls : RadioStatusShown(c) \/ BandsFailed(c) \/ RebootWaited(c)
  \/ ScanCells \/ UnlockCell \/ LockCell
  \/ \E c \in calls, found \in SUBSET {"LTE", "NR"} : CellsScanned(c, found)
  \/ \E ids, band \in BOOLEAN : TypeCell(ids, band)
  \/ \E rat \in {"LTE", "NR"}, band \in BOOLEAN : CopyCell(rat, band)
  \/ \E c \in calls, offers, locked \in [BandClasses -> SUBSET Bands] : BandsLoaded(c, offers, locked)
  \/ \E k \in BandClasses : SelectAllBands(k) \/ ApplyBands(k) \/ \E b \in Bands : ToggleBand(k, b)
  \/ \E c \in calls, caps \in SUBSET {"soft", "hard"} : CapsLoaded(c, caps)
  \/ \E b \in {"soft", "hard"} : Reboot(b)

AdvSpec == AdvInit /\ [][AdvNext]_advVars

-----------------------------------------------------------------------------
(* Properties.                                                             *)

\* The widgets of the view, and calls that name an interface asked for.
AdvTypeOK ==
  /\ chosen \in Modems
  /\ interfaces \in 1..MaxInterfaces
  /\ \A a \in asked : a.modem \in Modems /\ a.id \in 1..interfaces
  /\ pane.kind \in {"loading", "none", "error", "tabs"}
  /\ pane.kind = "tabs" => pane.id \in 1..interfaces /\ tabs.open \in pane.features
  /\ tabs.built \subseteq Features /\ tabs.off \subseteq Buttons
  /\ \A c \in calls : c.modem \in Modems /\ c.of \in 1..interfaces

\* The Apply button of the dial mode and of the network preference can be
\* pressed exactly when nothing of that tab is in flight, unless its last load
\* failed: a setting is not sent twice, and no success leaves the button dead.
ApplyWhenIdle ==
  \A f \in {"DialMode", "RatPrefer"} \cap tabs.built :
    (f \in tabs.off) <=> \/ \E c \in calls : c.on = f /\ Seen(c)
                        \/ tabs.field[f] = "failed"

\* What Apply sends of a band class is what its checkboxes show, bands apart
\* that the modem reports as locked but does not offer.
BoxesAreDraft ==
  \A k \in BandClasses : tabs.boxes[k] = tabs.draft[k] \cap tabs.offers[k]

\* The lock form of neighbour cells has its NR rows exactly when NR is selected,
\* by hand or by copying a scanned cell, so an NR lock is sent with its band.
NrRowsOfNr == tabs.nrRows = tabs.nr

\* What the page sends is what it shows, and it sends it when it may: the parts above.
SettingsSentAsShown == AdvTypeOK /\ ApplyWhenIdle /\ BoxesAreDraft /\ NrRowsOfNr
===============================================================================
