----------------------------- MODULE OverviewPage -----------------------------
(***************************************************************************)
(* The overview of luci-app-qmodem-next (view/qmodem/overview.js): a modem *)
(* selector over a container of tables, one per class of information, that *)
(* a refresh of the selected modem updates every 10 s.                     *)
(*                                                                         *)
(* A refresh keeps the tables_map it was started with.  Selecting a modem  *)
(* starts a new one, so an answer may work on a map nobody looks at while  *)
(* it still adds its tables to the one container of the page.              *)
(***************************************************************************)
EXTENDS Naturals, Sequences, FiniteSets, Lists

CONSTANTS
  OvModems,    \* the enabled modems with an AT port
  OvClasses,   \* the classes of information a modem reports
  OvEntries,   \* what a class may hold: sequences of "text", "blank", "bar"
  Translated,  \* whether the page's language translates the class names
  MaxMaps,     \* how many tables_maps the page makes
  MaxRefresh,  \* how many refreshes are in flight at once
  MaxMoves     \* how often the user moves or folds a table

ASSUME OverviewAssumption ==
  /\ OvModems # {} /\ IsFiniteSet(OvClasses)
  /\ OvEntries \subseteq Seq({"text", "blank", "bar"})

VARIABLES
  ovChosen,    \* the value of the selector
  ovMaps,      \* every tables_map made: its modem and the rows of each of its tables
  ovBox,       \* the container: a spinner, an alert, tables in order
  ovCalls,     \* refreshes in flight
  ovStore,     \* localStorage: the order and the collapsed tables of a modem
  ovFresh,     \* whether the last answer moved the "Last update" time
  ovMoves      \* tables moved or folded so far

ovVars == <<ovChosen, ovMaps, ovBox, ovCalls, ovStore, ovFresh, ovMoves>>

Gen == Len(ovMaps)
Keys(f) == DOMAIN f

Title(c) == IF Translated THEN <<"translated", c>> ELSE c

\* A row shows its entry; a text without a value hides it.
NewTr(row, entry) == CASE entry = "text" -> "text"
                       [] entry = "blank" -> "hidden"
                       [] entry = "bar" -> "bar"

\* Rows are added or removed to match, then every row is written.
SetArrayData(rows, value) ==
  LET kept == [i \in 1..Len(value) |-> IF i <= Len(rows) THEN rows[i] ELSE "new"]
  IN  [i \in 1..Len(value) |-> NewTr(kept[i], value[i])]

\* The saved order first, then the classes it does not name.  A title saved twice,
\* from a page with tables of two modems, makes one table.
Ordered(saved, grouped) ==
  LET named == {i \in DOMAIN saved : saved[i] \in Keys(grouped) /\ \A j \in 1..(i - 1) : saved[j] # saved[i]}
  IN  Picked(saved, named) \o Seqs!SetToSeq(Keys(grouped) \ {saved[i] : i \in named})

\* Of those, the ones without a table.
Fresh(saved, grouped, map) ==
  LET order == Ordered(saved, grouped)
  IN  Picked(order, {i \in DOMAIN order : order[i] \notin Keys(map)})

\* updateModemInfo shows the spinner in place of everything when the map is empty.
Waiting(box, map) == IF Keys(map) = {} THEN [spinner |-> TRUE, alert |-> FALSE, tables |-> <<>>] ELSE box
NoTables == [c \in {} |-> <<>>]
NewMap(m) == [modem |-> m, rows |-> NoTables]
ModemOf(t) == ovMaps[t.gen].modem

OvInit ==
  /\ ovChosen = CHOOSE m \in OvModems : TRUE
  /\ ovMaps = <<NewMap(ovChosen)>>
  /\ ovBox = [spinner |-> TRUE, alert |-> FALSE, tables |-> <<>>]
  /\ ovCalls = {[modem |-> ovChosen, gen |-> 1, nth |-> 1]}
  /\ ovStore = [order |-> [m \in OvModems |-> <<>>], shut |-> {}]
  /\ ovFresh = FALSE
  /\ ovMoves = 0

Refresh(modem, gen) ==
  LET free == {n \in 1..MaxRefresh : \A c \in ovCalls : c.nth # n}
  IN  /\ free # {}
      /\ ovCalls' = ovCalls \cup {[modem |-> modem, gen |-> gen,
                                   nth |-> CHOOSE n \in free : \A k \in free : n <= k]}

\* The selector: the tables of the map leave the page, a new map begins.
OvSelect(m) ==
  /\ m # ovChosen
  /\ Gen < MaxMaps
  /\ Refresh(m, Gen + 1)
  /\ ovChosen' = m
  /\ ovMaps' = Append(ovMaps, NewMap(m))
  /\ ovBox' = Waiting(ovBox, NoTables)
  /\ UNCHANGED <<ovStore, ovFresh, ovMoves>>

\* The poll function returns no promise: the next one does not wait for it.
OvPoll ==
  /\ Refresh(ovChosen, Gen)
  /\ ovBox' = Waiting(ovBox, ovMaps[Gen].rows)
  /\ UNCHANGED <<ovChosen, ovMaps, ovStore, ovFresh, ovMoves>>

\* As if a class that vanished left its table on the page.
OvAnsweredKeeps(c, grouped) ==
  LET map   == ovMaps[c.gen].rows
      fresh == Fresh(ovStore.order[c.modem], grouped, map)
  IN  /\ ovCalls' = ovCalls \ {c}
      /\ ovMaps' = [ovMaps EXCEPT ![c.gen].rows =
                      [k \in Keys(grouped) |->
                         SetArrayData(IF k \in Keys(map) THEN map[k] ELSE <<>>, grouped[k])]]
      /\ ovBox' = [ovBox EXCEPT !.spinner = FALSE,
                     !.tables = @ \o [i \in DOMAIN fresh |-> [class |-> fresh[i], gen |-> c.gen, shut |-> FALSE]]]
      /\ ovFresh' = TRUE
      /\ UNCHANGED <<ovChosen, ovStore, ovMoves>>

\* All parts of a refresh answered.  Tables of classes that are gone are removed,
\* new ones are appended to the container, each takes its saved collapsed state.
\* A table that is in the map is taken to be on the page.
OvAnswered(c, grouped) ==
  LET map     == ovMaps[c.gen].rows
      fresh   == Fresh(ovStore.order[c.modem], grouped, map)
      isShut(k) == <<c.modem, k>> \in ovStore.shut
      left    == Picked(ovBox.tables, {i \in DOMAIN ovBox.tables :
                                       ovBox.tables[i].gen = c.gen => ovBox.tables[i].class \in Keys(grouped)})
      updated == [i \in DOMAIN left |-> IF left[i].gen = c.gen
                                        THEN [left[i] EXCEPT !.shut = isShut(left[i].class)] ELSE left[i]]
      added   == [i \in DOMAIN fresh |-> [class |-> fresh[i], gen |-> c.gen, shut |-> isShut(fresh[i])]]
  IN  /\ ovCalls' = ovCalls \ {c}
      /\ ovMaps' = [ovMaps EXCEPT ![c.gen].rows =
                      [k \in Keys(grouped) |->
                         SetArrayData(IF k \in Keys(map) THEN map[k] ELSE <<>>, grouped[k])]]
      /\ ovBox' = [ovBox EXCEPT !.spinner = FALSE, !.tables = updated \o added]
      /\ ovFresh' = TRUE
      /\ UNCHANGED <<ovChosen, ovStore, ovMoves>>

\* One part failed: the alert takes the place of whatever the container holds.
OvFailed(c) ==
  /\ ovCalls' = ovCalls \ {c}
  /\ ovBox' = [spinner |-> FALSE, alert |-> TRUE, tables |-> <<>>]
  /\ ovFresh' = FALSE
  /\ UNCHANGED <<ovChosen, ovMaps, ovStore, ovMoves>>

-----------------------------------------------------------------------------
(* Handlers of one table on the page.  They keep the modem of its map.     *)

Toggle(i) ==
  /\ ovMoves < MaxMoves /\ ovMoves' = ovMoves + 1
  /\ LET t   == ovBox.tables[i]
         key == <<ModemOf(t), t.class>>
     IN  /\ ovBox' = [ovBox EXCEPT !.tables[i].shut = ~ @]
         /\ ovStore' = [ovStore EXCEPT !.shut = IF t.shut THEN @ \ {key} ELSE @ \cup {key}]
  /\ UNCHANGED <<ovChosen, ovMaps, ovCalls, ovFresh>>

\* Dropping table i on table j puts it before j and saves the titles of all
\* tables of the container, in their new order, under the modem of table j.
Drop(i, j) ==
  /\ ovMoves < MaxMoves /\ ovMoves' = ovMoves + 1
  /\ ovBox.tables[i].class # ovBox.tables[j].class
  /\ LET others == Seqs!RemoveAt(ovBox.tables, i)
         now    == Seqs!InsertAt(others, IF i < j THEN j - 1 ELSE j, ovBox.tables[i])
     IN  /\ ovBox' = [ovBox EXCEPT !.tables = now]
         /\ ovStore' = [ovStore EXCEPT !.order[ModemOf(ovBox.tables[j])] =
                          [k \in DOMAIN now |-> Title(now[k].class)]]
  /\ UNCHANGED <<ovChosen, ovMaps, ovCalls, ovFresh>>

\* What the four information calls may report, grouped by class.
Reports == UNION {[C -> OvEntries] : C \in SUBSET OvClasses}

OvNext ==
  \/ \E m \in OvModems : OvSelect(m)
  \/ OvPoll
  \/ \E c \in ovCalls : OvFailed(c) \/ \E grouped \in Reports : OvAnswered(c, grouped)
  \/ \E i \in DOMAIN ovBox.tables : Toggle(i) \/ \E j \in DOMAIN ovBox.tables : Drop(i, j)

OvSpec == OvInit /\ [][OvNext]_ovVars

-----------------------------------------------------------------------------
(* Properties.                                                             *)

\* Every map holds rows of reported classes, every call and table has its map.
OvTypeOK ==
  /\ ovChosen \in OvModems
  /\ \A g \in 1..Gen : Keys(ovMaps[g].rows) \subseteq OvClasses
  /\ \A c \in ovCalls : c.gen \in 1..Gen /\ c.modem = ovMaps[c.gen].modem
  /\ \A g \in 1..Gen : \A k \in Keys(ovMaps[g].rows) :
       \E e \in OvEntries : DOMAIN ovMaps[g].rows[k] = DOMAIN e
  /\ ovFresh \in BOOLEAN

\* A table on the page is in the map it was made for, and is there once: no
\* answer, early or late, leaves a table behind that no later answer can update
\* or remove, and dragging neither loses nor doubles one.
TablesAreMapped ==
  /\ \A i \in DOMAIN ovBox.tables :
       ovBox.tables[i].class \in Keys(ovMaps[ovBox.tables[i].gen].rows)
  /\ \A i, j \in DOMAIN ovBox.tables :
       i # j => <<ovBox.tables[i].class, ovBox.tables[i].gen>> # <<ovBox.tables[j].class, ovBox.tables[j].gen>>

\* While the page shows the spinner there is an answer to wait for.
SpinnerHasCall == ovBox.spinner => ovCalls # {}

\* No order of answers strands the page: neither a table nor the spinner stays that
\* nothing under way or still to come can change.
OverviewIsLive == OvTypeOK /\ TablesAreMapped /\ SpinnerHasCall
===============================================================================
