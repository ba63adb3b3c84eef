------------------------------ MODULE ModemDetail ------------------------------
(***************************************************************************)
(* 3gdetail.js and 3gdebug.js: the page of cells and signal bars that one  *)
(* poll fills from an answer of 3ginfo.sh, the dialogs that stop the poll  *)
(* while they are open, and the page that runs debugging commands.         *)
(***************************************************************************)
EXTENDS Naturals, Sequences, FiniteSets

CONSTANTS
  Answers,     \* what 3ginfo.sh may answer: hilink, signal, and a value for each bar
  MaxWrites    \* commands and clearings on the debugging page

BarOrder == <<"csq", "rssi", "rsrp", "sinr", "rsrq">>
BarNames == {BarOrder[i] : i \in 1..5}

VARIABLES
  watching,   \* whether the poll was added when the page was rendered
  polling,    \* whether LuCI's polls run
  asking,     \* the poll's call is under way; LuCI starts no second one
  bar,        \* each bar: visible, still with the element that is its level, up to date
  rest,       \* whether the cells behind the bars show the last answer
  answer,     \* the last answer that was read
  dialog,     \* the dialog that is open
  loading,    \* dialogs whose data is being loaded
  leaving,    \* the page will load anew
  orphaned    \* a dialog was closed, or never opened, while polls were stopped for it

detVars == <<watching, polling, asking, bar, rest, answer, dialog, loading, leaving, orphaned>>
cells == <<bar, rest, answer>>

Fresh == [b \in BarNames |-> [visible |-> TRUE, whole |-> TRUE, current |-> TRUE]]

\* The poll is added only when the modem answered with a signal.
FirstAnswers(seen) == {a \in Answers : a.signal = seen /\ \A b \in BarNames : a[b] = "plain"}

DetInit ==
  /\ watching \in BOOLEAN /\ polling = TRUE /\ asking = FALSE
  /\ bar = Fresh /\ rest = TRUE /\ answer \in FirstAnswers(watching)
  /\ dialog = "none" /\ loading = {} /\ leaving = FALSE /\ orphaned = FALSE

Poll ==
  /\ watching /\ polling /\ ~asking
  /\ asking' = TRUE
  /\ UNCHANGED <<watching, polling, cells, dialog, loading, leaving, orphaned>>

\* A bar is hidden when there is no value; all but csq appear again.  A text in the
\* place of the level removes the element that a level needs.
Drawn(b, s, v) ==
  LET seen == [s EXCEPT !.visible = @ \/ b # "csq"] IN
  CASE v = "absent" -> [s EXCEPT !.visible = FALSE, !.current = TRUE]
    [] v = "plain"  -> [seen EXCEPT !.current = s.whole]
    [] OTHER        -> [seen EXCEPT !.whole = FALSE, !.current = TRUE]

\* The first bar that misses its element throws, and nothing behind it is drawn.
Breaks(a) == {i \in 1..5 : a[BarOrder[i]] = "plain" /\ ~bar[BarOrder[i]].whole}
DrawCells(a) ==
  /\ answer' = a
  /\ rest' = (Breaks(a) = {})
  /\ bar' = [b \in BarNames |->
       IF \E i \in Breaks(a) : \E j \in (i + 1)..5 : BarOrder[j] = b
       THEN [bar[b] EXCEPT !.current = FALSE] ELSE Drawn(b, bar[b], a[b])]

\* A modem without a signal, and not behind an address, makes the page wait and load
\* anew; any other answer closes the dialog that is open, whoever opened it.
PollAnswered(a) ==
  /\ asking /\ asking' = FALSE
  /\ dialog' = IF a.hilink THEN dialog ELSE IF a.signal THEN "none" ELSE "waiting"
  /\ leaving' = (leaving \/ (~a.hilink /\ ~a.signal))
  /\ orphaned' = (orphaned \/ (~polling /\ dialog' # dialog))
  /\ DrawCells(a)
  /\ UNCHANGED <<watching, polling, loading>>

\* No answer: JSON.parse throws.
PollFailed ==
  /\ asking /\ asking' = FALSE
  /\ UNCHANGED <<watching, polling, cells, dialog, loading, leaving, orphaned>>

\* The modem menu and the SIM menu: a spinner, the polls stop, the data is loaded.
ShowDialog(d) ==
  /\ dialog = "none"
  /\ dialog' = "spinner" /\ polling' = FALSE
  /\ loading' = loading \cup {d}
  /\ UNCHANGED <<watching, asking, cells, leaving, orphaned>>

DialogLoaded(d) ==
  /\ d \in loading /\ loading' = loading \ {d}
  /\ dialog' = d
  /\ UNCHANGED <<watching, polling, asking, cells, leaving, orphaned>>

\* A failure hides the spinner, and calls a method the dialog does not have.
DialogFailed(d) ==
  /\ d \in loading /\ loading' = loading \ {d}
  /\ dialog' = "none" /\ orphaned' = TRUE
  /\ UNCHANGED <<watching, polling, asking, cells, leaving>>

\* As if the dialog only went away.
DismissQuietly ==
  /\ dialog \in {"modem", "sim"}
  /\ dialog' = "none"
  /\ UNCHANGED <<watching, polling, asking, cells, loading, leaving, orphaned>>

Dismiss ==
  /\ dialog \in {"modem", "sim"}
  /\ dialog' = "none" /\ polling' = TRUE
  /\ UNCHANGED <<watching, asking, cells, loading, leaving, orphaned>>

\* Saving the main modem: polls start and the page loads anew after two seconds.
SaveModem ==
  /\ dialog = "modem"
  /\ leaving' = TRUE
  /\ UNCHANGED <<watching, polling, asking, cells, dialog, loading, orphaned>>

LoadAnew ==
  /\ leaving
  /\ watching' \in BOOLEAN /\ polling' = TRUE /\ asking' = FALSE
  /\ bar' = Fresh /\ rest' = TRUE /\ answer' \in FirstAnswers(watching')
  /\ dialog' = "none" /\ loading' = {} /\ leaving' = FALSE /\ orphaned' = FALSE

DetNext ==
  \/ Poll \/ PollFailed \/ \E a \in Answers : PollAnswered(a)
  \/ \E d \in {"modem", "sim"} : ShowDialog(d) \/ DialogLoaded(d) \/ DialogFailed(d)
  \/ Dismiss \/ SaveModem \/ LoadAnew

-----------------------------------------------------------------------------
(* 3gdebug.js: the text of a command's result, and the file for Download.  *)

VARIABLES
  busy,      \* a command runs, and its buttons are disabled
  text,      \* the number of the result in the text field, 0 for none; whether it is shown
  file,      \* external: the number of the result in /tmp/debug_result.txt
  writes,    \* writes of the file under way, with the number they write
  ran,       \* commands and clearings so far
  crossed    \* two writes were under way at once, or one failed

dbgVars == <<busy, text, file, writes, ran, crossed>>
DbgInit == /\ busy = FALSE /\ text = [of |-> 0, shown |-> FALSE] /\ file = 0
           /\ writes = {} /\ ran = 0 /\ crossed = FALSE

RunCommand ==
  /\ ~busy /\ ran < MaxWrites
  /\ busy' = TRUE /\ ran' = ran + 1
  /\ UNCHANGED <<text, file, writes, crossed>>

Write(n) == writes' = writes \cup {n} /\ crossed' = (crossed \/ writes # {})

\* The result is shown and written, without waiting for the file.
CommandDone ==
  /\ busy /\ busy' = FALSE
  /\ text' = [of |-> ran, shown |-> TRUE]
  /\ Write(ran)
  /\ UNCHANGED <<file, ran>>

CommandFailed == busy /\ busy' = FALSE /\ UNCHANGED <<text, file, writes, ran, crossed>>

\* Clear empties the file and hides the field.
Clear ==
  /\ text.shown /\ ~busy /\ ran < MaxWrites
  /\ text' = [text EXCEPT !.shown = FALSE]
  /\ Write(0)
  /\ ran' = ran + 1
  /\ UNCHANGED <<busy, file>>

Written(n) ==
  /\ n \in writes /\ writes' = writes \ {n}
  /\ file' = n
  /\ UNCHANGED <<busy, text, ran, crossed>>

WriteFailed(n) ==
  /\ n \in writes /\ writes' = writes \ {n}
  /\ crossed' = TRUE
  /\ UNCHANGED <<busy, text, file, ran>>

DbgNext ==
  \/ RunCommand \/ CommandDone \/ CommandFailed \/ Clear
  \/ \E n \in writes : Written(n) \/ WriteFailed(n)

-----------------------------------------------------------------------------
(* Properties.                                                             *)

\* The polls are stopped only for a dialog the user can close or a page that will
\* load anew; all but when a late answer closed the dialog or its data did not come.
PausedForDialog == watching /\ ~polling /\ ~orphaned => dialog \in {"spinner", "modem", "sim"}

\* Whatever sequence of answers came before, the bars that are up to date are seen
\* exactly when the answer has a value for them.  csq stays hidden, once it was.
BarSeenWithValue ==
  \A b \in BarNames \ {"csq"} : bar[b].current => (bar[b].visible <=> answer[b] # "absent")

\* When nothing is being written, and no write crossed another or failed, Download
\* gives the result that is shown.
DownloadIsShown == writes = {} /\ ~crossed /\ text.shown => file = text.of

\* The two pages go on polling, and show and store what came last.
DetailIsCurrent == PausedForDialog /\ BarSeenWithValue /\ DownloadIsShown
===============================================================================
