------------------------------- MODULE StatusBox -------------------------------
(***************************************************************************)
(* The box qmodem adds to LuCI's status overview, in both versions: the    *)
(* 11_modem.js of luci-app-qmodem-next asks two calls per modem section,   *)
(* the one of luci-app-qmodem a single call for all modems.                *)
(***************************************************************************)
EXTENDS Naturals, Sequences, Lists

CONSTANTS
  Sections,   \* the modem-device sections, in their order
  BaseInfos,  \* what getBaseInfo may report: sequences of entries
  CellInfos   \* what getCellInfo may report: sequences of entries

\* getBaseInfo reports no line of the cell, getCellInfo no basic one.
Entries(classes) == Seq([class : classes, bar : BOOLEAN, value : BOOLEAN])
ASSUME BoxAssumption ==
  /\ Len(Sections) \in Nat /\ DOMAIN Sections = 1..Len(Sections)
  /\ BaseInfos \subseteq Entries({"base", "other"}) /\ CellInfos \subseteq Entries({"cell", "other"})

VARIABLES
  boxWait,    \* the calls that have not answered
  boxInfo,    \* per section, what its two calls answered
  boxShown    \* "loading", "failed" or "shown"
boxVars == <<boxWait, boxInfo, boxShown>>

Halves == {"base", "cell"}

\* getModemSections, then two calls of each section at once.
BoxInit ==
  /\ boxWait = (DOMAIN Sections) \X Halves
  /\ boxInfo = [i \in DOMAIN Sections |-> [p \in Halves |-> <<>>]]
  /\ boxShown = "loading"

\* As if what a section's calls report were joined as they answer.
BoxAnsweredInTurn(i, p, info) ==
  /\ <<i, p>> \in boxWait
  /\ boxWait' = boxWait \ {<<i, p>>}
  /\ boxInfo' = [boxInfo EXCEPT ![i]["base"] = @ \o info]
  /\ UNCHANGED boxShown

\* Any answer may come first.
BoxAnswered(i, p, info) ==
  /\ <<i, p>> \in boxWait
  /\ boxWait' = boxWait \ {<<i, p>>}
  /\ boxInfo' = [boxInfo EXCEPT ![i][p] = info]
  /\ UNCHANGED boxShown

\* One call that fails fails the load of the whole box.
BoxFailed(i, p) ==
  /\ <<i, p>> \in boxWait /\ boxShown = "loading"
  /\ boxShown' = "failed"
  /\ UNCHANGED <<boxWait, boxInfo>>

InfoOf(i) == boxInfo[i]["base"] \o boxInfo[i]["cell"]

\* An entry is a line of the box if it has a value and is basic, or a bar of the cell.
IsLine(e) == e.value /\ (e.class = "base" \/ (e.class = "cell" /\ e.bar))
Lines(info) == Picked(info, {i \in DOMAIN info : IsLine(info[i])})

BoxRendered ==
  /\ boxShown = "loading" /\ boxWait = {}
  /\ boxShown' = "shown"
  /\ UNCHANGED <<boxWait, boxInfo>>

Rows == [i \in DOMAIN Sections |-> Lines(InfoOf(i))]

\* The older box: the lines of all modems in one table, given up at the first
\* modem after which there is none.
OldLines(infos) ==
  IF \E n \in DOMAIN infos : \A i \in 1..n : Lines(infos[i]) = <<>> THEN <<>>
  ELSE Seqs!FlattenSeq([i \in 1..Len(infos) |-> Lines(infos[i])])

BoxNext ==
  \/ \E i \in DOMAIN Sections :
       \/ \E info \in BaseInfos : BoxAnswered(i, "base", info)
       \/ \E info \in CellInfos : BoxAnswered(i, "cell", info)
       \/ \E p \in Halves : BoxFailed(i, p)
  \/ BoxRendered

BoxSpec == BoxInit /\ [][BoxNext]_boxVars

-----------------------------------------------------------------------------
(* Properties.                                                             *)

\* Whatever the order of the answers, the lines of a modem are its basic
\* entries before its cell entries, and both versions show the same lines in
\* the same order whenever the first modem has any.
VersionsAgree ==
  (boxShown = "shown" /\ 1 \in DOMAIN Sections /\ Rows[1] # <<>>) =>
    /\ Seqs!FlattenSeq(Rows) = OldLines([i \in DOMAIN Sections |-> InfoOf(i)])
    /\ \A i \in DOMAIN Rows : \A j, k \in DOMAIN Rows[i] :
         (Rows[i][j].class = "cell" /\ Rows[i][k].class = "base") => k < j
===============================================================================
