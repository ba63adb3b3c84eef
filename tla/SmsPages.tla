------------------------------- MODULE SmsPages -------------------------------
(***************************************************************************)
(* The three message views of luci-app-qmodem-next: the list of            *)
(* conversations (view/qmodem/sms.js), one conversation                    *)
(* (sms_conversation.js) and the messages on the SIM (sms_sim.js).  Each   *)
(* has a modem selector and one area that a load behind a spinner, or a    *)
(* silent poll, fills with what a modem reports.                           *)
(***************************************************************************)
EXTENDS Naturals, FiniteSets

CONSTANTS
  SmsModems,    \* the enabled modems
  FirstModem,   \* the one a view selects when it opens
  SimSlots,     \* the message slots of a SIM
  MaxSpinners,  \* how often an area starts over
  MaxSmsCalls,  \* calls in flight at once
  MaxMessages   \* messages that ever reach a SIM

ASSUME SmsAssumption == FirstModem \in SmsModems /\ "none" \notin SmsModems

Boxes == {"received", "sent"}
Selects == {"reading", "writing", "etc"}
FreeSlot == 0

VARIABLES
  smsView,    \* "list", "conversation" or "sim"
  smsChosen,  \* the value of the selector
  smsUtc,     \* localStorage: which of the two offset boxes are checked
  smsArea,    \* the area: its spinner, the alert under it, the rows of a modem
  smsSpinner, \* spinners made so far
  smsCalls,   \* calls in flight
  smsMems,    \* per storage select, the modem whose value it shows, or "Loading"
  smsModal,   \* the modal over the page, which keeps the user from it
  smsSend,    \* whether the send button of the conversation can be pressed
  simCard,    \* external: the message in each slot of each modem's SIM
  simArrived  \* external: messages that reached a SIM so far

smsVars == <<smsView, smsChosen, smsUtc, smsArea, smsSpinner, smsCalls, smsMems, smsModal, smsSend,
             simCard, simArrived>>
viewVars == <<smsView, smsChosen, smsUtc>>
cardVars == <<simCard, simArrived>>

NoRows == [of |-> "none", utc |-> {}, listed |-> {}]
Blank == [spinner |-> 0, alert |-> FALSE, rows |-> NoRows]
LoadCall(m, n) == [op |-> "load", modem |-> m, spinner |-> n, slot |-> 0, ok |-> TRUE, all |-> FALSE]
CallOf(op, m) == [LoadCall(m, 0) EXCEPT !.op = op]
Room(n) == Cardinality(smsCalls) + n <= MaxSmsCalls

\* A spinner takes the place of the area, and a load is started behind it.
StartOver(m, others) ==
  /\ smsSpinner < MaxSpinners
  /\ smsSpinner' = smsSpinner + 1
  /\ smsArea' = [Blank EXCEPT !.spinner = smsSpinner + 1]
  /\ smsCalls' = others \cup {LoadCall(m, smsSpinner + 1)}

SmsInit ==
  /\ smsView \in {"list", "conversation", "sim"}
  /\ smsChosen = FirstModem
  /\ smsUtc = {}
  /\ smsArea = [Blank EXCEPT !.spinner = 1]
  /\ smsSpinner = 1
  /\ smsCalls = {LoadCall(FirstModem, 1)} \cup
                IF smsView = "list" THEN {CallOf("storage", FirstModem)} ELSE {}
  /\ smsMems = [s \in Selects |-> "Loading"]
  /\ smsModal = "none"
  /\ smsSend = TRUE
  /\ simCard = [m \in SmsModems |-> [s \in SimSlots |-> FreeSlot]]
  /\ simArrived = 0

\* The selector.  The list view loads the storage of the modem too.
SmsSelect(m) ==
  /\ m # smsChosen /\ smsModal = "none"
  /\ Room(2)
  /\ smsChosen' = m
  /\ StartOver(m, smsCalls \cup IF smsView = "list" THEN {CallOf("storage", m)} ELSE {})
  /\ smsMems' = IF smsView = "list" THEN [s \in Selects |-> "Loading"] ELSE smsMems
  /\ UNCHANGED <<smsView, smsUtc, smsModal, smsSend, cardVars>>

\* An offset box is saved for all modems and the area loaded again.
ToggleUtc(b) ==
  /\ smsView # "sim" /\ smsModal = "none"
  /\ Room(1)
  /\ smsUtc' = IF b \in smsUtc THEN smsUtc \ {b} ELSE smsUtc \cup {b}
  /\ StartOver(smsChosen, smsCalls)
  /\ UNCHANGED <<smsView, smsChosen, smsMems, smsModal, smsSend, cardVars>>

SmsPoll ==
  /\ Room(1)
  /\ smsCalls' = smsCalls \cup {CallOf("poll", smsChosen)}
  /\ UNCHANGED <<viewVars, smsArea, smsSpinner, smsMems, smsModal, smsSend, cardVars>>

Listing(m) == {<<s, simCard[m][s]>> : s \in {s \in SimSlots : simCard[m][s] # FreeSlot}}
\* What an answer about a modem shows: times are shifted by the boxes as they are now.
RowsOf(m) == [of |-> m, utc |-> smsUtc, listed |-> IF smsView = "sim" THEN Listing(m) ELSE {}]

\* As if a failed load left the spinner.
LoadedSpins(c, ok) ==
  /\ c.op = "load"
  /\ smsCalls' = smsCalls \ {c}
  /\ smsArea' = IF ok THEN [Blank EXCEPT !.rows = RowsOf(c.modem)] ELSE [smsArea EXCEPT !.alert = TRUE]
  /\ UNCHANGED <<viewVars, smsSpinner, smsMems, smsModal, smsSend, cardVars>>

\* A load clears the area only if its spinner is still there; an error is added
\* under whatever is shown, a list takes its place.
Loaded(c, ok) ==
  /\ c.op = "load"
  /\ smsCalls' = smsCalls \ {c}
  /\ smsArea' = IF ok THEN [Blank EXCEPT !.rows = RowsOf(c.modem)]
                ELSE IF c.spinner = smsArea.spinner THEN [Blank EXCEPT !.alert = TRUE]
                ELSE [smsArea EXCEPT !.alert = TRUE]
  /\ UNCHANGED <<viewVars, smsSpinner, smsMems, smsModal, smsSend, cardVars>>

Polled(c, ok) ==
  /\ c.op = "poll"
  /\ smsCalls' = smsCalls \ {c}
  /\ smsArea' = IF ok THEN [Blank EXCEPT !.rows = RowsOf(c.modem)] ELSE smsArea
  /\ UNCHANGED <<viewVars, smsSpinner, smsMems, smsModal, smsSend, cardVars>>

-----------------------------------------------------------------------------
(* The list: message storage and new conversations.                        *)

\* Each memory an answer names goes into its select, whichever modem is selected.
StorageLoaded(c, named) ==
  /\ c.op = "storage"
  /\ smsCalls' = smsCalls \ {c}
  /\ smsMems' = [s \in Selects |-> IF s \in named THEN c.modem ELSE smsMems[s]]
  /\ UNCHANGED <<viewVars, smsArea, smsSpinner, smsModal, smsSend, cardVars>>

\* Refused while the reading or the writing storage is not loaded.
ApplyStorage ==
  /\ smsView = "list" /\ smsModal = "none" /\ Room(1)
  /\ "Loading" \notin {smsMems["reading"], smsMems["writing"]}
  /\ smsModal' = "storage"
  /\ smsCalls' = smsCalls \cup {CallOf("setStorage", smsChosen)}
  /\ UNCHANGED <<viewVars, smsArea, smsSpinner, smsMems, smsSend, cardVars>>

StorageSet(c, ok) ==
  /\ c.op = "setStorage"
  /\ smsModal' = "none"
  /\ smsCalls' = (smsCalls \ {c}) \cup IF ok THEN {CallOf("storage", c.modem)} ELSE {}
  /\ smsMems' = IF ok THEN [s \in Selects |-> "Loading"] ELSE smsMems
  /\ UNCHANGED <<viewVars, smsArea, smsSpinner, smsSend, cardVars>>

NewConversation ==
  /\ smsView = "list" /\ smsModal = "none" /\ Room(1)
  /\ smsModal' = "sending"
  /\ smsCalls' = smsCalls \cup {CallOf("send", smsChosen)}
  /\ UNCHANGED <<viewVars, smsArea, smsSpinner, smsMems, smsSend, cardVars>>

\* The answer closes the modal; a success opens the conversation half a second later.
NewSent(c, ok) ==
  /\ smsView = "list" /\ c.op = "send"
  /\ smsModal' = "none"
  /\ smsCalls' = (smsCalls \ {c}) \cup IF ok THEN {CallOf("redirect", c.modem)} ELSE {}
  /\ UNCHANGED <<viewVars, smsArea, smsSpinner, smsMems, smsSend, cardVars>>

\* The conversation opens with the first modem selected, whichever sent the message.
OpenConversation(c) ==
  /\ c.op = "redirect"
  /\ smsSpinner < MaxSpinners
  /\ smsView' = "conversation"
  /\ smsChosen' = FirstModem
  /\ StartOver(FirstModem, {})
  /\ smsModal' = "none"
  /\ smsSend' = TRUE
  /\ UNCHANGED <<smsUtc, smsMems, cardVars>>

-----------------------------------------------------------------------------
(* A conversation.                                                         *)

SendReply ==
  /\ smsView = "conversation" /\ smsSend /\ Room(1)
  /\ smsSend' = FALSE
  /\ smsCalls' = smsCalls \cup {CallOf("send", smsChosen)}
  /\ UNCHANGED <<viewVars, smsArea, smsSpinner, smsMems, smsModal, cardVars>>

\* A success loads the conversation again, without a spinner, for the modem selected now.
ReplySent(c, ok) ==
  /\ smsView = "conversation" /\ c.op = "send"
  /\ smsSend' = TRUE
  /\ smsCalls' = (smsCalls \ {c}) \cup IF ok THEN {LoadCall(smsChosen, 0)} ELSE {}
  /\ UNCHANGED <<viewVars, smsArea, smsSpinner, smsMems, smsModal, cardVars>>

\* A message is deleted from the modem whose rows are shown.
DeleteMessage ==
  /\ smsView = "conversation" /\ smsArea.rows.of # "none" /\ Room(1)
  /\ smsCalls' = smsCalls \cup {CallOf("delete", smsArea.rows.of)}
  /\ UNCHANGED <<viewVars, smsArea, smsSpinner, smsMems, smsModal, smsSend, cardVars>>

MessageDeleted(c, ok) ==
  /\ smsView = "conversation" /\ c.op = "delete"
  /\ IF ok THEN StartOver(c.modem, smsCalls \ {c})
     ELSE smsCalls' = smsCalls \ {c} /\ UNCHANGED <<smsArea, smsSpinner>>
  /\ UNCHANGED <<viewVars, smsMems, smsModal, smsSend, cardVars>>

-----------------------------------------------------------------------------
(* The messages on the SIM.  They are deleted by slot.                      *)

\* External: a message reaches the first free slot of a SIM.
Arrive(m, s) ==
  /\ smsView = "sim" /\ simArrived < MaxMessages
  /\ simCard[m][s] = FreeSlot
  /\ simArrived' = simArrived + 1
  /\ simCard' = [simCard EXCEPT ![m][s] = simArrived + 1]
  /\ UNCHANGED <<viewVars, smsArea, smsSpinner, smsCalls, smsMems, smsModal, smsSend>>

SlotCall(m, s, msg, every) ==
  [CallOf("deleteSlot", m) EXCEPT !.slot = s, !.all = every, !.spinner = msg]

\* Confirming one row deletes its slot; "Delete All" deletes the slots of the rows
\* that were on the page when it was pressed, all at once.
DeleteSlots(rows, every) ==
  /\ smsView = "sim" /\ smsModal = "none"
  /\ rows # {} /\ Room(Cardinality(rows))
  /\ smsModal' = "deleting"
  /\ smsCalls' = smsCalls \cup {SlotCall(smsArea.rows.of, r[1], r[2], every) : r \in rows}
  /\ UNCHANGED <<viewVars, smsArea, smsSpinner, smsMems, smsSend, cardVars>>

\* External: the modem empties the slot, whatever is in it by now, or fails to.
SlotServed(c, ok) ==
  /\ c.op = "deleteSlot"
  /\ simCard' = IF ok THEN [simCard EXCEPT ![c.modem][c.slot] = FreeSlot] ELSE simCard
  /\ smsCalls' = (smsCalls \ {c}) \cup {[c EXCEPT !.op = "slotDone", !.ok = ok]}
  /\ UNCHANGED <<viewVars, smsArea, smsSpinner, smsMems, smsModal, smsSend, simArrived>>

Deletions == {c \in smsCalls : c.op \in {"deleteSlot", "slotDone"}}

\* When all have answered the modal goes.  The list is loaded again, except
\* after a single deletion that failed.
SlotsDeleted ==
  /\ Deletions # {} /\ \A c \in Deletions : c.op = "slotDone"
  /\ smsModal' = "none"
  /\ IF \E c \in Deletions : c.ok \/ c.all
     THEN StartOver((CHOOSE c \in Deletions : TRUE).modem, smsCalls \ Deletions)
     ELSE smsCalls' = smsCalls \ Deletions /\ UNCHANGED <<smsArea, smsSpinner>>
  /\ UNCHANGED <<viewVars, smsMems, smsSend, cardVars>>

\* One call that fails outright closes the modal at once, without a reload; the
\* others are still with the modem and nobody waits for them.
DeletionLost(c) ==
  /\ c.op = "deleteSlot"
  /\ smsModal' = "none"
  /\ smsCalls' = (smsCalls \ Deletions) \cup
                 {[d EXCEPT !.op = "orphan"] : d \in {d \in Deletions \ {c} : d.op = "deleteSlot"}}
  /\ UNCHANGED <<viewVars, smsArea, smsSpinner, smsMems, smsSend, cardVars>>

OrphanServed(c, ok) ==
  /\ c.op = "orphan"
  /\ simCard' = IF ok THEN [simCard EXCEPT ![c.modem][c.slot] = FreeSlot] ELSE simCard
  /\ smsCalls' = smsCalls \ {c}
  /\ UNCHANGED <<viewVars, smsArea, smsSpinner, smsMems, smsModal, smsSend, simArrived>>

SmsNext ==
  \/ \E m \in SmsModems : SmsSelect(m) \/ \E s \in SimSlots : Arrive(m, s)
  \/ \E b \in Boxes : ToggleUtc(b)
  \/ SmsPoll \/ ApplyStorage \/ NewConversation \/ SendReply \/ DeleteMessage \/ SlotsDeleted
  \/ \E c \in smsCalls, yes \in BOOLEAN :
       Loaded(c, yes) \/ Polled(c, yes) \/ StorageSet(c, yes) \/ NewSent(c, yes)
         \/ ReplySent(c, yes) \/ MessageDeleted(c, yes) \/ SlotServed(c, yes)
         \/ OrphanServed(c, yes)
  \/ \E c \in smsCalls : OpenConversation(c) \/ DeletionLost(c) \/ \E named \in SUBSET Selects : StorageLoaded(c, named)
  \/ \E r \in smsArea.rows.listed : DeleteSlots({r}, FALSE)
  \/ DeleteSlots(smsArea.rows.listed, TRUE)

SmsSpec == SmsInit /\ [][SmsNext]_smsVars

-----------------------------------------------------------------------------
(* Properties.                                                             *)

\* A spinner on the page is that of a load still under way, in every view and
\* after every order of answers: the page never waits for an answer it had.
SpinnerHasLoad ==
  smsArea.spinner # 0 => \E c \in smsCalls : c.op = "load" /\ c.spinner = smsArea.spinner

\* The modal that blocks the page goes with the answer it waits for.
ModalHasCall ==
  smsModal # "none" => \E c \in smsCalls : c.op \in {"setStorage", "send", "deleteSlot", "slotDone"}

\* A reply is sent once: the button is disabled exactly while its send is under way.
SendOnce ==
  LET sends == {c \in smsCalls : c.op = "send"} IN
  smsView = "conversation" => Cardinality(sends) <= 1 /\ (smsSend <=> sends = {})

\* The times on the page are shifted as the two boxes say now, also those of an
\* answer to a call from before a box was changed.
TimesFollowBoxes == smsArea.rows.of # "none" => smsArea.rows.utc = smsUtc

\* The three views neither hang nor repeat themselves nor show what is out of date.
SmsPageGoesOn == SpinnerHasLoad /\ ModalHasCall /\ SendOnce /\ TimesFollowBoxes
===============================================================================
