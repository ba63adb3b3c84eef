--------------------------- MODULE ModemPagesProofs ---------------------------
(* Proofs about the pages of luci-app-qmodem-next, for any modems, slots,     *)
(* bands and dialers and any bound on the calls under way: page by page an    *)
(* inductive invariant over the page's own variables, and at the end the      *)
(* theorems about the composition, of which every page is a projection.       *)
EXTENDS ModemPages, FiniteSetTheorems, SequenceTheorems, TLAPS

-----------------------------------------------------------------------------
(* SIM Switch and AT Debug.                                                *)

SimCall ==
  [op : {"load", "set"}, modem : ToolModems, of : Nat, slot : Slots \cup {"N/A"},
   at : {"sent", "answered"}, ok : BOOLEAN]

SimTypeOK ==
  /\ simSlot \in [ToolModems -> Slots]
  /\ simCalls \subseteq SimCall /\ \A c \in simCalls : c.op = "set" => c.slot \in Slots
  /\ simPane \in [modem : ToolModems, id : Nat, state : {"loading", "failed", "ready"}, buttons : SUBSET Slots,
                  marked : Slots \cup {"N/A"}, off : BOOLEAN,
                  result : {"none", "switching", "success", "failed"}, overlapped : BOOLEAN]

Own(c) == c.of = simPane.id

\* The calls of an interface are about its modem, it loads once, and it switches one slot
\* at a time, only when it is loaded.
SimOrder ==
  /\ \A c \in simCalls : c.of <= simPane.id /\ (Own(c) => c.modem = simPane.modem)
  /\ \A c \in simCalls : Own(c) /\ c.op = "load" => simPane.state = "loading"
  /\ \A c, d \in simCalls : Own(c) /\ Own(d) => c = d
  /\ simPane.off <=> \E c \in simCalls : Own(c) /\ c.op = "set"
  /\ simPane.off \/ simPane.buttons # {} => simPane.state = "ready"

\* MarkedIsSlot, made inductive: unless another switch of the modem was under way, the
\* slot that a load brings and the one a switch asked for are those the modem uses.
SimCurrent ==
  ~simPane.overlapped =>
    /\ \A c \in simCalls : c.op = "set" /\ c.modem = simPane.modem => Own(c)
    /\ \A c \in simCalls : Own(c) /\ c.at = "answered" /\ c.ok => c.slot = simSlot[simPane.modem]
    /\ simPane.state = "ready" =>
         \/ simPane.marked = simSlot[simPane.modem]
         \/ \E c \in simCalls : Own(c) /\ c.at = "answered" /\ c.ok

SimInv == SimTypeOK /\ SimOrder /\ SimCurrent

LEMMA SimInitInv == SimInit => SimInv
  <1> SUFFICES ASSUME SimInit PROVE SimInv
    OBVIOUS
  <1>1. \E m : m \in ToolModems
    BY ToolAssumption
  <1> DEFINE m0 == CHOOSE m \in ToolModems : TRUE
  <1>2. m0 \in ToolModems
    BY <1>1
  <1> HIDE DEF m0
  <1>3. simPane = [modem |-> m0, id |-> 1, state |-> "loading", buttons |-> {},
                   marked |-> "N/A", off |-> FALSE, result |-> "none", overlapped |-> FALSE]
        /\ simCalls = {Asked(m0, 1)} /\ simSlot \in [ToolModems -> Slots]
    BY DEF SimInit, m0
  <1> QED
    BY <1>2, <1>3 DEF SimInv, SimTypeOK, SimCall, SimOrder, SimCurrent, Own, Asked

LEMMA SimSelectInv == ASSUME SimInv, NEW m \in ToolModems, SimSelect(m) PROVE SimInv'
  <1> DEFINE new == Asked(m, simPane.id + 1)
  <1>1. /\ simPane' = NewSimPane(m, simPane.id + 1) /\ UNCHANGED simSlot
        /\ simCalls' = simCalls \cup {new}
    BY DEF SimSelect
  <1>2. simPane.id \in Nat /\ simPane.id + 1 \in Nat
        /\ \A c \in simCalls : c \in SimCall /\ c.of <= simPane.id
    BY DEF SimInv, SimTypeOK, SimOrder
  <1>3. \A c \in simCalls : c.of # simPane.id + 1 /\ c.of <= simPane.id + 1
    BY <1>2 DEF SimCall
  <1>4. /\ simPane'.id = simPane.id + 1 /\ simPane'.modem = m /\ simPane'.state = "loading"
        /\ simPane'.buttons = {} /\ simPane'.marked = "N/A" /\ simPane'.off = FALSE
        /\ simPane'.result = "none" /\ simPane'.overlapped = Busy(m)
    BY <1>1 DEF NewSimPane
  <1>5. new \in SimCall /\ new.of = simPane'.id /\ new.modem = m /\ new.op = "load" /\ new.at = "sent"
    BY <1>2, <1>4 DEF Asked, SimCall
  <1> HIDE DEF new
  <1>6. \A c \in simCalls' : Own(c)' <=> c = new
    BY <1>1, <1>3, <1>4, <1>5 DEF Own
  <1>7. SimTypeOK'
    BY <1>1, <1>2, <1>5 DEF SimInv, SimTypeOK, NewSimPane, Busy
  <1>8. SimOrder'
    <2>1. \A c \in simCalls' : c.of <= simPane'.id /\ (Own(c)' => c.modem = simPane'.modem)
      BY <1>1, <1>2, <1>3, <1>4, <1>5, <1>6
    <2> QED
      BY <1>4, <1>5, <1>6, <2>1 DEF SimOrder
  <1>9. SimCurrent'
    BY <1>1, <1>4, <1>5, <1>6 DEF SimCurrent, Busy
  <1> QED
    BY <1>7, <1>8, <1>9 DEF SimInv

LEMMA ServesInv ==
  ASSUME SimInv, NEW c \in simCalls, NEW yes \in BOOLEAN, ModemServes(c, yes)
  PROVE  SimInv'
  <1> DEFINE d == [c EXCEPT !.at = "answered", !.ok = yes,
                            !.slot = IF c.op = "load" THEN simSlot[c.modem] ELSE @]
  <1>1. /\ c \in SimCall /\ c.at = "sent" /\ UNCHANGED simPane
        /\ simCalls' = (simCalls \ {c}) \cup {d}
        /\ simSlot' = IF yes /\ c.op = "set" THEN [simSlot EXCEPT ![c.modem] = c.slot] ELSE simSlot
    BY DEF ModemServes, SimInv, SimTypeOK
  <1>2. /\ d \in SimCall /\ d.op = c.op /\ d.of = c.of /\ d.modem = c.modem
        /\ d.at = "answered" /\ d.ok = yes
        /\ d.slot = IF c.op = "load" THEN simSlot[c.modem] ELSE c.slot
    BY <1>1 DEF SimCall, SimInv, SimTypeOK
  <1> HIDE DEF d
  <1>a. \A e : Own(e)' <=> Own(e)
    BY <1>1 DEF Own
  <1>b. Own(d) <=> Own(c)
    BY <1>2 DEF Own
  <1>3. SimTypeOK'
    <2>1. simSlot' \in [ToolModems -> Slots]
      BY <1>1 DEF SimCall, SimInv, SimTypeOK
    <2>2. simCalls' \subseteq SimCall /\ \A e \in simCalls' : e.op = "set" => e.slot \in Slots
      BY <1>1, <1>2 DEF SimInv, SimTypeOK
    <2> QED
      BY <1>1, <2>1, <2>2 DEF SimInv, SimTypeOK
  <1>4. SimOrder'
    BY <1>1, <1>2, <1>a, <1>b DEF SimInv, SimOrder
  <1>5. ASSUME ~simPane.overlapped
        PROVE  SimCurrent'
    <2> DEFINE m == simPane.modem
    <2>1. /\ simPane.modem \in ToolModems /\ simSlot \in [ToolModems -> Slots]
          /\ \A e \in simCalls : e.op = "set" /\ e.modem = m => Own(e)
          /\ \A e \in simCalls : Own(e) /\ e.at = "answered" /\ e.ok => e.slot = simSlot[m]
          /\ \A e, f \in simCalls : Own(e) /\ Own(f) => e = f
          /\ \A e \in simCalls : Own(e) => e.modem = m
      BY <1>5 DEF SimInv, SimCurrent, SimTypeOK, SimOrder
    <2> HIDE DEF m
    <2>2. \A e \in simCalls' : e.op = "set" /\ e.modem = m => Own(e)'
      BY <1>1, <1>2, <1>a, <1>b, <2>1
    <2>3. CASE Own(c)
      <3>1. \A e \in simCalls' : Own(e)' => e = d
        BY <1>1, <1>a, <2>1, <2>3
      <3>2. d.ok => d.slot = simSlot'[m]
        BY <1>1, <1>2, <2>1, <2>3 DEF SimCall
      <3>3. simPane.state = "ready" => simPane.marked = simSlot'[m] \/ d.ok
        BY <1>1, <1>2, <1>5, <2>1, <2>3 DEF SimInv, SimCurrent, SimOrder, SimCall, m
      <3> QED
        BY <1>1, <1>2, <1>a, <1>b, <2>2, <2>3, <3>1, <3>2, <3>3 DEF SimCurrent, m
    <2>4. CASE ~Own(c)
      <3>1. simSlot'[m] = simSlot[m]
        BY <1>1, <2>1, <2>4 DEF SimCall
      <3>2. \A e : e \in simCalls' /\ Own(e)' <=> e \in simCalls /\ Own(e)
        BY <1>1, <1>a, <1>b, <2>4
      <3> QED
        BY <1>1, <1>5, <2>1, <2>2, <3>1, <3>2 DEF SimInv, SimCurrent, m
    <2> QED
      BY <2>3, <2>4
  <1>6. SimCurrent'
    BY <1>1, <1>5 DEF SimCurrent
  <1> QED
    BY <1>3, <1>4, <1>6 DEF SimInv

LEMMA SimLoadedInv ==
  ASSUME SimInv, NEW c \in simCalls, NEW yes \in BOOLEAN, NEW S \in SUBSET Slots, SimLoaded(c, yes, S)
  PROVE  SimInv'
  <1>1. /\ c \in SimCall /\ c.op = "load" /\ c.at = "answered" /\ UNCHANGED simSlot
        /\ simCalls' = simCalls \ {c}
        /\ simPane' = IF c.of # simPane.id THEN simPane
                      ELSE IF ~c.ok THEN [simPane EXCEPT !.state = "failed"]
                      ELSE [simPane EXCEPT !.state = "ready", !.marked = c.slot,
                                           !.buttons = IF yes THEN S ELSE {}]
    BY DEF SimLoaded, SimInv, SimTypeOK
  <1>2. SimTypeOK'
    BY <1>1 DEF SimInv, SimTypeOK, SimCall
  <1>3. /\ simPane'.id = simPane.id /\ simPane'.modem = simPane.modem /\ simPane'.off = simPane.off
        /\ simPane'.overlapped = simPane.overlapped
        /\ Own(c) => simPane'.state = IF c.ok THEN "ready" ELSE "failed"
        /\ Own(c) /\ c.ok => simPane'.marked = c.slot
        /\ Own(c) /\ ~c.ok => simPane'.buttons = simPane.buttons
        /\ ~Own(c) => simPane' = simPane
    BY <1>1 DEF SimInv, SimTypeOK, Own
  <1>4. \A e : Own(e)' <=> Own(e)
    BY <1>3 DEF Own
  <1>5. Own(c) => /\ simPane.state = "loading" /\ ~simPane.off /\ simPane.buttons = {}
                  /\ \A e \in simCalls' : ~Own(e)
    BY <1>1 DEF SimInv, SimOrder
  <1>6. SimOrder'
    BY <1>1, <1>3, <1>4, <1>5 DEF SimInv, SimOrder
  <1>7. SimCurrent'
    <2>1. CASE Own(c)
      BY <1>1, <1>3, <1>4, <1>5, <2>1 DEF SimInv, SimCurrent
    <2>2. CASE ~Own(c)
      BY <1>1, <1>3, <1>4, <2>2 DEF SimInv, SimCurrent
    <2> QED
      BY <2>1, <2>2
  <1> QED
    BY <1>2, <1>6, <1>7 DEF SimInv

LEMMA SwitchSlotInv == ASSUME SimInv, NEW s \in Slots, SwitchSlot(s) PROVE SimInv'
  <1> DEFINE new == [op |-> "set", modem |-> simPane.modem, of |-> simPane.id, slot |-> s,
                     at |-> "sent", ok |-> TRUE]
  <1>1. /\ s \in simPane.buttons /\ ~simPane.off /\ UNCHANGED simSlot
        /\ simPane' = [simPane EXCEPT !.off = TRUE, !.result = "switching"]
        /\ simCalls' = simCalls \cup {new}
    BY DEF SwitchSlot
  <1>2. /\ new \in SimCall /\ new.op = "set" /\ new.of = simPane.id /\ new.modem = simPane.modem
        /\ new.slot = s /\ new.at = "sent"
    BY DEF SimInv, SimTypeOK, SimCall
  <1> HIDE DEF new
  <1>3. /\ simPane'.id = simPane.id /\ simPane'.modem = simPane.modem /\ simPane'.off
        /\ simPane'.state = simPane.state /\ simPane'.marked = simPane.marked
        /\ simPane'.buttons = simPane.buttons /\ simPane'.overlapped = simPane.overlapped
    BY <1>1 DEF SimInv, SimTypeOK
  <1>4. SimTypeOK'
    BY <1>1, <1>2 DEF SimInv, SimTypeOK
  <1>5. simPane.state = "ready" /\ \A c \in simCalls : ~Own(c)
    <2>1. simPane.state = "ready"
      BY <1>1 DEF SimInv, SimOrder
    <2>2. \A c \in simCalls : c.op \in {"load", "set"}
      BY DEF SimInv, SimTypeOK, SimCall
    <2> QED
      BY <1>1, <2>1, <2>2 DEF SimInv, SimOrder
  <1>6. \A c : c \in simCalls' /\ Own(c)' <=> c = new
    BY <1>1, <1>2, <1>3, <1>5 DEF Own
  <1>7. SimOrder'
    <2>1. simPane.id \in Nat
      BY DEF SimInv, SimTypeOK
    <2>2. \A c \in simCalls' : c.of <= simPane'.id
      BY <1>1, <1>2, <1>3, <2>1 DEF SimInv, SimOrder
    <2> QED
      BY <1>1, <1>2, <1>3, <1>5, <1>6, <2>2 DEF SimOrder
  <1>8. SimCurrent'
    BY <1>1, <1>2, <1>3, <1>5, <1>6 DEF SimInv, SimCurrent
  <1> QED
    BY <1>4, <1>7, <1>8 DEF SimInv

LEMMA SlotSwitchedInv == ASSUME SimInv, NEW c \in simCalls, SlotSwitched(c) PROVE SimInv'
  <1>1. /\ c \in SimCall /\ c.slot \in Slots /\ c.op = "set" /\ c.at = "answered" /\ UNCHANGED simSlot
        /\ simCalls' = simCalls \ {c}
        /\ simPane' = IF c.of # simPane.id THEN simPane
                      ELSE [simPane EXCEPT !.off = FALSE, !.result = IF c.ok THEN "success" ELSE "failed",
                                           !.marked = IF c.ok THEN c.slot ELSE @]
    BY DEF SlotSwitched, SimInv, SimTypeOK
  <1>2. SimTypeOK'
    BY <1>1 DEF SimInv, SimTypeOK, SimCall
  <1>3. /\ simPane'.id = simPane.id /\ simPane'.modem = simPane.modem /\ simPane'.state = simPane.state
        /\ simPane'.overlapped = simPane.overlapped /\ simPane'.buttons = simPane.buttons
        /\ Own(c) => ~simPane'.off /\ simPane'.marked = (IF c.ok THEN c.slot ELSE simPane.marked)
        /\ ~Own(c) => simPane' = simPane
    BY <1>1 DEF SimInv, SimTypeOK, Own
  <1>4. \A e : Own(e)' <=> Own(e)
    BY <1>3 DEF Own
  <1>5. Own(c) => simPane.state = "ready" /\ \A e \in simCalls' : ~Own(e)
    BY <1>1 DEF SimInv, SimOrder
  <1>6. SimOrder'
    <2>1. CASE Own(c)
      BY <1>1, <1>3, <1>4, <1>5, <2>1 DEF SimInv, SimOrder
    <2>2. CASE ~Own(c)
      BY <1>1, <1>3, <1>4, <2>2 DEF SimInv, SimOrder
    <2> QED
      BY <2>1, <2>2
  <1>7. SimCurrent'
    <2>1. CASE Own(c)
      <3>1. ASSUME ~simPane.overlapped
            PROVE  simPane'.marked = simSlot[simPane.modem]
        BY <1>1, <1>3, <1>5, <2>1, <3>1 DEF SimInv, SimCurrent, SimOrder
      <3> QED
        BY <1>1, <1>3, <1>4, <1>5, <2>1, <3>1 DEF SimInv, SimCurrent
    <2>2. CASE ~Own(c)
      <3>1. simPane' = simPane /\ simSlot' = simSlot /\ simCalls' = simCalls \ {c}
        BY <1>1, <1>3, <2>2
      <3>2. SimCurrent /\ ~Own(c) /\ \A e : Own(e)' <=> Own(e)
        BY <1>4, <2>2 DEF SimInv
      <3> QED
        BY <3>1, <3>2 DEF SimCurrent
    <2> QED
      BY <2>1, <2>2
  <1> QED
    BY <1>2, <1>6, <1>7 DEF SimInv

LEMMA SimNextInv == SimInv /\ [SimNext]_simVars => SimInv'
  <1> SUFFICES ASSUME SimInv, [SimNext]_simVars PROVE SimInv'
    OBVIOUS
  <1>1. CASE UNCHANGED simVars
    BY <1>1 DEF simVars, SimInv, SimTypeOK, SimOrder, SimCurrent, Own
  <1>2. CASE SimNext
    <2>1. CASE \E m \in ToolModems : SimSelect(m)
      BY <2>1, SimSelectInv
    <2>2. CASE \E c \in simCalls, yes \in BOOLEAN : ModemServes(c, yes)
      BY <2>2, ServesInv
    <2>3. CASE \E c \in simCalls, yes \in BOOLEAN, S \in SUBSET Slots : SimLoaded(c, yes, S)
      BY <2>3, SimLoadedInv
    <2>4. CASE \E s \in Slots : SwitchSlot(s)
      BY <2>4, SwitchSlotInv
    <2>5. CASE \E c \in simCalls : SlotSwitched(c)
      BY <2>5, SlotSwitchedInv
    <2> QED
      BY <1>2, <2>1, <2>2, <2>3, <2>4, <2>5 DEF SimNext
  <1> QED
    BY <1>1, <1>2

LEMMA SimTells == SimInv => OneSwitchAtATime /\ MarkedIsSlot
  <1> SUFFICES ASSUME SimInv PROVE OneSwitchAtATime /\ MarkedIsSlot
    OBVIOUS
  <1> DEFINE own == {c \in simCalls : c.op = "set" /\ c.of = simPane.id}
  <1>1. own = {} \/ \E c : own = {c}
    BY DEF SimInv, SimOrder, Own
  <1>2. Cardinality(own) = 0 \/ Cardinality(own) = 1
    <2>1. CASE own = {}
      BY <2>1, FS_EmptySet
    <2>2. CASE \E c : own = {c}
      BY <2>2, FS_Singleton
    <2> HIDE DEF own
    <2> QED
      BY <1>1, <2>1, <2>2
  <1>3. simPane.off <=> own # {}
    BY DEF SimInv, SimOrder, Own
  <1>4. OneSwitchAtATime
    BY <1>2, <1>3 DEF OneSwitchAtATime
  <1>5. MarkedIsSlot
    BY DEF SimInv, SimOrder, SimCurrent, MarkedIsSlot, SimTypeOK, SimCall
  <1> QED
    BY <1>4, <1>5

AtCall == [op : {"load", "send"}, modem : ToolModems, of : Nat, nth : Nat]

\* ResponseIsOfModem, made inductive: calls are of interfaces made so far, and those of the
\* interface shown are about its modem.
AtInv ==
  /\ atCalls \subseteq AtCall
  /\ atPane \in [modem : ToolModems, id : Nat, state : {"loading", "ready", "failed"}, command : {"empty", "typed"},
                 response : [of : {"none", "refused", "sending", "answer"}, modem : ToolModems], sent : Nat]
  /\ \A c \in atCalls : c.of <= atPane.id /\ (c.of = atPane.id => c.modem = atPane.modem)
  /\ atPane.response.modem = atPane.modem
  /\ atPane.response.of = "sending" => \E c \in atCalls : c.op = "send" /\ c.of = atPane.id

LEMMA AtInitInv == AtInit => AtInv
  <1>1. (CHOOSE m \in ToolModems : TRUE) \in ToolModems
    BY ToolAssumption
  <1> QED
    BY <1>1 DEF AtInit, AtInv, AtCall, NewAtPane

LEMMA AtNextInv == AtInv /\ [AtNext]_atVars => AtInv'
  <1> SUFFICES ASSUME AtInv, [AtNext]_atVars PROVE AtInv'
    OBVIOUS
  <1>0. CASE UNCHANGED atVars
    BY <1>0 DEF atVars, AtInv
  <1>1. ASSUME NEW m \in ToolModems, AtSelect(m)
        PROVE  AtInv'
    <2>1. /\ atPane' = NewAtPane(m, atPane.id + 1)
          /\ atCalls' = atCalls \cup {[op |-> "load", modem |-> m, of |-> atPane.id + 1, nth |-> 0]}
          /\ atPane.id + 1 \in Nat /\ atPane.id \in Nat
      BY <1>1 DEF AtSelect, AtInv
    <2>2. \A c \in atCalls : c.of <= atPane.id + 1 /\ c.of # atPane.id + 1
      BY <2>1 DEF AtInv, AtCall
    <2> QED
      BY <2>1, <2>2 DEF AtInv, AtCall, NewAtPane
  <1>2. ASSUME NEW c \in atCalls, AtAnswered(c)
        PROVE  AtInv'
    BY <1>2 DEF AtAnswered, AtInv, AtCall
  <1>3. ASSUME NEW c \in atCalls, NEW yes \in BOOLEAN, AtLoaded(c, yes)
        PROVE  AtInv'
    <2>1. /\ c.op = "load" /\ atCalls' = atCalls \ {c}
          /\ atPane' = IF c.of = atPane.id THEN [atPane EXCEPT !.state = IF yes THEN "ready" ELSE "failed"] ELSE atPane
      BY <1>3 DEF AtLoaded
    <2>2. \A d \in atCalls : d.op = "send" => d \in atCalls'
      BY <2>1
    <2> QED
      BY <2>1, <2>2 DEF AtInv, AtCall
  <1>4. CASE EnterCommand
    BY <1>4 DEF EnterCommand, AtInv, AtCall
  <1>5. CASE SendAt
    <2>1. CASE atPane.command = "empty"
      BY <1>5, <2>1 DEF SendAt, AtInv, AtCall
    <2>2. CASE atPane.command # "empty"
      <3>1. /\ atPane' = [atPane EXCEPT !.response.of = "sending", !.sent = @ + 1]
            /\ atCalls' = atCalls \cup {[op |-> "send", modem |-> atPane.modem, of |-> atPane.id,
                                         nth |-> atPane.sent + 1]}
        BY <1>5, <2>2 DEF SendAt
      <3>2. atPane.sent \in Nat /\ atPane.sent + 1 \in Nat /\ atPane.id \in Nat
        BY DEF AtInv
      <3>3. /\ atPane'.id = atPane.id /\ atPane'.modem = atPane.modem
            /\ atPane'.response.modem = atPane.response.modem
        BY <3>1 DEF AtInv
      <3>4. atPane' \in [modem : ToolModems, id : Nat, state : {"loading", "ready", "failed"},
                        command : {"empty", "typed"},
                        response : [of : {"none", "refused", "sending", "answer"}, modem : ToolModems],
                        sent : Nat]
        BY <3>1, <3>2 DEF AtInv
      <3> DEFINE new == [op |-> "send", modem |-> atPane.modem, of |-> atPane.id, nth |-> atPane.sent + 1]
      <3>a. new \in AtCall /\ new.op = "send" /\ new.of = atPane.id
        BY <3>2 DEF AtInv, AtCall
      <3>b. atCalls' = atCalls \cup {new}
        BY <3>1
      <3> HIDE DEF new
      <3>5. atCalls' \subseteq AtCall /\ \E c \in atCalls' : c.op = "send" /\ c.of = atPane'.id
        BY <3>3, <3>a, <3>b DEF AtInv
      <3>6. \A c \in atCalls' : c.of <= atPane'.id /\ (c.of = atPane'.id => c.modem = atPane'.modem)
        BY <3>1, <3>2, <3>3 DEF AtInv
      <3> QED
        BY <3>3, <3>4, <3>5, <3>6 DEF AtInv
    <2> QED
      BY <2>1, <2>2
  <1>6. CASE AtNext
    BY <1>1, <1>2, <1>3, <1>4, <1>5, <1>6 DEF AtNext
  <1> QED
    BY <1>0, <1>6

LEMMA AtTells == AtInv => ResponseIsOfModem
  BY DEF AtInv, ResponseIsOfModem

-----------------------------------------------------------------------------
(* The message views.                                                      *)

SmsCall ==
  [op : {"load", "poll", "storage", "setStorage", "send", "redirect", "delete", "deleteSlot", "slotDone", "orphan"},
   modem : SmsModems, spinner : Nat, slot : SimSlots \cup {0}, ok : BOOLEAN, all : BOOLEAN]
SmsRows == [of : SmsModems \cup {"none"}, utc : SUBSET Boxes, listed : SUBSET (SimSlots \X Nat)]

SmsTypeOK ==
  /\ smsChosen \in SmsModems /\ smsSpinner \in Nat /\ smsUtc \subseteq Boxes
  /\ smsCalls \subseteq SmsCall
  /\ simArrived \in Nat /\ simCard \in [SmsModems -> [SimSlots -> Nat]]
  /\ smsArea \in [spinner : Nat, alert : BOOLEAN, rows : SmsRows]
  /\ smsArea.rows.of = "none" => smsArea.rows.listed = {}

\* A conversation is never behind a modal, and has one send at most under way.
Conversing ==
  smsView = "conversation" =>
    /\ smsModal = "none"
    /\ \A c, d \in smsCalls : c.op = "send" /\ d.op = "send" => c = d
    /\ smsSend <=> \A c \in smsCalls : c.op # "send"

SmsInv == SmsTypeOK /\ SpinnerHasLoad /\ ModalHasCall /\ Conversing /\ TimesFollowBoxes

LEMMA SmsCallTypes ==
  ASSUME NEW m \in SmsModems, NEW n \in Nat
  PROVE  /\ LoadCall(m, n) \in SmsCall /\ LoadCall(m, n).op = "load" /\ LoadCall(m, n).spinner = n
         /\ \A op \in {"poll", "storage", "setStorage", "send", "redirect", "delete", "deleteSlot"} :
              CallOf(op, m) \in SmsCall /\ CallOf(op, m).op = op /\ CallOf(op, m).modem = m
         /\ LoadCall(m, n).modem = m
  BY DEF SmsCall, LoadCall, CallOf

\* A new spinner comes with its load, and with no rows whose times could be wrong.
LEMMA StartOverInv ==
  ASSUME SmsTypeOK, NEW m \in SmsModems, NEW others \in SUBSET SmsCall, StartOver(m, others)
  PROVE  /\ smsSpinner' \in Nat /\ smsCalls' \subseteq SmsCall
         /\ smsArea' \in [spinner : Nat, alert : BOOLEAN, rows : SmsRows] /\ smsArea'.rows = NoRows
         /\ smsArea'.rows.of = "none" /\ smsArea'.rows.listed = {}
         /\ SpinnerHasLoad' /\ TimesFollowBoxes'
         /\ \A c : c.op # "load" => (c \in smsCalls' <=> c \in others)
  <1>1. smsSpinner + 1 \in Nat
    BY DEF SmsTypeOK
  <1> DEFINE new == LoadCall(m, smsSpinner + 1)
  <1>2. new \in SmsCall /\ new.op = "load" /\ new.spinner = smsSpinner + 1
    BY <1>1, SmsCallTypes
  <1>3. /\ smsSpinner' = smsSpinner + 1 /\ smsCalls' = others \cup {new}
        /\ smsArea' = [Blank EXCEPT !.spinner = smsSpinner + 1]
    BY DEF StartOver
  <1> HIDE DEF new
  <1>4. /\ smsArea' = [spinner |-> smsSpinner + 1, alert |-> FALSE, rows |-> NoRows]
        /\ NoRows \in SmsRows /\ NoRows.of = "none" /\ NoRows.listed = {}
    BY <1>3 DEF Blank, NoRows, SmsRows
  <1>5. smsArea'.spinner = smsSpinner + 1 /\ smsArea'.rows = NoRows
        /\ smsArea' \in [spinner : Nat, alert : BOOLEAN, rows : SmsRows]
    BY <1>1, <1>4
  <1>6. SpinnerHasLoad' /\ TimesFollowBoxes'
    BY <1>2, <1>3, <1>4, <1>5 DEF SpinnerHasLoad, TimesFollowBoxes
  <1> QED
    BY <1>1, <1>2, <1>3, <1>4, <1>5, <1>6

LEMMA Filled ==
  ASSUME NEW r, NEW b, b = [Blank EXCEPT !.rows = r]
  PROVE  b = [spinner |-> 0, alert |-> FALSE, rows |-> r]
  BY DEF Blank

LEMMA Alerted ==
  ASSUME NEW b, b = [Blank EXCEPT !.alert = TRUE]
  PROVE  b = [spinner |-> 0, alert |-> TRUE, rows |-> NoRows]
  BY DEF Blank, NoRows

\* What fills the area: the rows of a modem, shifted as the boxes say.
LEMMA RowsShown ==
  ASSUME SmsTypeOK, NEW m \in SmsModems
  PROVE  /\ RowsOf(m) \in SmsRows /\ RowsOf(m).of = m /\ RowsOf(m).utc = smsUtc
         /\ m # "none"
  <1>1. Listing(m) \subseteq SimSlots \X Nat
    BY DEF Listing, SmsTypeOK
  <1> DEFINE shown == IF smsView = "sim" THEN Listing(m) ELSE {}
  <1>3. shown \in SUBSET (SimSlots \X Nat)
    BY <1>1
  <1>4. RowsOf(m) = [of |-> m, utc |-> smsUtc, listed |-> shown]
    BY DEF RowsOf
  <1> HIDE DEF shown
  <1> QED
    BY <1>3, <1>4, SmsAssumption DEF SmsRows, SmsTypeOK

LEMMA SmsInitInv == SmsInit => SmsInv
  <1> SUFFICES ASSUME SmsInit PROVE SmsInv
    OBVIOUS
  <1>1. /\ smsCalls \subseteq SmsCall /\ \A c \in smsCalls : c.op \in {"load", "storage"}
        /\ \E c \in smsCalls : c.op = "load" /\ c.spinner = 1
    <2>1. LoadCall(FirstModem, 1) \in SmsCall /\ LoadCall(FirstModem, 1).op = "load" /\ LoadCall(FirstModem, 1).spinner = 1
      BY SmsAssumption, SmsCallTypes
    <2>2. CallOf("storage", FirstModem) \in SmsCall /\ CallOf("storage", FirstModem).op = "storage"
      BY SmsAssumption, SmsCallTypes
    <2> QED
      BY <2>1, <2>2 DEF SmsInit
  <1>2. /\ smsArea = [spinner |-> 1, alert |-> FALSE, rows |-> NoRows]
        /\ NoRows \in SmsRows /\ NoRows.of = "none" /\ NoRows.listed = {}
    BY DEF SmsInit, Blank, NoRows, SmsRows
  <1>3. simCard \in [SmsModems -> [SimSlots -> Nat]] /\ simArrived \in Nat
    BY DEF SmsInit, FreeSlot
  <1>4. SmsTypeOK
    <2>1. smsArea \in [spinner : Nat, alert : BOOLEAN, rows : SmsRows]
      BY <1>2
    <2> QED
      BY <1>1, <1>2, <1>3, <2>1, SmsAssumption DEF SmsInit, SmsTypeOK
  <1> QED
    BY <1>1, <1>2, <1>4 DEF SmsInit, SmsInv, SpinnerHasLoad, ModalHasCall, Conversing, TimesFollowBoxes

\* The steps that start over.
LEMMA SmsSelectInv == ASSUME SmsInv, NEW m \in SmsModems, SmsSelect(m) PROVE SmsInv'
  <1> DEFINE others == smsCalls \cup IF smsView = "list" THEN {CallOf("storage", m)} ELSE {}
  <1>1. CallOf("storage", m) \in SmsCall /\ CallOf("storage", m).op = "storage"
    BY SmsCallTypes
  <1>2. others \subseteq SmsCall /\ \A c : c.op # "storage" => (c \in others <=> c \in smsCalls)
    BY <1>1 DEF SmsInv, SmsTypeOK
  <1>3. StartOver(m, others) /\ SmsTypeOK
    BY DEF SmsSelect, SmsInv
  <1> HIDE DEF others
  <1>4. /\ smsSpinner' \in Nat /\ smsCalls' \subseteq SmsCall
        /\ smsArea' \in [spinner : Nat, alert : BOOLEAN, rows : SmsRows]
        /\ smsArea'.rows.of = "none" /\ smsArea'.rows.listed = {}
        /\ SpinnerHasLoad' /\ TimesFollowBoxes'
        /\ \A c : c.op # "load" => (c \in smsCalls' <=> c \in others)
    BY <1>2, <1>3, StartOverInv
  <1>5. /\ smsChosen' = m /\ smsModal = "none" /\ smsModal' = "none"
        /\ UNCHANGED <<smsView, smsUtc, smsSend, simCard, simArrived>>
    BY DEF SmsSelect, cardVars
  <1>6. SmsTypeOK'
    BY <1>3, <1>4, <1>5 DEF SmsTypeOK
  <1>7. Conversing'
    <2>1. \A c : c.op = "send" => (c \in smsCalls' <=> c \in smsCalls)
      BY <1>2, <1>4
    <2> QED
      BY <1>5, <2>1 DEF SmsInv, Conversing
  <1> QED
    BY <1>4, <1>5, <1>6, <1>7 DEF SmsInv, ModalHasCall

LEMMA ToggleUtcInv == ASSUME SmsInv, NEW b \in Boxes, ToggleUtc(b) PROVE SmsInv'
  <1>1. SmsTypeOK /\ smsChosen \in SmsModems /\ smsCalls \in SUBSET SmsCall /\ StartOver(smsChosen, smsCalls)
    BY DEF ToggleUtc, SmsInv, SmsTypeOK
  <1>2. /\ smsSpinner' \in Nat /\ smsCalls' \subseteq SmsCall
        /\ smsArea' \in [spinner : Nat, alert : BOOLEAN, rows : SmsRows]
        /\ smsArea'.rows.of = "none" /\ smsArea'.rows.listed = {}
        /\ SpinnerHasLoad' /\ TimesFollowBoxes'
        /\ \A c : c.op # "load" => (c \in smsCalls' <=> c \in smsCalls)
    BY <1>1, StartOverInv
  <1>3. /\ smsUtc' \in SUBSET Boxes /\ smsModal = "none"
        /\ UNCHANGED <<smsView, smsChosen, smsModal, smsSend, simCard, simArrived>>
    BY <1>1 DEF ToggleUtc, SmsTypeOK, cardVars
  <1>4. SmsTypeOK'
    BY <1>1, <1>2, <1>3 DEF SmsTypeOK
  <1>5. Conversing'
    <2>1. \A c : c.op = "send" => (c \in smsCalls' <=> c \in smsCalls)
      BY <1>2
    <2> QED
      BY <1>3, <2>1 DEF SmsInv, Conversing
  <1> QED
    BY <1>2, <1>3, <1>4, <1>5 DEF SmsInv, ModalHasCall

LEMMA OpenConversationInv == ASSUME SmsInv, NEW c \in smsCalls, OpenConversation(c) PROVE SmsInv'
  <1>1. SmsTypeOK /\ FirstModem \in SmsModems /\ {} \in SUBSET SmsCall /\ StartOver(FirstModem, {})
    BY SmsAssumption DEF OpenConversation, SmsInv
  <1>2. /\ smsSpinner' \in Nat /\ smsCalls' \subseteq SmsCall
        /\ smsArea' \in [spinner : Nat, alert : BOOLEAN, rows : SmsRows]
        /\ smsArea'.rows.of = "none" /\ smsArea'.rows.listed = {}
        /\ SpinnerHasLoad' /\ TimesFollowBoxes'
        /\ \A d : d.op # "load" => (d \in smsCalls' <=> d \in {})
    BY <1>1, StartOverInv
  <1>3. /\ smsChosen' = FirstModem /\ smsView' = "conversation" /\ smsModal' = "none" /\ smsSend'
        /\ UNCHANGED <<smsUtc, simCard, simArrived>>
    BY DEF OpenConversation, cardVars
  <1>4. SmsTypeOK'
    BY <1>1, <1>2, <1>3 DEF SmsTypeOK
  <1>5. \A d \in smsCalls' : d.op # "send"
    BY <1>2
  <1>6. Conversing'
    BY <1>3, <1>5 DEF Conversing
  <1> QED
    BY <1>2, <1>3, <1>4, <1>6 DEF SmsInv, ModalHasCall

LEMMA MessageDeletedInv ==
  ASSUME SmsInv, NEW c \in smsCalls, NEW yes \in BOOLEAN, MessageDeleted(c, yes) PROVE SmsInv'
  <1>1. /\ SmsTypeOK /\ c \in SmsCall /\ c.modem \in SmsModems /\ smsCalls \ {c} \in SUBSET SmsCall
        /\ smsView = "conversation" /\ c.op = "delete" /\ smsModal = "none"
        /\ UNCHANGED <<smsView, smsChosen, smsUtc, smsModal, smsSend, simCard, simArrived>>
    BY DEF MessageDeleted, SmsInv, SmsTypeOK, SmsCall, Conversing, viewVars, cardVars
  <1>2. CASE yes
    <2>1. StartOver(c.modem, smsCalls \ {c})
      BY <1>2 DEF MessageDeleted
    <2>2. /\ smsSpinner' \in Nat /\ smsCalls' \subseteq SmsCall
          /\ smsArea' \in [spinner : Nat, alert : BOOLEAN, rows : SmsRows]
          /\ smsArea'.rows.of = "none" /\ smsArea'.rows.listed = {}
          /\ SpinnerHasLoad' /\ TimesFollowBoxes'
          /\ \A d : d.op # "load" => (d \in smsCalls' <=> d \in smsCalls \ {c})
      BY <1>1, <2>1, StartOverInv
    <2>3. SmsTypeOK'
      BY <1>1, <2>2 DEF SmsTypeOK
    <2>4. \A d : d.op = "send" => (d \in smsCalls' <=> d \in smsCalls)
      BY <1>1, <2>2
    <2> QED
      BY <1>1, <2>2, <2>3, <2>4 DEF SmsInv, Conversing, ModalHasCall
  <1>3. CASE ~yes
    <2>1. smsCalls' = smsCalls \ {c} /\ UNCHANGED <<smsArea, smsSpinner>>
      BY <1>3 DEF MessageDeleted
    <2> QED
      BY <1>1, <2>1 DEF SmsInv, SmsTypeOK, SpinnerHasLoad, Conversing, ModalHasCall, TimesFollowBoxes
  <1> QED
    BY <1>2, <1>3

LEMMA SlotsDeletedInv == ASSUME SmsInv, SlotsDeleted PROVE SmsInv'
  <1>1. /\ SmsTypeOK /\ Deletions # {} /\ smsCalls \ Deletions \in SUBSET SmsCall /\ smsModal' = "none"
        /\ UNCHANGED <<smsView, smsChosen, smsUtc, smsSend, simCard, simArrived>>
    BY DEF SlotsDeleted, SmsInv, SmsTypeOK, viewVars, cardVars
  <1>2. \A d : d.op \in {"load", "send"} => (d \in smsCalls \ Deletions <=> d \in smsCalls)
    BY DEF Deletions
  <1>3. CASE \E c \in Deletions : c.ok \/ c.all
    <2>1. \E m \in SmsModems : StartOver(m, smsCalls \ Deletions)
      <3>1. (CHOOSE c \in Deletions : TRUE) \in Deletions
        BY <1>1
      <3>2. (CHOOSE c \in Deletions : TRUE).modem \in SmsModems
        BY <1>1, <3>1 DEF Deletions, SmsTypeOK, SmsCall
      <3>3. StartOver((CHOOSE c \in Deletions : TRUE).modem, smsCalls \ Deletions)
        BY <1>3 DEF SlotsDeleted
      <3> QED
        BY <3>2, <3>3
    <2>2. /\ smsSpinner' \in Nat /\ smsCalls' \subseteq SmsCall
          /\ smsArea' \in [spinner : Nat, alert : BOOLEAN, rows : SmsRows]
          /\ smsArea'.rows.of = "none" /\ smsArea'.rows.listed = {}
          /\ SpinnerHasLoad' /\ TimesFollowBoxes'
          /\ \A d : d.op # "load" => (d \in smsCalls' <=> d \in smsCalls \ Deletions)
      BY <1>1, <2>1, StartOverInv
    <2>3. SmsTypeOK'
      BY <1>1, <2>2 DEF SmsTypeOK
    <2>4. \A d : d.op = "send" => (d \in smsCalls' <=> d \in smsCalls)
      BY <1>2, <2>2
    <2> QED
      BY <1>1, <2>2, <2>3, <2>4 DEF SmsInv, Conversing, ModalHasCall
  <1>4. CASE ~\E c \in Deletions : c.ok \/ c.all
    <2>1. smsCalls' = smsCalls \ Deletions /\ UNCHANGED <<smsArea, smsSpinner>>
      BY <1>4 DEF SlotsDeleted
    <2> QED
      BY <1>1, <1>2, <2>1 DEF SmsInv, SmsTypeOK, SpinnerHasLoad, Conversing, ModalHasCall, TimesFollowBoxes
  <1> QED
    BY <1>3, <1>4

\* The steps that only send a call: nothing that is shown changes.
LEMMA CallSent ==
  ASSUME SmsInv, NEW op \in {"poll", "setStorage", "send", "delete"}, NEW m \in SmsModems,
         smsCalls' = smsCalls \cup {CallOf(op, m)},
         UNCHANGED <<smsView, smsChosen, smsUtc, smsArea, smsSpinner, simCard, simArrived>>
  PROVE  /\ SmsTypeOK' /\ SpinnerHasLoad' /\ TimesFollowBoxes'
         /\ CallOf(op, m).op = op /\ smsCalls \subseteq smsCalls'
         /\ \A c \in smsCalls' : c \in smsCalls \/ c = CallOf(op, m)
  <1> DEFINE new == CallOf(op, m)
  <1>1. new \in SmsCall /\ new.op = op
    BY SmsCallTypes
  <1>2. smsCalls' = smsCalls \cup {new}
    OBVIOUS
  <1> HIDE DEF new
  <1>3. SmsTypeOK' /\ SpinnerHasLoad' /\ TimesFollowBoxes'
    BY <1>1, <1>2 DEF SmsInv, SmsTypeOK, SpinnerHasLoad, TimesFollowBoxes
  <1> QED
    BY <1>1, <1>2, <1>3 DEF new

LEMMA SendingInv == SmsInv /\ (SmsPoll \/ ApplyStorage \/ NewConversation \/ SendReply \/ DeleteMessage) => SmsInv'
  <1> SUFFICES ASSUME SmsInv, SmsPoll \/ ApplyStorage \/ NewConversation \/ SendReply \/ DeleteMessage PROVE SmsInv'
    OBVIOUS
  <1>0. smsChosen \in SmsModems
    BY DEF SmsInv, SmsTypeOK
  <1> USE DEF viewVars, cardVars
  <1>1. CASE SmsPoll
    <2>1. /\ SmsTypeOK' /\ SpinnerHasLoad' /\ TimesFollowBoxes'
          /\ CallOf("poll", smsChosen).op = "poll" /\ smsCalls \subseteq smsCalls'
          /\ \A c \in smsCalls' : c \in smsCalls \/ c = CallOf("poll", smsChosen)
      BY <1>0, <1>1, CallSent DEF SmsPoll
    <2> HIDE DEF CallOf
    <2> QED
      BY <1>1, <2>1 DEF SmsPoll, SmsInv, ModalHasCall, Conversing
  <1>2. CASE ApplyStorage
    <2>1. /\ SmsTypeOK' /\ SpinnerHasLoad' /\ TimesFollowBoxes'
          /\ CallOf("setStorage", smsChosen).op = "setStorage"
          /\ CallOf("setStorage", smsChosen) \in smsCalls'
      BY <1>0, <1>2, CallSent DEF ApplyStorage
    <2> QED
      BY <1>2, <2>1 DEF ApplyStorage, SmsInv, ModalHasCall, Conversing
  <1>3. CASE NewConversation
    <2>1. /\ SmsTypeOK' /\ SpinnerHasLoad' /\ TimesFollowBoxes'
          /\ CallOf("send", smsChosen).op = "send"
          /\ CallOf("send", smsChosen) \in smsCalls'
      BY <1>0, <1>3, CallSent DEF NewConversation
    <2> QED
      BY <1>3, <2>1 DEF NewConversation, SmsInv, ModalHasCall, Conversing
  <1>4. CASE SendReply
    <2>1. /\ SmsTypeOK' /\ SpinnerHasLoad' /\ TimesFollowBoxes'
          /\ CallOf("send", smsChosen).op = "send" /\ CallOf("send", smsChosen) \in smsCalls'
          /\ \A c \in smsCalls' : c \in smsCalls \/ c = CallOf("send", smsChosen)
      BY <1>0, <1>4, CallSent DEF SendReply
    <2>2. Conversing'
      BY <1>4, <2>1 DEF SendReply, SmsInv, Conversing
    <2> QED
      BY <1>4, <2>1, <2>2 DEF SendReply, SmsInv, ModalHasCall, Conversing
  <1>5. CASE DeleteMessage
    <2>0. smsArea.rows.of \in SmsModems
      BY <1>5 DEF DeleteMessage, SmsInv, SmsTypeOK, SmsRows
    <2>1. /\ SmsTypeOK' /\ SpinnerHasLoad' /\ TimesFollowBoxes'
          /\ CallOf("delete", smsArea.rows.of).op = "delete" /\ smsCalls \subseteq smsCalls'
          /\ \A c \in smsCalls' : c \in smsCalls \/ c = CallOf("delete", smsArea.rows.of)
      BY <1>5, <2>0, CallSent DEF DeleteMessage
    <2> QED
      BY <1>5, <2>1 DEF DeleteMessage, SmsInv, ModalHasCall, Conversing
  <1> QED
    BY <1>1, <1>2, <1>3, <1>4, <1>5

\* The answers that fill the area.
LEMMA ShowingInv ==
  ASSUME SmsInv, NEW c \in smsCalls, NEW yes \in BOOLEAN, Loaded(c, yes) \/ Polled(c, yes) PROVE SmsInv'
  <1>1. /\ SmsTypeOK /\ c \in SmsCall /\ c.modem \in SmsModems /\ c.op \in {"load", "poll"}
        /\ smsCalls' = smsCalls \ {c}
        /\ UNCHANGED <<smsView, smsChosen, smsUtc, smsSpinner, smsModal, smsSend, simCard, simArrived>>
    BY DEF Loaded, Polled, SmsInv, SmsTypeOK, SmsCall, viewVars, cardVars
  <1>2. ModalHasCall' /\ Conversing'
    BY <1>1 DEF SmsInv, ModalHasCall, Conversing
  <1>3. smsArea \in [spinner : Nat, alert : BOOLEAN, rows : SmsRows]
    BY <1>1 DEF SmsTypeOK
  <1>4. NoRows \in SmsRows /\ NoRows.of = "none" /\ NoRows.listed = {}
    BY DEF NoRows, SmsRows
  <1>5. \/ /\ yes
           /\ smsArea' = [spinner |-> 0, alert |-> FALSE, rows |-> RowsOf(c.modem)]
        \/ /\ ~yes /\ c.op = "load" /\ c.spinner = smsArea.spinner
           /\ smsArea' = [spinner |-> 0, alert |-> TRUE, rows |-> NoRows]
        \/ /\ ~yes /\ c.op = "load" /\ c.spinner # smsArea.spinner
           /\ smsArea' = [smsArea EXCEPT !.alert = TRUE]
        \/ ~yes /\ c.op = "poll" /\ smsArea' = smsArea
    BY <1>1, Filled, Alerted DEF Loaded, Polled
  <1>6. CASE /\ yes
             /\ smsArea' = [spinner |-> 0, alert |-> FALSE, rows |-> RowsOf(c.modem)]
    <2>1. PICK r \in SmsRows : /\ r = RowsOf(c.modem) /\ r.utc = smsUtc /\ r.of # "none"
                               /\ smsArea' = [spinner |-> 0, alert |-> FALSE, rows |-> r]
      BY <1>1, <1>6, RowsShown
    <2>2. SmsTypeOK' /\ SpinnerHasLoad' /\ TimesFollowBoxes'
      BY <1>1, <2>1 DEF SmsTypeOK, SpinnerHasLoad, TimesFollowBoxes
    <2> QED
      BY <1>2, <2>2 DEF SmsInv
  <1>7. CASE /\ c.spinner = smsArea.spinner
             /\ smsArea' = [spinner |-> 0, alert |-> TRUE, rows |-> NoRows]
    <2>1. SmsTypeOK' /\ SpinnerHasLoad' /\ TimesFollowBoxes'
      BY <1>1, <1>4, <1>7 DEF SmsTypeOK, SpinnerHasLoad, TimesFollowBoxes
    <2> QED
      BY <1>2, <2>1 DEF SmsInv
  <1>8. CASE \/ /\ c.op = "load" /\ c.spinner # smsArea.spinner
                /\ smsArea' = [smsArea EXCEPT !.alert = TRUE]
             \/ c.op = "poll" /\ smsArea' = smsArea
    <2>1. smsArea'.spinner = smsArea.spinner /\ smsArea'.rows = smsArea.rows
          /\ smsArea' \in [spinner : Nat, alert : BOOLEAN, rows : SmsRows]
      BY <1>3, <1>8
    <2>2. SmsTypeOK' /\ SpinnerHasLoad' /\ TimesFollowBoxes'
      BY <1>1, <1>8, <2>1 DEF SmsInv, SmsTypeOK, SpinnerHasLoad, TimesFollowBoxes
    <2> QED
      BY <1>2, <2>2 DEF SmsInv
  <1> QED
    BY <1>5, <1>6, <1>7, <1>8

\* The other answers: none is a load, and those that a modal or the send button waits for
\* release it.
LEMMA AnsweredInv ==
  ASSUME SmsInv, NEW c \in smsCalls, NEW yes \in BOOLEAN,
         \/ StorageSet(c, yes) \/ NewSent(c, yes) \/ ReplySent(c, yes) \/ OrphanServed(c, yes)
         \/ \E named \in SUBSET Selects : StorageLoaded(c, named)
  PROVE  SmsInv'
  <1>0. /\ SmsTypeOK /\ c \in SmsCall /\ c.modem \in SmsModems /\ smsChosen \in SmsModems
    BY DEF SmsInv, SmsTypeOK, SmsCall
  <1>1. ASSUME NEW new \in SUBSET SmsCall, smsCalls' = (smsCalls \ {c}) \cup new, c.op # "load",
               UNCHANGED <<smsView, smsChosen, smsUtc, smsArea, smsSpinner>>,
               simArrived' = simArrived, simCard' \in [SmsModems -> [SimSlots -> Nat]]
        PROVE  SmsTypeOK' /\ SpinnerHasLoad' /\ TimesFollowBoxes'
    <2>1. SmsTypeOK'
      BY <1>1, <1>0 DEF SmsTypeOK
    <2>2. SpinnerHasLoad'
      BY <1>1 DEF SmsInv, SpinnerHasLoad
    <2> QED
      BY <1>1, <2>1, <2>2 DEF SmsInv, TimesFollowBoxes
  <1>2. CASE StorageSet(c, yes)
    <2> DEFINE new == IF yes THEN {CallOf("storage", c.modem)} ELSE {}
    <2>1. new \in SUBSET SmsCall /\ \A d \in new : d.op = "storage"
      BY <1>0, SmsCallTypes
    <2>2. /\ smsCalls' = (smsCalls \ {c}) \cup new /\ c.op = "setStorage" /\ smsModal' = "none"
          /\ UNCHANGED <<smsView, smsChosen, smsUtc, smsArea, smsSpinner, smsSend, simCard, simArrived>>
      BY <1>2 DEF StorageSet, viewVars, cardVars
    <2> HIDE DEF new
    <2>3. SmsTypeOK' /\ SpinnerHasLoad' /\ TimesFollowBoxes'
      BY <1>0, <1>1, <2>1, <2>2 DEF SmsTypeOK
    <2> QED
      BY <2>1, <2>2, <2>3 DEF SmsInv, ModalHasCall, Conversing
  <1>3. CASE NewSent(c, yes)
    <2> DEFINE new == IF yes THEN {CallOf("redirect", c.modem)} ELSE {}
    <2>1. new \in SUBSET SmsCall
      BY <1>0, SmsCallTypes
    <2>2. /\ smsCalls' = (smsCalls \ {c}) \cup new /\ c.op = "send" /\ smsModal' = "none"
          /\ smsView = "list"
          /\ UNCHANGED <<smsView, smsChosen, smsUtc, smsArea, smsSpinner, smsSend, simCard, simArrived>>
      BY <1>3 DEF NewSent, viewVars, cardVars
    <2> HIDE DEF new
    <2>3. SmsTypeOK' /\ SpinnerHasLoad' /\ TimesFollowBoxes'
      BY <1>0, <1>1, <2>1, <2>2 DEF SmsTypeOK
    <2> QED
      BY <2>1, <2>2, <2>3 DEF SmsInv, ModalHasCall, Conversing
  <1>4. CASE ReplySent(c, yes)
    <2> DEFINE new == IF yes THEN {LoadCall(smsChosen, 0)} ELSE {}
    <2>1. new \in SUBSET SmsCall /\ \A d \in new : d.op = "load"
      BY <1>0, SmsCallTypes
    <2>2. /\ smsCalls' = (smsCalls \ {c}) \cup new /\ c.op = "send" /\ smsSend'
          /\ smsView = "conversation"
          /\ UNCHANGED <<smsView, smsChosen, smsUtc, smsArea, smsSpinner, smsModal, simCard, simArrived>>
      BY <1>4 DEF ReplySent, viewVars, cardVars
    <2> HIDE DEF new
    <2>3. SmsTypeOK' /\ SpinnerHasLoad' /\ TimesFollowBoxes'
      BY <1>0, <1>1, <2>1, <2>2 DEF SmsTypeOK
    <2>4. \A d \in smsCalls' : d.op # "send"
      BY <2>1, <2>2 DEF SmsInv, Conversing
    <2> QED
      BY <2>1, <2>2, <2>3, <2>4 DEF SmsInv, ModalHasCall, Conversing
  <1>5. CASE OrphanServed(c, yes)
    <2>1. /\ smsCalls' = (smsCalls \ {c}) \cup {} /\ c.op = "orphan"
          /\ UNCHANGED <<smsView, smsChosen, smsUtc, smsArea, smsSpinner, smsModal, smsSend, simArrived>>
          /\ simCard' = IF yes THEN [simCard EXCEPT ![c.modem][c.slot] = FreeSlot] ELSE simCard
      BY <1>5 DEF OrphanServed, viewVars, cardVars
    <2>2. simCard' \in [SmsModems -> [SimSlots -> Nat]]
      BY <1>0, <2>1 DEF SmsTypeOK, FreeSlot
    <2>3. SmsTypeOK' /\ SpinnerHasLoad' /\ TimesFollowBoxes'
      BY <1>0, <1>1, <2>1, <2>2 DEF SmsTypeOK
    <2> QED
      BY <2>1, <2>3 DEF SmsInv, ModalHasCall, Conversing
  <1>6. CASE \E named \in SUBSET Selects : StorageLoaded(c, named)
    <2>1. /\ smsCalls' = (smsCalls \ {c}) \cup {} /\ c.op = "storage"
          /\ UNCHANGED <<smsView, smsChosen, smsUtc, smsArea, smsSpinner, smsModal, smsSend, simCard, simArrived>>
      BY <1>6 DEF StorageLoaded, viewVars, cardVars
    <2>2. SmsTypeOK' /\ SpinnerHasLoad' /\ TimesFollowBoxes'
      BY <1>0, <1>1, <2>1 DEF SmsTypeOK
    <2> QED
      BY <2>1, <2>2 DEF SmsInv, ModalHasCall, Conversing
  <1> QED
    BY <1>2, <1>3, <1>4, <1>5, <1>6

LEMMA ArriveInv == ASSUME SmsInv, NEW m \in SmsModems, NEW s \in SimSlots, Arrive(m, s) PROVE SmsInv'
  <1>1. /\ simArrived' \in Nat /\ simCard' \in [SmsModems -> [SimSlots -> Nat]]
        /\ UNCHANGED <<smsView, smsChosen, smsUtc, smsArea, smsSpinner, smsCalls, smsModal, smsSend>>
    BY DEF Arrive, SmsInv, SmsTypeOK, viewVars
  <1> QED
    BY <1>1 DEF SmsInv, SmsTypeOK, SpinnerHasLoad, ModalHasCall, Conversing, TimesFollowBoxes

LEMMA DeleteSlotsInv ==
  ASSUME SmsInv, NEW rows \in SUBSET smsArea.rows.listed, NEW every \in BOOLEAN, DeleteSlots(rows, every)
  PROVE  SmsInv'
  <1>1. /\ smsView = "sim" /\ rows # {} /\ smsModal' = "deleting"
        /\ smsCalls' = smsCalls \cup {SlotCall(smsArea.rows.of, r[1], r[2], every) : r \in rows}
        /\ UNCHANGED <<smsView, smsChosen, smsUtc, smsArea, smsSpinner, smsSend, simCard, simArrived>>
    BY DEF DeleteSlots, viewVars, cardVars
  <1>2. smsArea.rows.of \in SmsModems /\ \A r \in rows : r[1] \in SimSlots /\ r[2] \in Nat
    BY <1>1 DEF SmsInv, SmsTypeOK, SmsRows
  <1>3. \A r \in rows : /\ SlotCall(smsArea.rows.of, r[1], r[2], every) \in SmsCall
                        /\ SlotCall(smsArea.rows.of, r[1], r[2], every).op = "deleteSlot"
    <2>1. ASSUME NEW m \in SmsModems, NEW s \in SimSlots, NEW msg \in Nat, NEW k, k = SlotCall(m, s, msg, every)
          PROVE  k \in SmsCall /\ k.op = "deleteSlot"
      BY <2>1 DEF SlotCall, CallOf, LoadCall, SmsCall
    <2> QED
      BY <1>2, <2>1
  <1>4. /\ smsCalls \subseteq smsCalls' /\ smsCalls' \subseteq SmsCall
        /\ \A c \in smsCalls' : c \in smsCalls \/ c.op = "deleteSlot"
        /\ \E c \in smsCalls' : c.op = "deleteSlot"
    BY <1>1, <1>3 DEF SmsInv, SmsTypeOK
  <1> QED
    BY <1>1, <1>4 DEF SmsInv, SmsTypeOK, SpinnerHasLoad, ModalHasCall, Conversing, TimesFollowBoxes

LEMMA SlotServedInv == ASSUME SmsInv, NEW c \in smsCalls, NEW yes \in BOOLEAN, SlotServed(c, yes) PROVE SmsInv'
  <1>1. PICK d : /\ d = [c EXCEPT !.op = "slotDone", !.ok = yes] /\ c.op = "deleteSlot"
                 /\ smsCalls' = (smsCalls \ {c}) \cup {d}
                 /\ simCard' = IF yes THEN [simCard EXCEPT ![c.modem][c.slot] = FreeSlot] ELSE simCard
                 /\ UNCHANGED <<smsView, smsChosen, smsUtc, smsArea, smsSpinner, smsModal, smsSend, simArrived>>
    BY DEF SlotServed, viewVars
  <1>2. c \in SmsCall /\ d \in SmsCall /\ d.op = "slotDone"
    BY <1>1 DEF SmsInv, SmsTypeOK, SmsCall
  <1>3. simCard' \in [SmsModems -> [SimSlots -> Nat]]
    <2>1. simCard \in [SmsModems -> [SimSlots -> Nat]]
      BY DEF SmsInv, SmsTypeOK
    <2>2. CASE yes
      <3>1. PICK r : r = [simCard[c.modem] EXCEPT ![c.slot] = FreeSlot]
        OBVIOUS
      <3>2. simCard' = [simCard EXCEPT ![c.modem] = r]
        BY <1>1, <2>2, <3>1
      <3>3. c.modem \in SmsModems => r \in [SimSlots -> Nat]
        BY <2>1, <3>1 DEF FreeSlot
      <3> QED
        BY <2>1, <3>2, <3>3
    <2>3. CASE ~yes
      BY <1>1, <2>1, <2>3
    <2> QED
      BY <2>2, <2>3
  <1>4. SmsTypeOK'
    BY <1>1, <1>2, <1>3 DEF SmsInv, SmsTypeOK
  <1>5. (SpinnerHasLoad /\ ModalHasCall)'
    BY <1>1, <1>2 DEF SmsInv, SpinnerHasLoad, ModalHasCall
  <1>6. (Conversing /\ TimesFollowBoxes)'
    BY <1>1, <1>2 DEF SmsInv, Conversing, TimesFollowBoxes
  <1> QED
    BY <1>4, <1>5, <1>6 DEF SmsInv

LEMMA DeletionLostInv == ASSUME SmsInv, NEW c \in smsCalls, DeletionLost(c) PROVE SmsInv'
  <1> DEFINE left == {d \in Deletions \ {c} : d.op = "deleteSlot"}
  <1>1. /\ c.op = "deleteSlot" /\ smsModal' = "none"
        /\ smsCalls' = (smsCalls \ Deletions) \cup {[d EXCEPT !.op = "orphan"] : d \in left}
        /\ UNCHANGED <<smsView, smsChosen, smsUtc, smsArea, smsSpinner, smsSend, simCard, simArrived>>
    BY DEF DeletionLost, viewVars, cardVars
  <1>2. ASSUME NEW d \in left, NEW e, e = [d EXCEPT !.op = "orphan"]
        PROVE  e \in SmsCall /\ e.op = "orphan"
    BY <1>2 DEF SmsInv, SmsTypeOK, SmsCall, Deletions
  <1>3. /\ smsCalls' \subseteq SmsCall
        /\ \A e \in smsCalls' : e \in smsCalls \/ e.op = "orphan"
        /\ \A e \in smsCalls : e.op \in {"load", "send"} => e \in smsCalls'
    BY <1>1, <1>2 DEF SmsInv, SmsTypeOK, Deletions
  <1> QED
    BY <1>1, <1>3 DEF SmsInv, SmsTypeOK, SpinnerHasLoad, ModalHasCall, Conversing, TimesFollowBoxes

LEMMA SmsNextInv == SmsInv /\ [SmsNext]_smsVars => SmsInv'
  <1> SUFFICES ASSUME SmsInv, [SmsNext]_smsVars PROVE SmsInv'
    OBVIOUS
  <1>0. CASE UNCHANGED smsVars
    BY <1>0 DEF smsVars, SmsInv, SmsTypeOK, SpinnerHasLoad, ModalHasCall, Conversing, TimesFollowBoxes
  <1>1. CASE \E m \in SmsModems : SmsSelect(m) \/ \E s \in SimSlots : Arrive(m, s)
    BY <1>1, SmsSelectInv, ArriveInv
  <1>2. CASE \E b \in Boxes : ToggleUtc(b)
    BY <1>2, ToggleUtcInv
  <1>3. CASE SmsPoll \/ ApplyStorage \/ NewConversation \/ SendReply \/ DeleteMessage
    BY <1>3, SendingInv
  <1>4. CASE SlotsDeleted
    BY <1>4, SlotsDeletedInv
  <1>5. CASE \E c \in smsCalls, yes \in BOOLEAN : Loaded(c, yes) \/ Polled(c, yes)
    BY <1>5, ShowingInv
  <1>6. CASE \E c \in smsCalls, yes \in BOOLEAN :
               StorageSet(c, yes) \/ NewSent(c, yes) \/ ReplySent(c, yes) \/ OrphanServed(c, yes)
    BY <1>6, AnsweredInv
  <1>7. CASE \E c \in smsCalls, yes \in BOOLEAN : MessageDeleted(c, yes) \/ SlotServed(c, yes)
    BY <1>7, MessageDeletedInv, SlotServedInv
  <1>8. CASE \E c \in smsCalls : OpenConversation(c) \/ DeletionLost(c)
    BY <1>8, OpenConversationInv, DeletionLostInv
  <1>9. CASE \E c \in smsCalls : \E named \in SUBSET Selects : StorageLoaded(c, named)
    <2>1. TRUE \in BOOLEAN
      OBVIOUS
    <2> QED
      BY <1>9, <2>1, AnsweredInv
  <1>10. CASE \E r \in smsArea.rows.listed : DeleteSlots({r}, FALSE)
    <2>1. PICK r \in smsArea.rows.listed : DeleteSlots({r}, FALSE)
      BY <1>10
    <2>2. {r} \in SUBSET smsArea.rows.listed /\ FALSE \in BOOLEAN
      OBVIOUS
    <2> QED
      BY <2>1, <2>2, DeleteSlotsInv
  <1>11. CASE DeleteSlots(smsArea.rows.listed, TRUE)
    <2>1. smsArea.rows.listed \in SUBSET smsArea.rows.listed /\ TRUE \in BOOLEAN
      OBVIOUS
    <2> QED
      BY <1>11, <2>1, DeleteSlotsInv
  <1> QED
    BY <1>0, <1>1, <1>2, <1>3, <1>4, <1>5, <1>6, <1>7, <1>8, <1>9, <1>10, <1>11 DEF SmsNext

LEMMA SmsTells == SmsInv => SmsPageGoesOn
  <1> SUFFICES ASSUME SmsInv, smsView = "conversation" PROVE SendOnce
    BY DEF SmsInv, SmsPageGoesOn, SendOnce
  <1> DEFINE sends == {c \in smsCalls : c.op = "send"}
  <1>1. (smsSend <=> sends = {}) /\ \A c, d \in sends : c = d
    BY DEF SmsInv, Conversing
  <1> HIDE DEF sends
  <1>2. CASE sends = {}
    BY <1>1, <1>2, FS_EmptySet DEF SendOnce, sends
  <1>3. CASE \E c : sends = {c}
    <2>1. Cardinality(sends) = 1
      BY <1>3, FS_Singleton
    <2> QED
      BY <1>1, <2>1 DEF SendOnce, sends
  <1> QED
    BY <1>1, <1>2, <1>3

-----------------------------------------------------------------------------
(* The dial page.                                                          *)

StatusSeen == [known : BOOLEAN, enabled : BOOLEAN, running : BOOLEAN]
DialCall ==
  [kind : {"dialstatus", "link", "rcstatus", "dial", "hang", "redial"} \cup Actions,
   modem : Dialers \cup {NoModem}, n : Nat, form : Nat, at : {"sent", "served"}, ok : BOOLEAN, saw : StatusSeen]

DialTypeOK ==
  /\ dialOn \in [Dialers -> BOOLEAN]
  /\ dialing \in [Dialers -> [running : BOOLEAN, connected : BOOLEAN]]
  /\ controls \in [Dialers -> {"loading", "off", "dial", "hang"}]
  /\ network \in [enabled : BOOLEAN, running : BOOLEAN]
  /\ rendering \in Nat
  /\ dialCalls \subseteq DialCall
  /\ \A c \in dialCalls : c.kind \in {"dialstatus", "link", "dial", "hang", "redial"} => c.modem \in Dialers

\* The page draws the line from every answer and the buttons only from a good one: they
\* agree since an answer that is not good tells no status.
FailureTellsNothing ==
  \A c \in dialCalls : c.kind = "rcstatus" /\ c.at = "served" /\ ~c.ok => ~c.saw.known

DialInv == DialTypeOK /\ FailureTellsNothing /\ NoButtonsWhenOff /\ LineAndButtonsAgree

LEMMA DialInitInv == DialInit => DialInv
  <1> SUFFICES ASSUME DialInit PROVE DialInv
    OBVIOUS
  <1>1. /\ dialOn \in [Dialers -> BOOLEAN] /\ controls = [m \in Dialers |-> Cell(dialOn[m])]
        /\ network \in [enabled : BOOLEAN, running : BOOLEAN]
        /\ dialing \in [Dialers -> [running : BOOLEAN, connected : BOOLEAN]]
        /\ rcLine = rcButtons /\ rendering = 0 /\ dialCalls = {}
    BY DEF DialInit
  <1>2. controls \in [Dialers -> {"loading", "off", "dial", "hang"}] /\ NoButtonsWhenOff
    BY <1>1 DEF Cell, NoButtonsWhenOff
  <1> QED
    BY <1>1, <1>2 DEF DialInv, DialTypeOK, FailureTellsNothing, LineAndButtonsAgree

LEMMA SentTypes ==
  ASSUME DialTypeOK, NEW k, NEW m \in Dialers \cup {NoModem}, NEW n \in Nat,
         k \in {"dialstatus", "link", "rcstatus", "dial", "hang", "redial"} \cup Actions
  PROVE  /\ Sent(k, m, n) \in DialCall
         /\ Sent(k, m, n).kind = k /\ Sent(k, m, n).modem = m /\ Sent(k, m, n).at = "sent"
  BY DEF DialTypeOK, DialCall, Sent, StatusSeen, NoStatus

\* Calls that are made and calls that are done with: the rest of the page stays.
LEMMA CallsTurnOver ==
  ASSUME DialInv, NEW c \in DialCall, dialCalls' \subseteq dialCalls \cup {c}, c.at = "sent",
         c.kind \in {"dialstatus", "link", "dial", "hang", "redial"} => c.modem \in Dialers,
         dialPart' = dialPart, rcPart' = rcPart, rendering' = rendering
  PROVE  DialInv'
  <1>1. /\ dialOn' = dialOn /\ dialing' = dialing /\ network' = network /\ rendering' = rendering
        /\ controls' = controls /\ rcLine' = rcLine /\ rcButtons' = rcButtons
    BY DEF dialPart, rcPart
  <1> QED
    BY <1>1 DEF DialInv, DialTypeOK, FailureTellsNothing, NoButtonsWhenOff, LineAndButtonsAgree

\* As Sent, about any set of calls gone.
LEMMA SentInv ==
  ASSUME DialInv, NEW k, NEW m \in Dialers \cup {NoModem}, NEW n \in Nat,
         k \in {"dialstatus", "link", "rcstatus", "dial", "hang", "redial"} \cup Actions,
         k \in {"dialstatus", "link", "dial", "hang", "redial"} => m \in Dialers,
         dialCalls' \subseteq dialCalls \cup {Sent(k, m, n)},
         dialPart' = dialPart, rcPart' = rcPart, rendering' = rendering
  PROVE  DialInv'
  <1>0. DialTypeOK
    BY DEF DialInv
  <1>1. PICK c : c = Sent(k, m, n) /\ c \in DialCall /\ c.kind = k /\ c.modem = m /\ c.at = "sent"
    <2>1. /\ Sent(k, m, n) \in DialCall
          /\ Sent(k, m, n).kind = k /\ Sent(k, m, n).modem = m /\ Sent(k, m, n).at = "sent"
      BY <1>0, SentTypes
    <2> QED
      BY <2>1
  <1>2. dialCalls' \subseteq dialCalls \cup {c}
    BY <1>1
  <1> QED
    BY <1>1, <1>2, CallsTurnOver

LEMMA DialPollsInv ==
  ASSUME DialInv,
         \/ \E m \in Dialers : PollDial(m) \/ PollLink(m) \/ \E k \in {"dial", "hang", "redial"} : PressDial(m, k)
         \/ PollService \/ \E a \in Actions : PressService(a)
  PROVE  DialInv'
  <1>0. \A n : Free(n) => n \in Nat
    BY DEF Free
  <1>1. ASSUME NEW m \in Dialers, PollDial(m) \/ PollLink(m) \/ \E k \in {"dial", "hang", "redial"} : PressDial(m, k)
        PROVE  DialInv'
    <2>1. PICK k \in {"dialstatus", "link", "dial", "hang", "redial"}, n \in Nat :
            /\ dialCalls' = dialCalls \cup {Sent(k, m, n)}
            /\ dialPart' = dialPart /\ rcPart' = rcPart /\ rendering' = rendering
      BY <1>0, <1>1 DEF PollDial, PollLink, PressDial
    <2> QED
      BY <2>1, SentInv
  <1>2. ASSUME PollService \/ \E a \in Actions : PressService(a)
        PROVE  DialInv'
    <2>1. PICK k \in {"rcstatus"} \cup Actions, n \in Nat :
            /\ dialCalls' = dialCalls \cup {Sent(k, NoModem, n)}
            /\ dialPart' = dialPart /\ rcPart' = rcPart /\ rendering' = rendering
      BY <1>0, <1>2 DEF PollService, PressService
    <2>2. k \notin {"dialstatus", "link", "dial", "hang", "redial"}
      BY DEF Actions
    <2> QED
      BY <2>1, <2>2, SentInv
  <1> QED
    BY <1>1, <1>2

LEMMA ServedInv == ASSUME DialInv, NEW c \in dialCalls, NEW yes \in BOOLEAN, Served(c, yes) PROVE DialInv'
  <1> DEFINE seen == IF c.kind \in {"dialstatus", "link"} /\ yes
                     THEN [known |-> TRUE, enabled |-> dialing[c.modem].connected, running |-> dialing[c.modem].running]
                     ELSE IF yes /\ c.kind = "rcstatus" THEN Status(TRUE, network) ELSE NoStatus
  <1>1. /\ c \in DialCall /\ network \in [enabled : BOOLEAN, running : BOOLEAN]
        /\ c.kind \in {"dialstatus", "link", "dial", "hang", "redial"} => c.modem \in Dialers
        /\ dialing \in [Dialers -> [running : BOOLEAN, connected : BOOLEAN]]
    BY DEF DialInv, DialTypeOK
  <1>2. seen \in StatusSeen /\ (c.kind = "rcstatus" /\ ~yes => ~seen.known)
    <2>1. NoStatus \in StatusSeen /\ ~NoStatus.known /\ Status(TRUE, network) \in StatusSeen
      BY <1>1 DEF NoStatus, StatusSeen, Status
    <2>2. c.kind \in {"dialstatus", "link"} =>
            [known |-> TRUE, enabled |-> dialing[c.modem].connected, running |-> dialing[c.modem].running] \in StatusSeen
      BY <1>1 DEF StatusSeen
    <2> QED
      BY <2>1, <2>2
  <1>3. PICK d : d = [c EXCEPT !.at = "served", !.ok = yes, !.saw = seen]
                 /\ dialCalls' = (dialCalls \ {c}) \cup {d}
    BY DEF Served
  <1> HIDE DEF seen
  <1>4. d \in DialCall /\ d.kind = c.kind /\ d.modem = c.modem /\ d.ok = yes /\ d.saw = seen
    BY <1>1, <1>2, <1>3 DEF DialCall
  <1>5. network' \in [enabled : BOOLEAN, running : BOOLEAN]
    BY <1>1 DEF Served, After
  <1>6. dialing' \in [Dialers -> [running : BOOLEAN, connected : BOOLEAN]]
    <2>1. [running |-> c.kind # "hang", connected |-> FALSE] \in [running : BOOLEAN, connected : BOOLEAN]
      OBVIOUS
    <2> QED
      BY <1>1, <2>1 DEF Served
  <1>7. UNCHANGED <<dialOn, controls, rcLine, rcButtons, rendering>>
    BY DEF Served
  <1>8. DialTypeOK'
    BY <1>1, <1>3, <1>4, <1>5, <1>6, <1>7 DEF DialInv, DialTypeOK
  <1>9. FailureTellsNothing'
    BY <1>2, <1>3, <1>4 DEF DialInv, FailureTellsNothing
  <1> QED
    BY <1>7, <1>8, <1>9 DEF DialInv, NoButtonsWhenOff, LineAndButtonsAgree

LEMMA DialNextInv == DialInv /\ [DialNext]_dialVars => DialInv'
  <1> SUFFICES ASSUME DialInv, [DialNext]_dialVars PROVE DialInv'
    OBVIOUS
  <1>0. CASE UNCHANGED dialVars
    BY <1>0 DEF dialVars, DialInv, DialTypeOK, FailureTellsNothing, NoButtonsWhenOff, LineAndButtonsAgree
  <1>1. CASE \/ \E m \in Dialers : PollDial(m) \/ PollLink(m) \/ \E k \in {"dial", "hang", "redial"} : PressDial(m, k)
             \/ PollService \/ \E a \in Actions : PressService(a)
    BY <1>1, DialPollsInv
  <1>2. ASSUME NEW m \in Dialers, Connect(m)
        PROVE  DialInv'
    <2>1. dialing' \in [Dialers -> [running : BOOLEAN, connected : BOOLEAN]]
          /\ UNCHANGED <<dialOn, controls, network, rcLine, rcButtons, rendering, dialCalls>>
      BY <1>2 DEF Connect, DialInv, DialTypeOK, rcPart
    <2> QED
      BY <2>1 DEF DialInv, DialTypeOK, FailureTellsNothing, NoButtonsWhenOff, LineAndButtonsAgree
  <1>3. ASSUME NEW c \in dialCalls, DialShown(c)
        PROVE  DialInv'
    <2>1. /\ UNCHANGED <<dialOn, dialing, network, rcLine, rcButtons, rendering>>
          /\ dialCalls' = (dialCalls \ {c}) \cup {}
          /\ controls' = IF c.ok /\ controls[c.modem] # "off"
                         THEN [controls EXCEPT ![c.modem] = IF c.saw.running THEN "hang" ELSE "dial"]
                         ELSE controls
      BY <1>3 DEF DialShown, rcPart
    <2>2. controls' \in [Dialers -> {"loading", "off", "dial", "hang"}] /\ NoButtonsWhenOff'
      BY <2>1 DEF DialInv, DialTypeOK, NoButtonsWhenOff
    <2> QED
      BY <2>1, <2>2 DEF DialInv, DialTypeOK, FailureTellsNothing, LineAndButtonsAgree
  <1>4. ASSUME NEW c \in dialCalls, DialAnswered(c)
        PROVE  DialInv'
    <2>1. c.n \in Nat /\ c.modem \in Dialers
      BY <1>4 DEF DialAnswered, DialInv, DialTypeOK, DialCall
    <2>2. /\ dialPart' = dialPart /\ rcPart' = rcPart /\ rendering' = rendering
          /\ dialCalls' \subseteq dialCalls \cup {Sent("dialstatus", c.modem, c.n)}
      BY <1>4 DEF DialAnswered
    <2> QED
      BY <2>1, <2>2, SentInv
  <1>5. ASSUME NEW c \in dialCalls, LinkShown(c)
        PROVE  DialInv'
    <2>1. /\ UNCHANGED <<dialOn, dialing, controls, network, rcLine, rcButtons, rendering>>
          /\ dialCalls' = (dialCalls \ {c}) \cup {}
      BY <1>5 DEF LinkShown, rcPart
    <2>2. controls' \in [Dialers -> {"loading", "off", "dial", "hang"}] /\ NoButtonsWhenOff' /\ LineAndButtonsAgree'
      BY <2>1 DEF DialInv, DialTypeOK, NoButtonsWhenOff, LineAndButtonsAgree
    <2> QED
      BY <2>1, <2>2 DEF DialInv, DialTypeOK, FailureTellsNothing
  <1>6. ASSUME NEW c \in dialCalls, ServiceActed(c)
        PROVE  DialInv'
    <2>1. c.n \in Nat /\ NoModem \in Dialers \cup {NoModem}
      BY <1>6 DEF DialInv, DialTypeOK, DialCall
    <2>2. /\ dialPart' = dialPart /\ rcPart' = rcPart /\ rendering' = rendering
          /\ dialCalls' \subseteq dialCalls \cup {Sent("rcstatus", NoModem, c.n)}
      BY <1>6 DEF ServiceActed
    <2> QED
      BY <2>1, <2>2, SentInv
  <1>7. ASSUME NEW c \in dialCalls, StatusShown(c)
        PROVE  DialInv'
    <2>1. /\ UNCHANGED <<dialOn, dialing, controls, network, rendering>>
          /\ dialCalls' = (dialCalls \ {c}) \cup {}
          /\ rcLine' = IF c.form = rendering THEN c.saw ELSE rcLine
          /\ rcButtons' = IF c.ok /\ c.form = rendering THEN c.saw ELSE rcButtons
          /\ ~c.ok => ~c.saw.known
      BY <1>7 DEF StatusShown, dialPart, DialInv, FailureTellsNothing
    <2>2. controls' \in [Dialers -> {"loading", "off", "dial", "hang"}] /\ NoButtonsWhenOff' /\ LineAndButtonsAgree'
      BY <2>1 DEF DialInv, DialTypeOK, NoButtonsWhenOff, LineAndButtonsAgree
    <2> QED
      BY <2>1, <2>2 DEF DialInv, DialTypeOK, FailureTellsNothing
  <1>8. ASSUME NEW c \in dialCalls, NEW yes \in BOOLEAN, Served(c, yes)
        PROVE  DialInv'
    BY <1>8, ServedInv
  <1>9. ASSUME NEW m \in Dialers, NEW on \in BOOLEAN, SaveForm(m, on)
        PROVE  DialInv'
    <2>1. /\ dialOn' \in [Dialers -> BOOLEAN] /\ controls' = [d \in Dialers |-> Cell(dialOn'[d])]
          /\ rcLine' = rcButtons' /\ rendering' \in Nat
          /\ UNCHANGED <<dialing, network, dialCalls>>
      BY <1>9 DEF SaveForm, DialInv, DialTypeOK
    <2>2. controls' \in [Dialers -> {"loading", "off", "dial", "hang"}] /\ NoButtonsWhenOff'
      BY <2>1 DEF Cell, NoButtonsWhenOff
    <2> QED
      BY <2>1, <2>2 DEF DialInv, DialTypeOK, FailureTellsNothing, LineAndButtonsAgree
  <1> QED
    BY <1>0, <1>1, <1>2, <1>3, <1>4, <1>5, <1>6, <1>7, <1>8, <1>9 DEF DialNext, CellSteps, ServiceSteps, SharedSteps

\* A log goes into the element its load was given: elements are numbered, and the one of
\* the open dialog was made for the modem in its title.
LogInv ==
  /\ logBoxes \in Nat
  /\ logCalls \subseteq [kind : {"load", "clear", "again"}, modem : Dialers \cup {NoModem}, box : Nat]
  /\ logModal \in [kind : {"none", "log", "clear"}, modem : Dialers \cup {NoModem}, box : Nat, log : Dialers \cup {NoModem}]
  /\ logModal.box <= logBoxes /\ \A c \in logCalls : c.box <= logBoxes
  /\ logModal.kind = "log" =>
       \A c \in logCalls : c.kind = "load" /\ c.box = logModal.box => c.modem = logModal.modem
  /\ LogIsOfModem

LEMMA LogNextInv == LogInv /\ [LogNext]_logVars => LogInv'
  <1> SUFFICES ASSUME LogInv, [LogNext]_logVars PROVE LogInv'
    OBVIOUS
  <1>0. CASE UNCHANGED logVars
    BY <1>0 DEF logVars, LogInv, LogIsOfModem
  <1>1. ASSUME NEW m \in Dialers \cup {NoModem}, NEW gone, logBoxes' = logBoxes + 1,
               logModal' = [kind |-> "log", modem |-> m, box |-> logBoxes', log |-> NoModem],
               logCalls' = (logCalls \ gone) \cup {[kind |-> "load", modem |-> m, box |-> logBoxes']}
        PROVE  LogInv'
    <2>1. logBoxes \in Nat /\ logBoxes' \in Nat /\ \A n \in Nat : n <= logBoxes => n <= logBoxes' /\ n # logBoxes'
      BY <1>1 DEF LogInv
    <2> DEFINE new == [kind |-> "load", modem |-> m, box |-> logBoxes']
    <2>2. new \in [kind : {"load", "clear", "again"}, modem : Dialers \cup {NoModem}, box : Nat]
          /\ new.modem = m /\ new.box = logBoxes'
      BY <2>1
    <2>3. \A c \in logCalls' : c \in logCalls \/ c = new
      BY <1>1
    <2> HIDE DEF new
    <2>4. \A c \in logCalls : c.box \in Nat /\ c.box # logBoxes' /\ c.box <= logBoxes'
      BY <2>1 DEF LogInv
    <2>5. /\ logModal' \in [kind : {"none", "log", "clear"}, modem : Dialers \cup {NoModem}, box : Nat,
                            log : Dialers \cup {NoModem}]
          /\ logModal'.box = logBoxes' /\ logModal'.modem = m /\ logModal'.log = NoModem
      BY <1>1, <2>1
    <2>6. logBoxes' <= logBoxes'
      BY <2>1
    <2> QED
      BY <2>1, <2>2, <2>3, <2>4, <2>5, <2>6 DEF LogInv, LogIsOfModem
  <1>2. ASSUME NEW m \in Dialers, ViewLog(m)
        PROVE  LogInv'
    <2>1. logCalls' = (logCalls \ {}) \cup {[kind |-> "load", modem |-> m, box |-> logBoxes']}
      BY <1>2 DEF ViewLog, ShowLog
    <2> QED
      BY <1>1, <1>2, <2>1 DEF ViewLog, ShowLog
  <1>3. ASSUME NEW c \in logCalls, ShowAgain(c)
        PROVE  LogInv'
    BY <1>1, <1>3 DEF ShowAgain, LogInv
  <1>4. CASE AskClear \/ CloseLog
    <2>1. PICK n : n = NoLog /\ n.log = NoModem /\ n.box = 0 /\ n.kind = "none"
                   /\ n = [kind |-> "none", modem |-> NoModem, box |-> 0, log |-> NoModem]
      BY DEF NoLog
    <2>2. /\ logModal' = n \/ logModal' = [n EXCEPT !.kind = "clear", !.modem = logModal.modem]
          /\ logCalls' = logCalls /\ logBoxes' = logBoxes
      BY <1>4, <2>1 DEF AskClear, CloseLog
    <2>3. /\ logModal' \in [kind : {"none", "log", "clear"}, modem : Dialers \cup {NoModem}, box : Nat,
                             log : Dialers \cup {NoModem}]
          /\ logModal'.box = 0 /\ logModal'.kind # "log" /\ logModal'.log = NoModem
      <3>1. n \in [kind : {"none", "log", "clear"}, modem : Dialers \cup {NoModem}, box : Nat,
                   log : Dialers \cup {NoModem}]
        BY <2>1
      <3>2. logModal.modem \in Dialers \cup {NoModem}
        BY DEF LogInv
      <3>3. CASE logModal' = n
        BY <2>1, <3>1, <3>3
      <3>4. CASE logModal' = [n EXCEPT !.kind = "clear", !.modem = logModal.modem]
        BY <2>1, <3>1, <3>2, <3>4
      <3> QED
        BY <2>2, <3>3, <3>4
    <2> QED
      BY <2>2, <2>3 DEF LogInv, LogIsOfModem
  <1>5. CASE ConfirmClear
    BY <1>5 DEF ConfirmClear, LogInv, LogIsOfModem
  <1>6. ASSUME NEW c \in logCalls, LogLoaded(c)
        PROVE  LogInv'
    BY <1>6 DEF LogLoaded, LogInv, LogIsOfModem
  <1>7. ASSUME NEW c \in logCalls, NEW yes \in BOOLEAN, Cleared(c, yes)
        PROVE  LogInv'
    <2>1. PICK d : /\ d = [c EXCEPT !.kind = "again"] /\ logModal' = NoLog /\ logBoxes' = logBoxes
                   /\ logCalls' \subseteq logCalls \cup {d}
      BY <1>7 DEF Cleared
    <2>2. d \in [kind : {"load", "clear", "again"}, modem : Dialers \cup {NoModem}, box : Nat] /\ d.box = c.box
      BY <2>1 DEF LogInv
    <2> QED
      BY <2>1, <2>2 DEF LogInv, LogIsOfModem, NoLog
  <1> QED
    BY <1>0, <1>2, <1>3, <1>4, <1>5, <1>6, <1>7 DEF LogNext

LEMMA LogInitInv == LogInit => LogInv
  BY DEF LogInit, LogInv, NoLog, LogIsOfModem

LEMMA DialTells == DialInv /\ LogInv => ControlsAgree
  BY DEF DialInv, LogInv, ControlsAgree

-----------------------------------------------------------------------------
(* The "Advanced Configuration" view.                                      *)

Valued == {"DialMode", "RatPrefer"}

AdvTabs ==
  [open : Features \cup {"none"}, built : SUBSET Features, off : SUBSET Buttons,
   field : [Fields -> {"none", "loading", "value", "failed"}],
   digits : BOOLEAN, nr : BOOLEAN, nrRows : BOOLEAN, cellIds : BOOLEAN, cellBand : BOOLEAN,
   cells : SUBSET {"LTE", "NR"}, offers : [BandClasses -> SUBSET Bands], draft : [BandClasses -> SUBSET Bands],
   boxes : [BandClasses -> SUBSET Bands], reboots : SUBSET {"soft", "hard"}]
AdvCall ==
  [op : {"load", "set", "scan", "status", "timer"}, on : Features \cup Buttons, modem : Modems, of : Nat \ {0}]

AdvTypes ==
  /\ chosen \in Modems /\ interfaces \in 1..MaxInterfaces
  /\ asked \subseteq [modem : Modems, id : Nat \ {0}] /\ \A a \in asked : a.id <= interfaces
  /\ pane \in [kind : {"loading", "none", "error"}, modem : Modems, id : {0}]
              \cup [kind : {"tabs"}, modem : Modems, id : 1..interfaces, features : SUBSET Features]
  /\ tabs \in AdvTabs
  /\ calls \subseteq AdvCall /\ \A c \in calls : c.of <= interfaces

\* An interface is numbered when it is asked for: no call is of one that was not built, and
\* none is built twice.
IdsApart ==
  /\ \A a, b \in asked : a.id = b.id => a = b
  /\ \A a \in asked : a.id # pane.id /\ \A c \in calls : c.of # a.id

\* The widgets fit one another and the container they are in.
Fits(t) ==
  /\ t \in AdvTabs
  /\ \A k \in BandClasses : t.boxes[k] = t.draft[k] \cap t.offers[k]
  /\ t.nrRows = t.nr
  /\ IF pane.kind = "tabs" THEN t.open \in pane.features ELSE t = NoTabs

\* One call at most of each of the two values is under way from the interface shown, and its
\* last answer was not a failure.
OneCallEach ==
  \A f \in Valued :
    /\ \A c, d \in calls : c.on = f /\ d.on = f /\ Seen(c) /\ Seen(d) => c = d
    /\ \A c \in calls : c.on = f /\ Seen(c) => f \in tabs.built /\ tabs.field[f] # "failed"
    /\ \A c \in calls : c.on = f => c.op \in {"load", "set"}

AdvInv == AdvTypes /\ IdsApart /\ Fits(tabs) /\ OneCallEach /\ ApplyWhenIdle

LEMMA AdvNames ==
  /\ Features = {"DialMode", "RatPrefer", "IMEI", "NeighborCell", "LockBand", "RebootModem"}
  /\ \A k \in BandClasses : k \notin Valued /\ k # "IMEI" /\ k \in Buttons
  /\ Valued \subseteq Fields /\ Fields \subseteq Features /\ Fields \subseteq Buttons
  /\ {"scan", "unlock", "lock", "soft", "hard"} \subseteq Buttons
  <1>1. DOMAIN FeatureOrder = 1..6
    BY DEF FeatureOrder
  <1>2. Features = {FeatureOrder[1], FeatureOrder[2], FeatureOrder[3], FeatureOrder[4], FeatureOrder[5], FeatureOrder[6]}
    BY <1>1 DEF Features
  <1> QED
    BY <1>2, AdvAssumption DEF FeatureOrder, Valued, Fields, Buttons

LEMMA FirstOfIsIn == ASSUME NEW F \in SUBSET Features, F # {} PROVE FirstOf(F) \in F
  <1>1. DOMAIN FeatureOrder = 1..6
    BY DEF FeatureOrder
  <1> DEFINE P(i) == /\ FeatureOrder[i] \in F
                     /\ \A j \in 1..(i - 1) : FeatureOrder[j] \notin F
  <1>2. \E i \in DOMAIN FeatureOrder : P(i)
    <2>1. \/ FeatureOrder[1] \in F \/ FeatureOrder[2] \in F \/ FeatureOrder[3] \in F
          \/ FeatureOrder[4] \in F \/ FeatureOrder[5] \in F \/ FeatureOrder[6] \in F
      BY <1>1 DEF Features
    <2>2. \A i \in 1..6 : (\A j \in 1..(i - 1) : FeatureOrder[j] \notin F) /\ FeatureOrder[i] \in F => P(i)
      OBVIOUS
    <2> HIDE DEF P
    <2>3. CASE FeatureOrder[1] \in F
      BY <1>1, <2>2, <2>3
    <2>4. CASE FeatureOrder[1] \notin F /\ FeatureOrder[2] \in F
      BY <1>1, <2>2, <2>4
    <2>5. CASE FeatureOrder[1] \notin F /\ FeatureOrder[2] \notin F /\ FeatureOrder[3] \in F
      BY <1>1, <2>2, <2>5
    <2>6. CASE FeatureOrder[1] \notin F /\ FeatureOrder[2] \notin F /\ FeatureOrder[3] \notin F /\ FeatureOrder[4] \in F
      BY <1>1, <2>2, <2>6
    <2>7. CASE /\ FeatureOrder[1] \notin F /\ FeatureOrder[2] \notin F /\ FeatureOrder[3] \notin F /\ FeatureOrder[4] \notin F
               /\ FeatureOrder[5] \in F
      BY <1>1, <2>2, <2>7
    <2>8. CASE /\ FeatureOrder[1] \notin F /\ FeatureOrder[2] \notin F /\ FeatureOrder[3] \notin F /\ FeatureOrder[4] \notin F
               /\ FeatureOrder[5] \notin F /\ FeatureOrder[6] \in F
      BY <1>1, <2>2, <2>8
    <2> QED
      BY <2>1, <2>3, <2>4, <2>5, <2>6, <2>7, <2>8
  <1>3. P(CHOOSE i \in DOMAIN FeatureOrder : P(i))
    BY <1>2
  <1> QED
    BY <1>3 DEF FirstOf

LEMMA NoTabsFits == /\ NoTabs \in AdvTabs /\ NoTabs.nrRows = NoTabs.nr /\ NoTabs.built = {}
                    /\ NoTabs.cells = {} /\ NoTabs.reboots = {}
                    /\ \A k \in BandClasses : NoTabs.boxes[k] = {} /\ NoTabs.draft[k] = {} /\ NoTabs.offers[k] = {}
  BY DEF NoTabs, AdvTabs

\* A step beside the two values: the widgets become t and the calls C.
LEMMA BesideInv ==
  ASSUME AdvInv, NEW t, NEW C \in SUBSET AdvCall, Fits(t), tabs' = t, calls' = C,
         chosen' = chosen, asked' = asked, interfaces' = interfaces, pane' = pane,
         t.built = tabs.built,
         \A f \in Valued : (f \in t.off <=> f \in tabs.off) /\ t.field[f] = tabs.field[f],
         \A c \in C : c \in calls \/ (c.on \notin Valued /\ c.of <= interfaces /\ \A a \in asked : c.of # a.id),
         \A c \in calls : c.on \in Valued => c \in C
  PROVE  AdvInv'
  <1>1. AdvTypes'
    BY DEF AdvInv, AdvTypes, Fits
  <1>2. IdsApart'
    BY DEF AdvInv, IdsApart
  <1>3. Fits(tabs)'
    BY DEF Fits
  <1>4. \A c : Seen(c)' <=> Seen(c)
    BY DEF Seen
  <1>5. OneCallEach'
    BY <1>4 DEF AdvInv, OneCallEach
  <1>6. ApplyWhenIdle'
    BY <1>4 DEF AdvInv, ApplyWhenIdle, Valued
  <1> QED
    BY <1>1, <1>2, <1>3, <1>5, <1>6 DEF AdvInv

\* A step that touches widgets only.
LEMMA WidgetsInv ==
  ASSUME AdvInv, NEW t, Fits(t), tabs' = t, UNCHANGED <<chosen, asked, interfaces, pane, calls>>,
         t.built = tabs.built,
         \A f \in Valued : (f \in t.off <=> f \in tabs.off) /\ t.field[f] = tabs.field[f]
  PROVE  AdvInv'
  <1>1. calls \in SUBSET AdvCall /\ calls' = calls
        /\ chosen' = chosen /\ asked' = asked /\ interfaces' = interfaces /\ pane' = pane
    BY DEF AdvInv, AdvTypes
  <1> QED
    BY <1>1, BesideInv

\* The answer to a call that is not about one of the two values.
LEMMA AnsweredBeside ==
  ASSUME AdvInv, NEW c \in calls, c.on \notin Valued, NEW t, pane.kind = "tabs" => Fits(t),
         NEW next, Answered(c, t, next),
         next = {} \/ \E op \in {"load", "status", "timer"}, on \in (Features \cup Buttons) \ Valued :
                        next = {Follow(c, op, on)},
         t.built = tabs.built,
         \A f \in Valued : (f \in t.off <=> f \in tabs.off) /\ t.field[f] = tabs.field[f]
  PROVE  AdvInv'
  <1>1. /\ chosen' = chosen /\ asked' = asked /\ interfaces' = interfaces /\ pane' = pane
        /\ calls' = (calls \ {c}) \cup next /\ tabs' = IF Seen(c) THEN t ELSE tabs
    BY DEF Answered
  <1>2. c \in AdvCall /\ c.of <= interfaces /\ \A a \in asked : c.of # a.id
    BY DEF AdvInv, AdvTypes, IdsApart
  <1>3. \A d \in next : d \in AdvCall /\ d.on \notin Valued /\ d.of = c.of
    <2>1. ASSUME NEW op \in {"load", "status", "timer"}, NEW on \in (Features \cup Buttons) \ Valued,
                 NEW d, d = Follow(c, op, on)
          PROVE  d \in AdvCall /\ d.on \notin Valued /\ d.of = c.of
      BY <1>2, <2>1 DEF Follow, AdvCall
    <2> QED
      BY <2>1
  <1>4. Seen(c) => pane.kind = "tabs"
    BY <1>2 DEF Seen, AdvInv, AdvTypes, AdvCall
  <1>5. Fits(tabs)
    BY DEF AdvInv
  <1>6. calls' \in SUBSET AdvCall
    BY <1>1, <1>3 DEF AdvInv, AdvTypes
  <1>7. \A d \in calls' : d \in calls \/ (d.on \notin Valued /\ d.of <= interfaces /\ \A a \in asked : d.of # a.id)
    BY <1>1, <1>2, <1>3
  <1>8. \A d \in calls : d.on \in Valued => d \in calls'
    BY <1>1
  <1>9. CASE Seen(c)
    BY <1>1, <1>4, <1>6, <1>7, <1>8, <1>9, BesideInv
  <1>10. CASE ~Seen(c)
    BY <1>1, <1>5, <1>6, <1>7, <1>8, <1>10, BesideInv
  <1> QED
    BY <1>9, <1>10

\* A call that the interface shown makes.
LEMMA CallsBeside ==
  ASSUME AdvInv, NEW t, Fits(t), pane.kind = "tabs", NEW c \in AdvCall, c.of = pane.id, c.on \notin Valued,
         tabs' = t, calls' = calls \cup {c}, UNCHANGED <<chosen, asked, interfaces, pane>>,
         t.built = tabs.built,
         \A f \in Valued : (f \in t.off <=> f \in tabs.off) /\ t.field[f] = tabs.field[f]
  PROVE  AdvInv'
  <1>1. chosen' = chosen /\ asked' = asked /\ interfaces' = interfaces /\ pane' = pane
    OBVIOUS
  <1>2. calls' \in SUBSET AdvCall /\ c.of <= interfaces /\ \A a \in asked : c.of # a.id
    BY DEF AdvInv, AdvTypes, IdsApart
  <1> QED
    BY <1>1, <1>2, BesideInv

LEMMA PressInv ==
  ASSUME AdvInv, pane.kind = "tabs", NEW b \in Buttons \ Valued, NEW op \in {"scan", "set"}, Press(b, op)
  PROVE  AdvInv'
  <1>1. PICK t : /\ t = [tabs EXCEPT !.off = @ \cup {b}, !.cells = IF b = "scan" THEN {} ELSE @]
                 /\ tabs' = t
    BY DEF Press
  <1>2. PICK c : c = Call(op, b) /\ calls' = calls \cup {c}
    BY DEF Press
  <1>3. Fits(tabs) /\ tabs \in AdvTabs
    BY DEF AdvInv, Fits
  <1>4. /\ t \in AdvTabs /\ t.built = tabs.built /\ t.field = tabs.field /\ t.off = tabs.off \cup {b}
        /\ t.boxes = tabs.boxes /\ t.draft = tabs.draft /\ t.offers = tabs.offers
        /\ t.nr = tabs.nr /\ t.nrRows = tabs.nrRows /\ t.open = tabs.open
    BY <1>1, <1>3 DEF AdvTabs
  <1>5. Fits(t)
    BY <1>3, <1>4 DEF Fits
  <1>6. pane.id \in Nat \ {0} /\ pane.modem \in Modems
    BY DEF AdvInv, AdvTypes
  <1>7. c \in AdvCall /\ c.of = pane.id /\ c.on \notin Valued
    BY <1>2, <1>6 DEF Call, AdvCall
  <1>8. UNCHANGED <<chosen, asked, interfaces, pane>>
    BY DEF Press
  <1> QED
    BY <1>1, <1>2, <1>4, <1>5, <1>7, <1>8, CallsBeside

\* A tab's handler, and the load it starts.
LEMMA BuiltFits ==
  ASSUME NEW t \in AdvTabs, NEW f \in Features, NEW u, u = Built(t, f)
  PROVE  /\ u \in AdvTabs /\ u.built = t.built \cup {f} /\ u.open = t.open
         /\ u.nr = t.nr /\ u.nrRows = t.nrRows /\ u.boxes = t.boxes /\ u.draft = t.draft /\ u.offers = t.offers
         /\ f \in Valued => u.off = t.off \cup {f} /\ u.field[f] = "loading"
         /\ \A g \in Valued : g # f => (g \in u.off <=> g \in t.off) /\ u.field[g] = t.field[g]
  <1>1. CASE f \in Fields
    <2>1. f \in Buttons
      BY <1>1, AdvNames
    <2>2. PICK v : v = [t.field EXCEPT ![f] = "loading"]
      OBVIOUS
    <2>3. v \in [Fields -> {"none", "loading", "value", "failed"}] /\ v[f] = "loading"
          /\ \A g \in Valued : g # f => v[g] = t.field[g]
      BY <1>1, <2>2, AdvNames DEF AdvTabs
    <2>4. u = [t EXCEPT !.built = @ \cup {f}, !.off = @ \cup {f}, !.field = v]
      BY <1>1, <2>2 DEF Built, AdvTabs
    <2>5. /\ u.built = t.built \cup {f} /\ u.open = t.open /\ u.off = t.off \cup {f} /\ u.field = v
          /\ u.nr = t.nr /\ u.nrRows = t.nrRows /\ u.boxes = t.boxes /\ u.draft = t.draft /\ u.offers = t.offers
      BY <2>4 DEF AdvTabs
    <2>6. u \in AdvTabs
      <3>1. PICK B \in SUBSET Features, O \in SUBSET Buttons : B = t.built \cup {f} /\ O = t.off \cup {f}
        BY <2>1 DEF AdvTabs
      <3>2. PICK b : b = [t EXCEPT !.built = B]
        OBVIOUS
      <3>3. PICK o : o = [b EXCEPT !.off = O]
        OBVIOUS
      <3>4. b \in AdvTabs /\ b.built = B /\ b.off = t.off /\ b.field = t.field
        BY <3>2 DEF AdvTabs
      <3>5. o \in AdvTabs
        BY <3>3, <3>4 DEF AdvTabs
      <3>6. u = [o EXCEPT !.field = v]
        BY <2>4, <3>1, <3>2, <3>3 DEF AdvTabs
      <3> QED
        BY <2>3, <3>5, <3>6 DEF AdvTabs
    <2> QED
      BY <2>3, <2>5, <2>6
  <1>2. CASE f \notin Fields
    <2>1. u = [t EXCEPT !.built = @ \cup {f}]
      BY <1>2 DEF Built, AdvTabs
    <2> QED
      BY <1>2, <2>1, AdvNames DEF AdvTabs
  <1> QED
    BY <1>1, <1>2

LEMMA LoadsTypes ==
  ASSUME NEW f \in Features, NEW m \in Modems, NEW n \in Nat \ {0}, NEW L, L = LoadsOf(f, m, n)
  PROVE  /\ \A c \in L : c \in AdvCall /\ c.on = f /\ c.of = n /\ c.op = "load"
         /\ \A c, d \in L : c = d
         /\ f # "NeighborCell" => L # {}
  <1>1. PICK k : k = [op |-> "load", on |-> f, modem |-> m, of |-> n]
    OBVIOUS
  <1>2. k \in AdvCall /\ k.on = f /\ k.of = n /\ k.op = "load"
    BY <1>1 DEF AdvCall
  <1>3. L = IF f = "NeighborCell" THEN {} ELSE {k}
    BY <1>1 DEF LoadsOf
  <1> QED
    BY <1>2, <1>3

LEMMA OpenTabInv == ASSUME AdvInv, NEW f \in Features, OpenTab(f) PROVE AdvInv'
  <1>1. /\ pane.kind = "tabs" /\ f \in pane.features /\ tabs \in AdvTabs /\ Fits(tabs)
        /\ pane.id \in Nat \ {0} /\ pane.id <= interfaces /\ pane.modem \in Modems
        /\ chosen' = chosen /\ asked' = asked /\ interfaces' = interfaces /\ pane' = pane
    BY DEF OpenTab, AdvInv, AdvTypes, Fits
  <1>2. PICK t : t = [tabs EXCEPT !.open = f]
    OBVIOUS
  <1>3. /\ t \in AdvTabs /\ t.open = f /\ t.built = tabs.built /\ t.off = tabs.off /\ t.field = tabs.field
        /\ t.nr = tabs.nr /\ t.nrRows = tabs.nrRows
        /\ t.boxes = tabs.boxes /\ t.draft = tabs.draft /\ t.offers = tabs.offers
    BY <1>1, <1>2 DEF AdvTabs
  <1>4. Fits(t)
    BY <1>1, <1>3 DEF Fits
  <1>5. CASE f \in tabs.built
    <2>1. tabs' = t /\ calls' = calls
      BY <1>2, <1>5 DEF OpenTab
    <2> QED
      BY <1>1, <1>3, <1>4, <2>1, WidgetsInv
  <1>6. CASE f \notin tabs.built
    <2>1. PICK u : u = Built(t, f) /\ tabs' = u
      BY <1>2, <1>6 DEF OpenTab
    <2>2. PICK L : L = LoadsOf(f, pane.modem, pane.id) /\ calls' = calls \cup L
      BY <1>6 DEF OpenTab
    <2>3. /\ u \in AdvTabs /\ u.built = tabs.built \cup {f} /\ u.open = f
          /\ u.nr = t.nr /\ u.nrRows = t.nrRows /\ u.boxes = t.boxes /\ u.draft = t.draft /\ u.offers = t.offers
          /\ f \in Valued => u.off = t.off \cup {f} /\ u.field[f] = "loading"
          /\ \A g \in Valued : g # f => (g \in u.off <=> g \in tabs.off) /\ u.field[g] = tabs.field[g]
      BY <1>3, <2>1, BuiltFits
    <2>4. /\ \A c \in L : c \in AdvCall /\ c.on = f /\ c.of = pane.id /\ c.op = "load"
          /\ \A c, d \in L : c = d
          /\ f # "NeighborCell" => L # {}
      BY <1>1, <2>2, LoadsTypes
    <2>5. Fits(tabs)'
      BY <1>1, <1>3, <1>4, <2>1, <2>3 DEF Fits
    <2>6. AdvTypes'
      BY <1>1, <2>1, <2>2, <2>3, <2>4 DEF AdvInv, AdvTypes
    <2>7. IdsApart'
      BY <1>1, <2>2, <2>4 DEF AdvInv, IdsApart
    <2>8. f \in Valued => \A c \in calls : c.on = f => ~Seen(c)
      BY <1>6 DEF AdvInv, OneCallEach
    <2>9. \A c : Seen(c)' <=> Seen(c)
      BY <1>1 DEF Seen
    <2>10. OneCallEach'
      BY <2>1, <2>2, <2>3, <2>4, <2>8, <2>9 DEF AdvInv, OneCallEach
    <2>11. ApplyWhenIdle'
      <3>1. ASSUME NEW g \in Valued, g \in u.built
            PROVE  (g \in u.off) <=> \/ \E c \in calls' : c.on = g /\ Seen(c)
                                     \/ u.field[g] = "failed"
        <4>1. CASE g = f
          <5>1. f # "NeighborCell"
            BY <3>1, <4>1 DEF Valued
          <5>2. \E c \in calls' : c.on = f /\ Seen(c)
            BY <2>2, <2>4, <5>1 DEF Seen
          <5> QED
            BY <2>3, <3>1, <4>1, <5>2
        <4>2. CASE g # f
          <5>1. g \in tabs.built
            BY <2>3, <3>1, <4>2
          <5>2. (g \in tabs.off) <=> (\E c \in calls : c.on = g /\ Seen(c)) \/ tabs.field[g] = "failed"
            BY <3>1, <5>1 DEF AdvInv, ApplyWhenIdle, Valued
          <5>3. (\E c \in calls' : c.on = g /\ Seen(c)) <=> (\E c \in calls : c.on = g /\ Seen(c))
            BY <2>2, <2>4, <4>2
          <5> QED
            BY <2>3, <3>1, <4>2, <5>2, <5>3
        <4> QED
          BY <4>1, <4>2
      <3> QED
        BY <2>1, <2>9, <3>1 DEF ApplyWhenIdle, Valued
    <2> QED
      BY <2>5, <2>6, <2>7, <2>10, <2>11 DEF AdvInv
  <1> QED
    BY <1>5, <1>6

\* A container without a tab interface: nobody sees an answer.
LEMMA EmptyPaneInv ==
  ASSUME AdvTypes', pane'.id = 0, pane'.kind # "tabs", tabs' = NoTabs,
         \A a, b \in asked' : a.id = b.id => a = b,
         \A a \in asked', c \in calls' : c.of # a.id,
         \A c \in calls', f \in Valued : c.on = f => c.op \in {"load", "set"}
  PROVE  AdvInv'
  <1>1. \A c \in calls' : ~Seen(c)'
    BY DEF AdvTypes, AdvCall, Seen
  <1>2. IdsApart'
    BY DEF AdvTypes, IdsApart
  <1>3. Fits(tabs)' /\ tabs'.built = {}
    BY NoTabsFits DEF Fits
  <1> QED
    BY <1>1, <1>2, <1>3 DEF AdvInv, OneCallEach, ApplyWhenIdle

LEMMA AdvInitInv == AdvInit => AdvInv
  <1> SUFFICES ASSUME AdvInit PROVE AdvInv
    OBVIOUS
  <1>1. /\ chosen \in Modems /\ interfaces = 1 /\ calls = {} /\ tabs = NoTabs
        /\ asked = {[modem |-> chosen, id |-> 1]} /\ pane = [kind |-> "loading", modem |-> chosen, id |-> 0]
    BY AdvAssumption DEF AdvInit, Empty
  <1>2. 1 \in 1..MaxInterfaces
    BY AdvAssumption
  <1>3. AdvTypes
    BY <1>1, <1>2, NoTabsFits DEF AdvTypes
  <1>4. Fits(tabs) /\ tabs.built = {}
    BY <1>1, NoTabsFits DEF Fits
  <1> QED
    BY <1>1, <1>3, <1>4 DEF AdvInv, IdsApart, OneCallEach, ApplyWhenIdle

LEMMA SelectModemInv == ASSUME AdvInv, NEW m \in Modems, SelectModem(m) PROVE AdvInv'
  <1>1. /\ chosen' = m /\ interfaces' = interfaces + 1 /\ interfaces < MaxInterfaces
        /\ asked' = asked \cup {[modem |-> m, id |-> interfaces + 1]}
        /\ pane' = [kind |-> "loading", modem |-> m, id |-> 0] /\ tabs' = NoTabs /\ calls' = calls
    BY DEF SelectModem
  <1>2. interfaces \in Nat \ {0} /\ MaxInterfaces \in Nat
    BY AdvAssumption DEF AdvInv, AdvTypes
  <1>3. /\ interfaces + 1 \in 1..MaxInterfaces
        /\ \A n \in Nat : n <= interfaces => n <= interfaces + 1 /\ n # interfaces + 1
    BY <1>1, <1>2
  <1>4. PICK a : a = [modem |-> m, id |-> interfaces + 1]
    OBVIOUS
  <1>5. /\ a \in [modem : Modems, id : Nat \ {0}] /\ a.id = interfaces + 1
        /\ \A b \in asked : b.id # a.id /\ b.id <= interfaces + 1
        /\ \A c \in calls : c.of # a.id /\ c.of <= interfaces + 1
    BY <1>2, <1>3, <1>4 DEF AdvInv, AdvTypes, AdvCall
  <1>6. AdvTypes'
    BY <1>1, <1>3, <1>4, <1>5, NoTabsFits DEF AdvInv, AdvTypes
  <1>7. /\ \A b, d \in asked' : b.id = d.id => b = d
        /\ \A b \in asked', c \in calls' : c.of # b.id
    BY <1>1, <1>4, <1>5 DEF AdvInv, IdsApart
  <1>8. \A c \in calls', f \in Valued : c.on = f => c.op \in {"load", "set"}
    BY <1>1 DEF AdvInv, OneCallEach
  <1>9. pane'.id = 0 /\ pane'.kind # "tabs"
    BY <1>1
  <1> QED
    BY <1>1, <1>6, <1>7, <1>8, <1>9, EmptyPaneInv

LEMMA FeaturesInv ==
  ASSUME AdvInv, NEW a \in asked, FeaturesFailed(a) \/ \E D \in DisabledSets : FeaturesAnswered(a, D)
  PROVE  AdvInv'
  <1>1. /\ asked' = asked \ {a} /\ chosen' = chosen /\ interfaces' = interfaces
        /\ a.modem \in Modems /\ a.id \in Nat \ {0} /\ a.id \in 1..interfaces
    <2>1. /\ a.modem \in Modems /\ a.id \in Nat \ {0} /\ a.id <= interfaces /\ interfaces \in Nat
      BY AdvAssumption DEF AdvInv, AdvTypes
    <2>2. asked' = asked \ {a} /\ chosen' = chosen /\ interfaces' = interfaces
      BY DEF FeaturesFailed, FeaturesAnswered
    <2> QED
      BY <2>1, <2>2
  <1>2. CASE /\ calls' = calls /\ tabs' = NoTabs
             /\ \E k \in {"none", "error"} : pane' = [kind |-> k, modem |-> a.modem, id |-> 0]
    <2>1. AdvTypes'
      BY <1>1, <1>2, NoTabsFits DEF AdvInv, AdvTypes
    <2>2. /\ \A b, d \in asked' : b.id = d.id => b = d
          /\ \A b \in asked', c \in calls' : c.of # b.id
          /\ \A c \in calls', f \in Valued : c.on = f => c.op \in {"load", "set"}
      BY <1>1, <1>2 DEF AdvInv, IdsApart, OneCallEach
    <2>3. pane'.id = 0 /\ pane'.kind # "tabs"
      BY <1>2
    <2> QED
      BY <1>2, <2>1, <2>2, <2>3, EmptyPaneInv
  <1>3. ASSUME NEW D \in DisabledSets, FeaturesAnswered(a, D), Features \ D # {}
        PROVE  AdvInv'
    <2>1. PICK F \in SUBSET Features : F = Features \ D /\ F # {}
      BY <1>3
    <2>2. PICK f \in F : f = FirstOf(F)
      BY <2>1, FirstOfIsIn
    <2>3. PICK t : t = [NoTabs EXCEPT !.open = f]
      OBVIOUS
    <2>4. PICK u : u = Built(t, f)
      OBVIOUS
    <2>5. PICK L : L = LoadsOf(f, a.modem, a.id)
      OBVIOUS
    <2>6. /\ pane' = [kind |-> "tabs", modem |-> a.modem, id |-> a.id, features |-> F]
          /\ tabs' = u /\ calls' = calls \cup L
      BY <1>3, <2>1, <2>2, <2>3, <2>4, <2>5 DEF FeaturesAnswered
    <2>7. /\ t \in AdvTabs /\ t.open = f /\ t.built = {} /\ t.nr = t.nrRows
          /\ \A k \in BandClasses : t.boxes[k] = {} /\ t.draft[k] = {} /\ t.offers[k] = {}
      BY <2>1, <2>3 DEF NoTabs, AdvTabs
    <2>8. /\ u \in AdvTabs /\ u.built = {f} /\ u.open = f /\ u.nr = u.nrRows
          /\ \A k \in BandClasses : u.boxes[k] = {} /\ u.draft[k] = {} /\ u.offers[k] = {}
          /\ f \in Valued => f \in u.off /\ u.field[f] = "loading"
      BY <2>1, <2>4, <2>7, BuiltFits
    <2>9. /\ \A c \in L : c \in AdvCall /\ c.on = f /\ c.of = a.id /\ c.op = "load"
          /\ \A c, d \in L : c = d
          /\ f # "NeighborCell" => L # {}
      BY <1>1, <2>1, <2>5, LoadsTypes
    <2>10. pane'.kind = "tabs" /\ pane'.id = a.id /\ pane'.features = F
      BY <2>6
    <2>11. Fits(tabs)'
      BY <2>6, <2>8, <2>10 DEF Fits
    <2>12. pane' \in [kind : {"tabs"}, modem : Modems, id : 1..interfaces, features : SUBSET Features]
      BY <1>1, <2>6
    <2>13. AdvTypes'
      <3>1. asked' \subseteq [modem : Modems, id : Nat \ {0}] /\ \A b \in asked' : b.id <= interfaces'
        BY <1>1 DEF AdvInv, AdvTypes
      <3>2. calls' \subseteq AdvCall /\ \A c \in calls' : c.of <= interfaces'
        BY <1>1, <2>6, <2>9 DEF AdvInv, AdvTypes
      <3> QED
        BY <1>1, <2>6, <2>8, <2>12, <3>1, <3>2 DEF AdvInv, AdvTypes
    <2>14. IdsApart'
      BY <1>1, <2>6, <2>9, <2>10 DEF AdvInv, IdsApart
    <2>15. \A c \in calls' : Seen(c)' <=> c \in L
      BY <2>6, <2>9, <2>10 DEF Seen, AdvInv, IdsApart
    <2>16. OneCallEach'
      BY <2>6, <2>8, <2>9, <2>15 DEF AdvInv, OneCallEach
    <2>17. ApplyWhenIdle'
      <3>1. ASSUME NEW g \in Valued, g \in u.built
            PROVE  g \in u.off /\ \E c \in calls' : c.on = g /\ Seen(c)'
        <4>1. g = f /\ f # "NeighborCell"
          BY <2>8, <3>1 DEF Valued
        <4>2. PICK c \in L : c.on = f
          BY <2>9, <4>1
        <4> QED
          BY <2>6, <2>8, <2>15, <3>1, <4>1, <4>2
      <3> QED
        BY <2>6, <3>1 DEF ApplyWhenIdle, Valued
    <2> QED
      BY <2>11, <2>13, <2>14, <2>16, <2>17 DEF AdvInv
  <1> QED
    BY <1>1, <1>2, <1>3 DEF FeaturesFailed, FeaturesAnswered

\* The two values: Apply, and the answers to a set and to a load.
LEMMA SubmitFieldInv == ASSUME AdvInv, NEW f \in Fields, SubmitField(f) PROVE AdvInv'
  <1>1. /\ f \in tabs.built /\ f \notin tabs.off /\ f \in Buttons /\ f \in Features
        /\ chosen' = chosen /\ asked' = asked /\ interfaces' = interfaces /\ pane' = pane
    BY AdvNames DEF SubmitField
  <1>2. PICK t : t = [tabs EXCEPT !.off = @ \cup {f}] /\ tabs' = t
    BY DEF SubmitField
  <1>3. PICK c : c = Call("set", f) /\ calls' = calls \cup {c}
    BY DEF SubmitField
  <1>4. Fits(tabs) /\ tabs \in AdvTabs /\ pane.kind = "tabs"
    BY <1>1, NoTabsFits DEF AdvInv, Fits
  <1>5. /\ t \in AdvTabs /\ t.built = tabs.built /\ t.field = tabs.field /\ t.off = tabs.off \cup {f}
        /\ t.boxes = tabs.boxes /\ t.draft = tabs.draft /\ t.offers = tabs.offers
        /\ t.nr = tabs.nr /\ t.nrRows = tabs.nrRows /\ t.open = tabs.open
    BY <1>1, <1>2, <1>4 DEF AdvTabs
  <1>6. Fits(t)
    BY <1>4, <1>5 DEF Fits
  <1>7. pane.id \in Nat \ {0} /\ pane.modem \in Modems /\ pane.id <= interfaces
    BY <1>4 DEF AdvInv, AdvTypes
  <1>8. c \in AdvCall /\ c.of = pane.id /\ c.on = f /\ c.op = "set"
    BY <1>1, <1>3, <1>7 DEF Call, AdvCall
  <1>9. CASE f \notin Valued
    <2>1. UNCHANGED <<chosen, asked, interfaces, pane>>
      BY <1>1
    <2> QED
      BY <1>2, <1>3, <1>4, <1>5, <1>6, <1>8, <1>9, <2>1, CallsBeside
  <1>10. CASE f \in Valued
    <2>1. (\A d \in calls : d.on = f => ~Seen(d)) /\ tabs.field[f] # "failed"
      BY <1>1, <1>10 DEF AdvInv, ApplyWhenIdle, Valued
    <2>2. \A d : Seen(d)' <=> Seen(d)
      BY <1>1 DEF Seen
    <2>3. AdvTypes' /\ IdsApart' /\ Fits(tabs)'
      BY <1>1, <1>2, <1>3, <1>5, <1>6, <1>7, <1>8 DEF AdvInv, AdvTypes, IdsApart, Fits
    <2>4. OneCallEach'
      BY <1>1, <1>2, <1>3, <1>5, <1>8, <2>1, <2>2 DEF AdvInv, OneCallEach
    <2>5. Seen(c)
      BY <1>8 DEF Seen
    <2>6. ApplyWhenIdle'
      BY <1>2, <1>3, <1>5, <1>8, <2>2, <2>5 DEF AdvInv, ApplyWhenIdle
    <2> QED
      BY <2>3, <2>4, <2>6 DEF AdvInv
  <1> QED
    BY <1>9, <1>10

\* An answer about one of the two values, seen: it is the only call of that value, so what
\* it leaves of Apply, the value and calls settles whether Apply can be pressed.
LEMMA ValueAnswered ==
  ASSUME AdvInv, NEW c \in calls, c.on \in Valued, NEW t, Fits(t), NEW next, Answered(c, t, next), Seen(c),
         t.built = tabs.built,
         \A f \in Valued \ {c.on} : (f \in t.off <=> f \in tabs.off) /\ t.field[f] = tabs.field[f],
         \/ next = {} /\ (c.on \in t.off <=> t.field[c.on] = "failed")
         \/ next = {Follow(c, "load", c.on)} /\ c.on \in t.off /\ t.field[c.on] # "failed"
  PROVE  AdvInv'
  <1>1. /\ chosen' = chosen /\ asked' = asked /\ interfaces' = interfaces /\ pane' = pane
        /\ calls' = (calls \ {c}) \cup next /\ tabs' = t
    BY DEF Answered
  <1>2. c \in AdvCall /\ c.of <= interfaces /\ \A a \in asked : c.of # a.id
    BY DEF AdvInv, AdvTypes, IdsApart
  <1>3. /\ \A d \in next : d \in AdvCall /\ d.on = c.on /\ d.of = c.of /\ d.op = "load"
        /\ \A d, e \in next : d = e
    <2>1. ASSUME NEW d, d = Follow(c, "load", c.on)
          PROVE  d \in AdvCall /\ d.on = c.on /\ d.of = c.of /\ d.op = "load"
      BY <1>2, <2>1 DEF Follow, AdvCall
    <2> QED
      BY <2>1
  <1>4. AdvTypes' /\ IdsApart' /\ Fits(tabs)'
    BY <1>1, <1>2, <1>3 DEF AdvInv, AdvTypes, IdsApart, Fits
  <1>5. \A d : Seen(d)' <=> Seen(d)
    BY <1>1 DEF Seen
  <1>6. /\ c.on \in tabs.built
        /\ \A d \in calls \ {c} : d.on = c.on => ~Seen(d)
    BY DEF AdvInv, OneCallEach
  <1>7. \A d \in next : Seen(d)
    BY <1>3 DEF Seen
  <1>8. OneCallEach'
    BY <1>1, <1>3, <1>5, <1>6 DEF AdvInv, OneCallEach
  <1>9. ApplyWhenIdle'
    <2>1. ASSUME NEW g \in Valued, g \in t.built
          PROVE  (g \in t.off) <=> \/ \E d \in calls' : d.on = g /\ Seen(d)
                                   \/ t.field[g] = "failed"
      <3>1. CASE g = c.on
        BY <1>1, <1>3, <1>6, <1>7, <3>1
      <3>2. CASE g # c.on
        <4>1. (\E d \in calls' : d.on = g /\ Seen(d)) <=> (\E d \in calls : d.on = g /\ Seen(d))
          BY <1>1, <1>3, <3>2
        <4>2. (g \in tabs.off) <=> (\E d \in calls : d.on = g /\ Seen(d)) \/ tabs.field[g] = "failed"
          BY <2>1 DEF AdvInv, ApplyWhenIdle, Valued
        <4> QED
          BY <2>1, <3>2, <4>1, <4>2
      <3> QED
        BY <3>1, <3>2
    <2> QED
      BY <1>1, <1>5, <2>1 DEF ApplyWhenIdle, Valued
  <1> QED
    BY <1>4, <1>8, <1>9 DEF AdvInv

\* An answer to a replaced interface, and the call that may follow it, change nothing shown.
LEMMA UnseenInv ==
  ASSUME AdvInv, NEW c \in calls, ~Seen(c), NEW t, NEW next, Answered(c, t, next),
         next = {} \/ next = {Follow(c, "load", c.on)}
  PROVE  AdvInv'
  <1>1. /\ chosen' = chosen /\ asked' = asked /\ interfaces' = interfaces /\ pane' = pane
        /\ calls' = (calls \ {c}) \cup next /\ tabs' = tabs
    BY DEF Answered
  <1>2. c \in AdvCall /\ c.of <= interfaces /\ \A a \in asked : c.of # a.id
    BY DEF AdvInv, AdvTypes, IdsApart
  <1>3. \A d \in next : d \in AdvCall /\ d.of = c.of /\ d.op = "load"
    <2>1. ASSUME NEW d, d = Follow(c, "load", c.on)
          PROVE  d \in AdvCall /\ d.of = c.of /\ d.op = "load"
      BY <1>2, <2>1 DEF Follow, AdvCall
    <2> QED
      BY <2>1
  <1>4. \A d : Seen(d)' <=> Seen(d)
    BY <1>1 DEF Seen
  <1>5. \A d \in next : ~Seen(d)
    BY <1>3 DEF Seen
  <1>6. AdvTypes' /\ IdsApart' /\ Fits(tabs)'
    BY <1>1, <1>2, <1>3 DEF AdvInv, AdvTypes, IdsApart, Fits
  <1>7. OneCallEach'
    BY <1>1, <1>3, <1>4, <1>5 DEF AdvInv, OneCallEach
  <1>8. ApplyWhenIdle'
    BY <1>1, <1>4, <1>5 DEF AdvInv, ApplyWhenIdle
  <1> QED
    BY <1>6, <1>7, <1>8 DEF AdvInv

LEMMA FitsApart == AdvInv => Fits(tabs) /\ tabs \in AdvTabs
  BY DEF AdvInv, Fits

LEMMA ValueLoadedInv == ASSUME AdvInv, NEW c \in calls, NEW yes \in BOOLEAN, ValueLoaded(c, yes) PROVE AdvInv'
  <1>1. PICK t : /\ t = [tabs EXCEPT !.field[c.on] = IF yes THEN "value" ELSE "failed",
                                     !.off = IF yes THEN @ \ {c.on} ELSE @]
                 /\ Answered(c, t, {}) /\ c.on \in Valued
    BY DEF ValueLoaded, Valued
  <1>2. Fits(tabs) /\ tabs \in AdvTabs /\ c.on \in Fields
    BY <1>1, FitsApart, AdvNames
  <1>3. /\ t \in AdvTabs /\ t.built = tabs.built /\ t.off = (IF yes THEN tabs.off \ {c.on} ELSE tabs.off)
        /\ t.field = [tabs.field EXCEPT ![c.on] = IF yes THEN "value" ELSE "failed"]
        /\ t.boxes = tabs.boxes /\ t.draft = tabs.draft /\ t.offers = tabs.offers
        /\ t.nr = tabs.nr /\ t.nrRows = tabs.nrRows /\ t.open = tabs.open
    BY <1>1, <1>2 DEF AdvTabs
  <1>4. t.field[c.on] = (IF yes THEN "value" ELSE "failed") /\ \A f \in Valued \ {c.on} : t.field[f] = tabs.field[f]
    BY <1>1, <1>2, <1>3, AdvNames DEF AdvTabs
  <1>5. CASE Seen(c)
    <2>1. pane.kind = "tabs"
      BY <1>5 DEF Seen, AdvInv, AdvTypes, AdvCall
    <2>2. Fits(t)
      BY <1>2, <1>3, <2>1 DEF Fits
    <2>3. c.on \in tabs.off
      BY <1>1, <1>5 DEF AdvInv, ApplyWhenIdle, OneCallEach, Valued
    <2>4. c.on \in t.off <=> t.field[c.on] = "failed"
      BY <1>3, <1>4, <2>3
    <2>5. \A f \in Valued \ {c.on} : (f \in t.off <=> f \in tabs.off) /\ t.field[f] = tabs.field[f]
      BY <1>3, <1>4
    <2>6. t.built = tabs.built /\ c.on \in Valued /\ Answered(c, t, {})
      BY <1>1, <1>3
    <2> QED
      BY <1>5, <2>2, <2>4, <2>5, <2>6, ValueAnswered
  <1>6. CASE ~Seen(c)
    BY <1>1, <1>6, UnseenInv
  <1> QED
    BY <1>5, <1>6

LEMMA FieldSetInv == ASSUME AdvInv, NEW c \in calls, NEW yes \in BOOLEAN, FieldSet(c, yes) PROVE AdvInv'
  <1>1. PICK t, next :
          /\ t = (IF yes THEN tabs ELSE [tabs EXCEPT !.off = @ \ {c.on}])
          /\ next = IF yes THEN {Follow(c, "load", c.on)} ELSE {}
          /\ Answered(c, t, next) /\ c.op = "set" /\ c.on \in Fields
    BY DEF FieldSet
  <1>2. Fits(tabs) /\ tabs \in AdvTabs
    BY FitsApart
  <1>3. /\ t \in AdvTabs /\ t.built = tabs.built /\ t.off = (IF yes THEN tabs.off ELSE tabs.off \ {c.on})
        /\ t.field = tabs.field
        /\ t.boxes = tabs.boxes /\ t.draft = tabs.draft /\ t.offers = tabs.offers
        /\ t.nr = tabs.nr /\ t.nrRows = tabs.nrRows /\ t.open = tabs.open
    BY <1>1, <1>2 DEF AdvTabs
  <1>4. pane.kind = "tabs" => Fits(t)
    BY <1>2, <1>3 DEF Fits
  <1>5. CASE c.on \notin Valued
    <2>1. next = {} \/ \E op \in {"load", "status", "timer"}, on \in (Features \cup Buttons) \ Valued :
                         next = {Follow(c, op, on)}
      <3>1. c.on \in (Features \cup Buttons) \ Valued
        BY <1>1, <1>5, AdvNames
      <3> QED
        BY <1>1, <3>1
    <2>2. \A f \in Valued : (f \in t.off <=> f \in tabs.off) /\ t.field[f] = tabs.field[f]
      BY <1>3, <1>5
    <2> QED
      BY <1>1, <1>3, <1>4, <1>5, <2>1, <2>2, AnsweredBeside
  <1>6. CASE c.on \in Valued /\ Seen(c)
    <2>1. pane.kind = "tabs"
      BY <1>6 DEF Seen, AdvInv, AdvTypes, AdvCall
    <2>2. c.on \in tabs.off /\ tabs.field[c.on] # "failed"
      BY <1>6 DEF AdvInv, ApplyWhenIdle, OneCallEach, Valued
    <2>3. \A f \in Valued \ {c.on} : (f \in t.off <=> f \in tabs.off) /\ t.field[f] = tabs.field[f]
      BY <1>3
    <2>4. \/ next = {} /\ (c.on \in t.off <=> t.field[c.on] = "failed")
          \/ next = {Follow(c, "load", c.on)} /\ c.on \in t.off /\ t.field[c.on] # "failed"
      BY <1>1, <1>3, <2>2
    <2>5. t.built = tabs.built /\ Fits(t) /\ Answered(c, t, next)
      BY <1>1, <1>3, <1>4, <2>1
    <2> QED
      BY <1>6, <2>3, <2>4, <2>5, ValueAnswered
  <1>7. CASE ~Seen(c)
    BY <1>1, <1>7, UnseenInv
  <1> QED
    BY <1>5, <1>6, <1>7

\* The remaining answers and presses, all beside the two values.
LEMMA ImeiLoadedInv == ASSUME AdvInv, NEW c \in calls, NEW yes \in BOOLEAN, ImeiLoaded(c, yes) PROVE AdvInv'
  <1>1. Fits(tabs) /\ tabs \in AdvTabs /\ calls \subseteq AdvCall /\ c \in AdvCall
    BY FitsApart DEF AdvInv, AdvTypes
  <1>2. PICK e : e = (IF yes /\ pane.kind = "tabs" /\ pane.modem = c.modem
                      THEN [tabs EXCEPT !.off = @ \ {"IMEI"}] ELSE tabs)
    OBVIOUS
  <1>3. PICK t : /\ t = (IF Seen(c) THEN [e EXCEPT !.field["IMEI"] = IF yes THEN "value" ELSE "failed",
                                                   !.digits = yes \/ @]
                         ELSE e)
                 /\ tabs' = t
    BY <1>2 DEF ImeiLoaded
  <1>4. /\ e \in AdvTabs /\ e.built = tabs.built /\ e.field = tabs.field
        /\ \A f \in Valued : f \in e.off <=> f \in tabs.off
        /\ e.boxes = tabs.boxes /\ e.draft = tabs.draft /\ e.offers = tabs.offers
        /\ e.nr = tabs.nr /\ e.nrRows = tabs.nrRows /\ e.open = tabs.open
        /\ pane.kind # "tabs" => e = tabs
    BY <1>1, <1>2 DEF AdvTabs, Valued
  <1>5. /\ t \in AdvTabs /\ t.built = e.built /\ t.off = e.off
        /\ \A f \in Valued : t.field[f] = e.field[f]
        /\ t.boxes = e.boxes /\ t.draft = e.draft /\ t.offers = e.offers
        /\ t.nr = e.nr /\ t.nrRows = e.nrRows /\ t.open = e.open
    <2>1. CASE ~Seen(c)
      BY <1>3, <1>4, <2>1
    <2>2. CASE Seen(c)
      <3>1. PICK v : v = [e.field EXCEPT !["IMEI"] = IF yes THEN "value" ELSE "failed"]
        OBVIOUS
      <3>2. PICK digits \in BOOLEAN : digits = (yes \/ e.digits)
        BY <1>4 DEF AdvTabs
      <3>3. t = [e EXCEPT !.field = v, !.digits = digits]
        BY <1>3, <2>2, <3>1, <3>2
      <3>4. e.field \in [Fields -> {"none", "loading", "value", "failed"}]
        BY <1>4 DEF AdvTabs
      <3>5. v \in [Fields -> {"none", "loading", "value", "failed"}]
        BY <3>1, <3>4
      <3>6. \A f \in Valued : v[f] = e.field[f]
        BY <3>1, <3>4, AdvNames DEF Valued
      <3>7. t \in AdvTabs /\ t.field = v
        BY <1>4, <3>3, <3>5 DEF AdvTabs
      <3> QED
        BY <1>4, <3>3, <3>6, <3>7 DEF AdvTabs
    <2> QED
      BY <2>1, <2>2
  <1>6. Seen(c) => pane.kind = "tabs"
    BY <1>1 DEF Seen, AdvInv, AdvTypes, AdvCall
  <1>7. Fits(t)
    BY <1>1, <1>3, <1>4, <1>5, <1>6 DEF Fits
  <1>8. calls' = calls \ {c} /\ c.on = "IMEI"
        /\ chosen' = chosen /\ asked' = asked /\ interfaces' = interfaces /\ pane' = pane
    BY DEF ImeiLoaded
  <1>9. calls' \in SUBSET AdvCall /\ t.built = tabs.built
        /\ \A f \in Valued : (f \in t.off <=> f \in tabs.off) /\ t.field[f] = tabs.field[f]
    BY <1>1, <1>4, <1>5, <1>8
  <1>10. /\ \A d \in calls' : d \in calls \/ (d.on \notin Valued /\ d.of <= interfaces /\ \A a \in asked : d.of # a.id)
         /\ \A d \in calls : d.on \in Valued => d \in calls'
    BY <1>8 DEF Valued
  <1>11. tabs' = t
    BY <1>3
  <1> QED
    BY <1>7, <1>8, <1>9, <1>10, <1>11, BesideInv

\* An answer that enables some of the buttons, and brings cells.
LEMMA EnablesInv ==
  ASSUME AdvInv, NEW c \in calls, c.on \notin Valued, NEW B, \A f \in Valued : f \notin B,
         NEW t, NEW next,
         (\/ t = tabs
          \/ t = [tabs EXCEPT !.off = @ \ B]
          \/ \E found \in SUBSET {"LTE", "NR"} : t = [tabs EXCEPT !.off = @ \ B, !.cells = found]),
         Answered(c, t, next),
         next = {} \/ \E op \in {"load", "status", "timer"}, on \in (Features \cup Buttons) \ Valued :
                        next = {Follow(c, op, on)}
  PROVE  AdvInv'
  <1>1. Fits(tabs) /\ tabs \in AdvTabs
    BY FitsApart
  <1> DEFINE Near ==
               /\ t \in AdvTabs /\ t.built = tabs.built /\ t.field = tabs.field
               /\ t.off = tabs.off \/ t.off = tabs.off \ B
               /\ t.boxes = tabs.boxes /\ t.draft = tabs.draft /\ t.offers = tabs.offers
               /\ t.nr = tabs.nr /\ t.nrRows = tabs.nrRows /\ t.open = tabs.open
  <1>2. Near
    <2>1. PICK O \in SUBSET Buttons : O = tabs.off \ B
      BY <1>1 DEF AdvTabs
    <2>2. CASE t = tabs
      BY <1>1, <2>2
    <2>3. CASE t = [tabs EXCEPT !.off = @ \ B]
      <3>1. t = [tabs EXCEPT !.off = O]
        BY <1>1, <2>1, <2>3 DEF AdvTabs
      <3> QED
        BY <1>1, <2>1, <3>1 DEF AdvTabs
    <2>4. ASSUME NEW found \in SUBSET {"LTE", "NR"}, t = [tabs EXCEPT !.off = @ \ B, !.cells = found]
          PROVE  Near
      <3>1. t = [tabs EXCEPT !.off = O, !.cells = found]
        BY <1>1, <2>1, <2>4 DEF AdvTabs
      <3> QED
        BY <1>1, <2>1, <3>1 DEF AdvTabs
    <2> QED
      BY <2>2, <2>3, <2>4
  <1>3. pane.kind = "tabs" => Fits(t)
    BY <1>1, <1>2 DEF Fits
  <1>4. \A f \in Valued : (f \in t.off <=> f \in tabs.off) /\ t.field[f] = tabs.field[f]
    BY <1>2
  <1> QED
    BY <1>2, <1>3, <1>4, AnsweredBeside

LEMMA AnswersInv ==
  ASSUME AdvInv, NEW c \in calls,
         \/ \E yes \in BOOLEAN : CellSet(c, yes) \/ BandsSet(c, yes) \/ RebootDone(c, yes)
         \/ RadioStatusShown(c) \/ RebootWaited(c)
         \/ \E found \in SUBSET {"LTE", "NR"} : CellsScanned(c, found)
         \/ \E caps \in SUBSET {"soft", "hard"} : CapsLoaded(c, caps)
  PROVE  AdvInv'
  <1>0. /\ \A f \in Valued : c.on = f => c.op \in {"load", "set"}
        /\ c \in AdvCall
    BY DEF AdvInv, AdvTypes, OneCallEach
  <1>1. c.op \notin {"load", "set"} => c.on \notin Valued
    BY <1>0
  <1>2. c.on \notin Valued => \A f \in Valued : f \notin {c.on}
    OBVIOUS
  <1>3. ASSUME c.on \notin Valued, NEW t, t = tabs \/ t = [tabs EXCEPT !.off = @ \ {c.on}],
               NEW next, Answered(c, t, next),
               next = {} \/ \E op \in {"load", "status", "timer"}, on \in (Features \cup Buttons) \ Valued :
                        next = {Follow(c, op, on)}
        PROVE  AdvInv'
    BY <1>2, <1>3, EnablesInv
  <1>4. ASSUME NEW yes \in BOOLEAN, CellSet(c, yes)
        PROVE  AdvInv'
    <2>1. "scan" \in (Features \cup Buttons) \ Valued /\ c.on \notin Valued
      BY <1>4 DEF CellSet, Buttons, Valued
    <2> QED
      BY <1>3, <1>4, <2>1 DEF CellSet
  <1>5. ASSUME NEW yes \in BOOLEAN, BandsSet(c, yes)
        PROVE  AdvInv'
    <2>1. "LockBand" \in (Features \cup Buttons) \ Valued /\ c.on \notin Valued
      BY <1>5, AdvNames DEF BandsSet, Valued
    <2> QED
      BY <1>3, <1>5, <2>1 DEF BandsSet
  <1>6. ASSUME NEW yes \in BOOLEAN, RebootDone(c, yes)
        PROVE  AdvInv'
    <2>1. c.on \in (Features \cup Buttons) \ Valued /\ c.on \notin Valued
      BY <1>6, AdvNames DEF RebootDone, Valued
    <2> QED
      BY <1>3, <1>6, <2>1 DEF RebootDone
  <1>7. CASE RadioStatusShown(c)
    BY <1>1, <1>3, <1>7 DEF RadioStatusShown
  <1>8. CASE RebootWaited(c)
    BY <1>1, <1>3, <1>8 DEF RebootWaited
  <1>9. ASSUME NEW found \in SUBSET {"LTE", "NR"}, CellsScanned(c, found)
        PROVE  AdvInv'
    <2>1. PICK t : t = [tabs EXCEPT !.off = @ \ {"scan"}, !.cells = found] /\ Answered(c, t, {})
      BY <1>9 DEF CellsScanned
    <2>2. c.on \notin Valued /\ \A f \in Valued : f \notin {"scan"}
      BY <1>1, <1>9 DEF CellsScanned, Valued
    <2> QED
      BY <2>1, <2>2, EnablesInv
  <1>10. ASSUME NEW caps \in SUBSET {"soft", "hard"}, CapsLoaded(c, caps)
         PROVE  AdvInv'
    <2>1. PICK t : t = [tabs EXCEPT !.reboots = caps] /\ Answered(c, t, {})
      BY <1>10 DEF CapsLoaded
    <2>2. Fits(tabs) /\ tabs \in AdvTabs
      BY FitsApart
    <2>3. /\ t \in AdvTabs /\ t.built = tabs.built /\ t.field = tabs.field /\ t.off = tabs.off
          /\ t.boxes = tabs.boxes /\ t.draft = tabs.draft /\ t.offers = tabs.offers
          /\ t.nr = tabs.nr /\ t.nrRows = tabs.nrRows /\ t.open = tabs.open
      BY <2>1, <2>2 DEF AdvTabs
    <2>4. c.on \notin Valued /\ (pane.kind = "tabs" => Fits(t))
      BY <1>10, <2>2, <2>3 DEF CapsLoaded, Valued, Fits
    <2> QED
      BY <2>1, <2>3, <2>4, AnsweredBeside
  <1> QED
    BY <1>4, <1>5, <1>6, <1>7, <1>8, <1>9, <1>10

LEMMA BandsLoadedInv ==
  ASSUME AdvInv, NEW c \in calls,
         \/ BandsFailed(c) \/ \E offers, locked \in [BandClasses -> SUBSET Bands] : BandsLoaded(c, offers, locked)
  PROVE  AdvInv'
  <1>1. Fits(tabs) /\ tabs \in AdvTabs
    BY FitsApart
  <1> DEFINE Brings(o, d, b, B, t) ==
               /\ \A k \in BandClasses : b[k] = d[k] \cap o[k]
               /\ t = [tabs EXCEPT !.offers = o, !.draft = d, !.boxes = b, !.off = @ \ B]
               /\ Answered(c, t, {})
  <1>2. \E o, d, b \in [BandClasses -> SUBSET Bands], B \in {{}, BandClasses} : \E t : Brings(o, d, b, B, t)
    <2>1. CASE BandsFailed(c)
      <3>1. PICK z : z = [k \in BandClasses |-> {}]
        OBVIOUS
      <3>2. z \in [BandClasses -> SUBSET Bands] /\ \A k \in BandClasses : z[k] = z[k] \cap z[k]
        BY <3>1
      <3>3. PICK t : t = [tabs EXCEPT !.offers = z, !.draft = z, !.boxes = z] /\ Answered(c, t, {})
        BY <2>1, <3>1 DEF BandsFailed
      <3>4. t = [tabs EXCEPT !.offers = z, !.draft = z, !.boxes = z, !.off = @ \ {}]
        BY <1>1, <3>3 DEF AdvTabs
      <3>5. Brings(z, z, z, {}, t)
        BY <3>2, <3>3, <3>4
      <3> HIDE DEF Brings
      <3> QED
        BY <3>2, <3>5
    <2>2. ASSUME NEW o \in [BandClasses -> SUBSET Bands], NEW d \in [BandClasses -> SUBSET Bands], BandsLoaded(c, o, d)
          PROVE  \E b \in [BandClasses -> SUBSET Bands] : \E t : Brings(o, d, b, BandClasses, t)
      <3>1. PICK b : b = [k \in BandClasses |-> d[k] \cap o[k]]
        OBVIOUS
      <3>2. b \in [BandClasses -> SUBSET Bands] /\ \A k \in BandClasses : b[k] = d[k] \cap o[k]
        BY <3>1
      <3>3. PICK t : t = [tabs EXCEPT !.offers = o, !.draft = d, !.boxes = b, !.off = @ \ BandClasses]
                     /\ Answered(c, t, {})
        BY <2>2, <3>1 DEF BandsLoaded
      <3> QED
        BY <3>2, <3>3
    <2>3. \A o, d, b, t : Brings(o, d, b, BandClasses, t) =>
                            \E B \in {{}, BandClasses} : Brings(o, d, b, B, t)
      OBVIOUS
    <2> HIDE DEF Brings
    <2> QED
      BY <2>1, <2>2, <2>3
  <1>2b. PICK o, d, b \in [BandClasses -> SUBSET Bands], B \in {{}, BandClasses} : \E t : Brings(o, d, b, B, t)
    BY <1>2
  <1>2a. PICK t :
          /\ \A k \in BandClasses : b[k] = d[k] \cap o[k]
          /\ t = [tabs EXCEPT !.offers = o, !.draft = d, !.boxes = b, !.off = @ \ B]
          /\ Answered(c, t, {})
    BY <1>2b
  <1>3. c.on = "LockBand"
    BY DEF BandsLoaded, BandsFailed
  <1>4. PICK O : O = tabs.off \ B
    OBVIOUS
  <1>5. O \in SUBSET Buttons /\ \A f \in Valued : f \in O <=> f \in tabs.off
    BY <1>1, <1>4, AdvNames DEF AdvTabs
  <1>6. t = [tabs EXCEPT !.offers = o, !.draft = d, !.boxes = b, !.off = O]
    BY <1>1, <1>2a, <1>4 DEF AdvTabs
  <1>7. /\ t \in AdvTabs /\ t.built = tabs.built /\ t.off = O /\ t.field = tabs.field
        /\ t.boxes = b /\ t.draft = d /\ t.offers = o
        /\ t.nr = tabs.nr /\ t.nrRows = tabs.nrRows /\ t.open = tabs.open
    <2>1. t \in AdvTabs
      BY <1>1, <1>5, <1>6 DEF AdvTabs
    <2> QED
      BY <1>1, <1>6, <2>1 DEF AdvTabs
  <1>8. pane.kind = "tabs" => Fits(t)
    BY <1>1, <1>2a, <1>7 DEF Fits
  <1>9. c.on \notin Valued /\ t.built = tabs.built /\ Answered(c, t, {})
        /\ \A f \in Valued : (f \in t.off <=> f \in tabs.off) /\ t.field[f] = tabs.field[f]
    BY <1>2a, <1>3, <1>5, <1>7 DEF Valued
  <1> QED
    BY <1>8, <1>9, AnsweredBeside

\* The steps of the user beside Apply of the two values.
LEMMA EditsInv ==
  ASSUME AdvInv,
         \/ \E yes \in BOOLEAN : TypeImei(yes) \/ ChangeRat(yes)
         \/ \E ids, band \in BOOLEAN : TypeCell(ids, band)
         \/ \E rat \in {"LTE", "NR"}, band \in BOOLEAN : CopyCell(rat, band)
  PROVE  AdvInv'
  <1>1. Fits(tabs) /\ tabs \in AdvTabs /\ (pane.kind # "tabs" => tabs.built = {} /\ tabs.cells = {})
    BY FitsApart, NoTabsFits DEF Fits
  <1>2. pane.kind = "tabs" /\ UNCHANGED <<chosen, asked, interfaces, pane, calls>>
    BY <1>1 DEF TypeImei, ChangeRat, TypeCell, CopyCell
  <1> DEFINE Edited(t) ==
               /\ t \in AdvTabs /\ t.built = tabs.built /\ t.field = tabs.field /\ t.open = tabs.open
               /\ t.boxes = tabs.boxes /\ t.draft = tabs.draft /\ t.offers = tabs.offers
               /\ t.nr = t.nrRows
               /\ \A f \in Valued : f \in t.off <=> f \in tabs.off
  <1>3. ASSUME NEW yes \in BOOLEAN, TypeImei(yes)
        PROVE  \E t : Edited(t) /\ tabs' = t
    <2>1. PICK t : /\ t = [tabs EXCEPT !.digits = yes, !.off = IF yes THEN @ \ {"IMEI"} ELSE @ \cup {"IMEI"}]
                   /\ tabs' = t
      BY <1>3 DEF TypeImei
    <2>2. PICK O : O = IF yes THEN tabs.off \ {"IMEI"} ELSE tabs.off \cup {"IMEI"}
      OBVIOUS
    <2>3. O \in SUBSET Buttons /\ \A f \in Valued : f \in O <=> f \in tabs.off
      BY <1>1, <2>2, AdvNames DEF AdvTabs, Valued, Fields
    <2>4. t = [tabs EXCEPT !.digits = yes, !.off = O]
      BY <1>1, <2>1, <2>2 DEF AdvTabs
    <2>5. Edited(t)
      BY <1>1, <2>3, <2>4 DEF AdvTabs, Fits
    <2> QED
      BY <2>1, <2>5
  <1>4. ASSUME NEW yes \in BOOLEAN, ChangeRat(yes)
        PROVE  \E t : Edited(t) /\ tabs' = t
    <2>1. PICK t : t = [tabs EXCEPT !.nr = yes, !.nrRows = yes] /\ tabs' = t
      BY <1>4 DEF ChangeRat
    <2>2. Edited(t)
      BY <1>1, <2>1 DEF AdvTabs
    <2> QED
      BY <2>1, <2>2
  <1>5. ASSUME NEW ids \in BOOLEAN, NEW band \in BOOLEAN, TypeCell(ids, band)
        PROVE  \E t : Edited(t) /\ tabs' = t
    <2>1. PICK t : t = [tabs EXCEPT !.cellIds = ids, !.cellBand = band] /\ tabs' = t
      BY <1>5 DEF TypeCell
    <2>2. Edited(t)
      BY <1>1, <2>1 DEF AdvTabs, Fits
    <2> QED
      BY <2>1, <2>2
  <1>6. ASSUME NEW rat \in {"LTE", "NR"}, NEW band \in BOOLEAN, CopyCell(rat, band)
        PROVE  \E t : Edited(t) /\ tabs' = t
    <2>1. PICK n \in BOOLEAN : n = (rat = "NR")
      OBVIOUS
    <2>2. PICK t : t = [tabs EXCEPT !.nr = n, !.nrRows = n, !.cellIds = TRUE, !.cellBand = band] /\ tabs' = t
      BY <1>6, <2>1 DEF CopyCell
    <2>3. Edited(t)
      BY <1>1, <2>2 DEF AdvTabs
    <2> QED
      BY <2>2, <2>3
  <1>7. PICK t : Edited(t) /\ tabs' = t
    BY <1>3, <1>4, <1>5, <1>6
  <1>8. Fits(t)
    BY <1>1, <1>2, <1>7 DEF Fits
  <1> QED
    BY <1>2, <1>7, <1>8, WidgetsInv

\* Checkboxes and the draft change together, and never beyond what the class offers.
LEMMA BoxesInv ==
  ASSUME AdvInv, NEW k \in BandClasses, SelectAllBands(k) \/ \E b \in Bands : ToggleBand(k, b)
  PROVE  AdvInv'
  <1>1. Fits(tabs) /\ tabs \in AdvTabs /\ (pane.kind # "tabs" => tabs.offers[k] = {})
    BY FitsApart, NoTabsFits DEF Fits
  <1>2. pane.kind = "tabs" /\ UNCHANGED <<chosen, asked, interfaces, pane, calls>>
    BY <1>1 DEF SelectAllBands, ToggleBand
  <1>3. PICK D, B \in SUBSET Bands :
          /\ tabs' = [tabs EXCEPT !.draft[k] = D, !.boxes[k] = B]
          /\ B = D \cap tabs.offers[k]
    <2>0. /\ tabs.offers[k] \subseteq Bands /\ tabs.draft[k] \subseteq Bands /\ tabs.boxes[k] \subseteq Bands
          /\ tabs.boxes[k] = tabs.draft[k] \cap tabs.offers[k]
      BY <1>1 DEF AdvTabs, Fits
    <2>1. CASE SelectAllBands(k)
      <3>1. PICK now \in {{}, tabs.offers[k]} : tabs' = [tabs EXCEPT !.draft[k] = now, !.boxes[k] = now]
        BY <2>1 DEF SelectAllBands
      <3> QED
        BY <2>0, <3>1
    <2>2. ASSUME NEW b \in Bands, ToggleBand(k, b)
          PROVE  \E D, B \in SUBSET Bands :
                   /\ tabs' = [tabs EXCEPT !.draft[k] = D, !.boxes[k] = B]
                   /\ B = D \cap tabs.offers[k]
      <3>1. CASE b \notin tabs.boxes[k]
        <4>1. PICK D, B : D = tabs.draft[k] \cup {b} /\ B = tabs.boxes[k] \cup {b}
          OBVIOUS
        <4>2. tabs' = [tabs EXCEPT !.draft[k] = D, !.boxes[k] = B]
          BY <1>1, <2>2, <3>1, <4>1 DEF ToggleBand, AdvTabs
        <4>3. D \in SUBSET Bands /\ B \in SUBSET Bands /\ B = D \cap tabs.offers[k]
          BY <2>0, <2>2, <4>1 DEF ToggleBand
        <4> QED
          BY <4>2, <4>3
      <3>2. CASE b \in tabs.boxes[k]
        <4>1. PICK D, B : D = tabs.draft[k] \ {b} /\ B = tabs.boxes[k] \ {b}
          OBVIOUS
        <4>2. tabs' = [tabs EXCEPT !.draft[k] = D, !.boxes[k] = B]
          BY <1>1, <2>2, <3>2, <4>1 DEF ToggleBand, AdvTabs
        <4>3. D \in SUBSET Bands /\ B \in SUBSET Bands /\ B = D \cap tabs.offers[k]
          BY <2>0, <2>2, <4>1 DEF ToggleBand
        <4> QED
          BY <4>2, <4>3
      <3> QED
        BY <3>1, <3>2
    <2> QED
      BY <2>1, <2>2
  <1>3a. PICK t : t = [tabs EXCEPT !.draft[k] = D, !.boxes[k] = B] /\ tabs' = t /\ B = D \cap tabs.offers[k]
    BY <1>3
  <1>4. /\ t \in AdvTabs /\ t.built = tabs.built /\ t.field = tabs.field /\ t.open = tabs.open
        /\ t.off = tabs.off /\ t.offers = tabs.offers /\ t.nr = tabs.nr /\ t.nrRows = tabs.nrRows
        /\ \A j \in BandClasses : /\ t.draft[j] = IF j = k THEN D ELSE tabs.draft[j]
                                  /\ t.boxes[j] = IF j = k THEN B ELSE tabs.boxes[j]
    BY <1>1, <1>3a DEF AdvTabs
  <1>5. Fits(t)
    BY <1>1, <1>2, <1>3a, <1>4 DEF Fits
  <1> QED
    BY <1>2, <1>3a, <1>4, <1>5, WidgetsInv

LEMMA PressesInv ==
  ASSUME AdvInv,
         \/ ScanCells \/ UnlockCell \/ LockCell \/ \E k \in BandClasses : ApplyBands(k)
         \/ \E b \in {"soft", "hard"} : Reboot(b)
  PROVE  AdvInv'
  <1>1. pane.kind # "tabs" =>
          tabs.built = {} /\ tabs.reboots = {} /\ \A k \in BandClasses : tabs.offers[k] = {}
    BY FitsApart, NoTabsFits DEF Fits
  <1>2. pane.kind = "tabs"
    BY <1>1 DEF ScanCells, UnlockCell, LockCell, ApplyBands, Reboot
  <1>3. PICK b \in Buttons \ Valued, op \in {"scan", "set"} : Press(b, op)
    <2>1. {"scan", "unlock", "lock", "soft", "hard"} \cup BandClasses \subseteq Buttons \ Valued
      BY AdvNames DEF Valued
    <2> QED
      BY <2>1 DEF ScanCells, UnlockCell, LockCell, ApplyBands, Reboot
  <1> QED
    BY <1>2, <1>3, PressInv

LEMMA AdvNextInv == AdvInv /\ [AdvNext]_advVars => AdvInv'
  <1> SUFFICES ASSUME AdvInv, [AdvNext]_advVars PROVE AdvInv'
    OBVIOUS
  <1>0. CASE UNCHANGED advVars
    BY <1>0 DEF advVars, AdvInv, AdvTypes, IdsApart, Fits, OneCallEach, ApplyWhenIdle, Seen
  <1>1. CASE \E m \in Modems : SelectModem(m)
    BY <1>1, SelectModemInv
  <1>2. CASE \E a \in asked : FeaturesFailed(a) \/ \E D \in DisabledSets : FeaturesAnswered(a, D)
    BY <1>2, FeaturesInv
  <1>3. CASE \E f \in Features : OpenTab(f)
    BY <1>3, OpenTabInv
  <1>4. CASE \E f \in Fields : SubmitField(f)
    BY <1>4, SubmitFieldInv
  <1>5. CASE \/ \E yes \in BOOLEAN : TypeImei(yes) \/ ChangeRat(yes)
             \/ \E ids, band \in BOOLEAN : TypeCell(ids, band)
             \/ \E rat \in {"LTE", "NR"}, band \in BOOLEAN : CopyCell(rat, band)
    BY <1>5, EditsInv
  <1>6. CASE \E c \in calls, yes \in BOOLEAN : ValueLoaded(c, yes) \/ ImeiLoaded(c, yes) \/ FieldSet(c, yes)
    BY <1>6, ValueLoadedInv, ImeiLoadedInv, FieldSetInv
  <1>7. CASE \E c \in calls : \/ \E yes \in BOOLEAN : CellSet(c, yes) \/ BandsSet(c, yes) \/ RebootDone(c, yes)
                              \/ RadioStatusShown(c) \/ RebootWaited(c)
                              \/ \E found \in SUBSET {"LTE", "NR"} : CellsScanned(c, found)
                              \/ \E caps \in SUBSET {"soft", "hard"} : CapsLoaded(c, caps)
    BY <1>7, AnswersInv
  <1>8. CASE \E c \in calls : \/ BandsFailed(c)
                              \/ \E offers, locked \in [BandClasses -> SUBSET Bands] : BandsLoaded(c, offers, locked)
    BY <1>8, BandsLoadedInv
  <1>9. CASE \E k \in BandClasses : SelectAllBands(k) \/ \E b \in Bands : ToggleBand(k, b)
    BY <1>9, BoxesInv
  <1>10. CASE \/ ScanCells \/ UnlockCell \/ LockCell \/ \E k \in BandClasses : ApplyBands(k)
              \/ \E b \in {"soft", "hard"} : Reboot(b)
    BY <1>10, PressesInv
  <1> QED
    BY <1>0, <1>1, <1>2, <1>3, <1>4, <1>5, <1>6, <1>7, <1>8, <1>9, <1>10 DEF AdvNext

LEMMA AdvTells == AdvInv => SettingsSentAsShown
  <1> SUFFICES ASSUME AdvInv PROVE SettingsSentAsShown
    OBVIOUS
  <1>1. interfaces \in Nat
    BY AdvAssumption DEF AdvInv, AdvTypes
  <1>2. AdvTypeOK
    BY <1>1 DEF AdvInv, AdvTypes, AdvTypeOK, Fits, AdvTabs, AdvCall
  <1>3. BoxesAreDraft /\ NrRowsOfNr
    BY DEF AdvInv, Fits, BoxesAreDraft, NrRowsOfNr
  <1> QED
    BY <1>2, <1>3 DEF AdvInv, SettingsSentAsShown

-----------------------------------------------------------------------------
(* The buttons and the scripts of the monitor page.                        *)

RcStatus == [known : BOOLEAN, enabled : BOOLEAN, running : BOOLEAN]
RcCall ==
  [action : Actions, nth : Nat, drawn : BOOLEAN, at : {"action", "acted", "status", "read"},
   ok : BOOLEAN, again : BOOLEAN, saw : RcStatus]
Job == [script : Scripts, nth : Nat, step : {"write", "chmod", "remove", "list", "show"}, saw : SUBSET Scripts]

MonTypeOK ==
  /\ service \in [enabled : BOOLEAN, running : BOOLEAN] /\ rcShown \in RcStatus
  /\ rcCalls \subseteq RcCall /\ jobs \subseteq Job
  /\ pressed \in Nat /\ unsure \in BOOLEAN
  /\ files \in [Scripts -> {"absent", "plain", "executable"}] /\ listed \subseteq Scripts

There == {s \in Scripts : files[s] # "absent"}

\* While no button was pressed during another's call, one thing is under way; what its last
\* step has read is still so, and with nothing of its kind under way the page is current.
OneAtATime ==
  /\ \A c, d \in rcCalls : c = d
  /\ \A j, k \in jobs : j = k
  /\ rcCalls = {} \/ jobs = {}
StatusCurrent ==
  /\ rcCalls = {} /\ rcShown.known => rcShown = Status(TRUE, service)
  /\ \A c \in rcCalls : c.at = "read" => c.saw = Status(TRUE, service)
ListCurrent ==
  /\ jobs = {} => listed = There
  /\ \A j \in jobs : j.step = "show" => j.saw = There

MonInv == MonTypeOK /\ (unsure \/ (OneAtATime /\ StatusCurrent /\ ListCurrent))

LEMMA StatusType ==
  \A known \in BOOLEAN, s \in [enabled : BOOLEAN, running : BOOLEAN] :
    /\ Status(known, s) \in RcStatus
    /\ \A a \in Actions : After(s, a) \in [enabled : BOOLEAN, running : BOOLEAN]
  BY DEF Status, RcStatus, After

LEMMA MonInitInv == MonInit => MonInv
  <1> SUFFICES ASSUME MonInit PROVE MonInv
    OBVIOUS
  <1>1. MonTypeOK
    BY StatusType DEF MonInit, MonTypeOK
  <1>2. PICK known \in BOOLEAN : rcShown = [known |-> known, enabled |-> service.enabled, running |-> service.running]
    BY DEF MonInit, Status
  <1>3. rcShown.known => rcShown = Status(TRUE, service)
    BY <1>2 DEF Status
  <1>4. OneAtATime /\ StatusCurrent /\ ListCurrent
    BY <1>3 DEF MonInit, OneAtATime, StatusCurrent, ListCurrent, There
  <1> QED
    BY <1>1, <1>4 DEF MonInv

LEMMA PressControlInv == ASSUME MonInv, NEW a \in Actions, PressControl(a) PROVE MonInv'
  <1>1. PICK c : c = [action |-> a, nth |-> pressed', drawn |-> TRUE, at |-> "action", ok |-> TRUE,
                      again |-> FALSE, saw |-> Status(TRUE, service)]
    OBVIOUS
  <1>2. /\ rcCalls' = rcCalls \cup {c} /\ pressed' = pressed + 1 /\ unsure' = (unsure \/ ~Idle)
        /\ service' = service /\ rcShown' = rcShown /\ files' = files /\ listed' = listed /\ jobs' = jobs
    BY <1>1 DEF PressControl, CountPress, fileVars
  <1>3. MonTypeOK'
    <2>1. PICK saw \in RcStatus : saw = Status(TRUE, service)
      BY StatusType DEF MonInv, MonTypeOK
    <2>2. pressed' \in Nat
      BY <1>2 DEF MonInv, MonTypeOK
    <2>3. c = [action |-> a, nth |-> pressed', drawn |-> TRUE, at |-> "action", ok |-> TRUE,
               again |-> FALSE, saw |-> saw]
      BY <1>1, <2>1
    <2>4. c \in RcCall
      BY <2>2, <2>3 DEF RcCall
    <2> QED
      BY <1>2, <2>2, <2>4 DEF MonInv, MonTypeOK
  <1>4. ASSUME ~unsure' PROVE (OneAtATime /\ StatusCurrent /\ ListCurrent)'
    <2>1. rcCalls = {} /\ jobs = {} /\ ListCurrent
      BY <1>2, <1>4 DEF Idle, MonInv
    <2>2. c.at = "action"
      BY <1>1
    <2> QED
      BY <1>2, <2>1, <2>2 DEF OneAtATime, StatusCurrent, ListCurrent, There
  <1> QED
    BY <1>3, <1>4 DEF MonInv

LEMMA RcServedInv ==
  ASSUME MonInv, NEW c \in rcCalls, NEW ok \in BOOLEAN, NEW done \in BOOLEAN, RcServed(c, ok, done)
  PROVE  MonInv'
  <1>1. PICK e : e = [c EXCEPT !.at = IF @ = "action" THEN "acted" ELSE "read", !.ok = ok, !.saw = Status(TRUE, service')]
    OBVIOUS
  <1>2. /\ rcCalls' = (rcCalls \ {c}) \cup {e} /\ c.at \in {"action", "status"}
        /\ service' = (IF c.at = "action" /\ done THEN After(service, c.action) ELSE service)
        /\ rcShown' = rcShown /\ files' = files /\ listed' = listed /\ jobs' = jobs
        /\ pressed' = pressed /\ unsure' = unsure
    BY <1>1 DEF RcServed, fileVars
  <1>3. c \in RcCall /\ service' \in [enabled : BOOLEAN, running : BOOLEAN]
    BY <1>2, StatusType DEF MonInv, MonTypeOK, RcCall
  <1>4. e \in RcCall /\ e.saw = Status(TRUE, service')
    <2>1. PICK saw \in RcStatus : saw = Status(TRUE, service')
      BY <1>3, StatusType
    <2>2. e = [c EXCEPT !.at = IF @ = "action" THEN "acted" ELSE "read", !.ok = ok, !.saw = saw]
      BY <1>1, <2>1
    <2> QED
      BY <1>3, <2>1, <2>2 DEF RcCall
  <1>5. MonTypeOK'
    BY <1>2, <1>3, <1>4 DEF MonInv, MonTypeOK
  <1>6. ASSUME ~unsure PROVE (OneAtATime /\ StatusCurrent /\ ListCurrent)'
    BY <1>2, <1>4, <1>6 DEF MonInv, OneAtATime, StatusCurrent, ListCurrent, There
  <1> QED
    BY <1>2, <1>5, <1>6 DEF MonInv

LEMMA ActedInv == ASSUME MonInv, NEW c \in rcCalls, Acted(c) PROVE MonInv'
  <1>1. PICK e : e = [c EXCEPT !.at = "status", !.again = ~c.ok]
    OBVIOUS
  <1>2. /\ rcCalls' = (rcCalls \ {c}) \cup {e} /\ service' = service
        /\ rcShown' = rcShown /\ files' = files /\ listed' = listed /\ jobs' = jobs
        /\ pressed' = pressed /\ unsure' = unsure
    BY <1>1 DEF Acted, fileVars
  <1>3. e \in RcCall /\ e.at = "status"
    BY <1>1 DEF MonInv, MonTypeOK, RcCall
  <1>4. MonTypeOK'
    BY <1>2, <1>3 DEF MonInv, MonTypeOK
  <1>5. ASSUME ~unsure PROVE (OneAtATime /\ StatusCurrent /\ ListCurrent)'
    BY <1>2, <1>3, <1>5 DEF MonInv, OneAtATime, StatusCurrent, ListCurrent, There
  <1> QED
    BY <1>2, <1>4, <1>5 DEF MonInv

LEMMA StatusReadInv == ASSUME MonInv, NEW c \in rcCalls, StatusRead(c) PROVE MonInv'
  <1>1. /\ rcShown' = (IF c.ok THEN c.saw ELSE rcShown) /\ c.at = "read" /\ c \in RcCall
        /\ unsure' = (unsure \/ (~c.ok /\ c.again))
        /\ service' = service /\ files' = files /\ listed' = listed /\ jobs' = jobs /\ pressed' = pressed
    BY DEF StatusRead, fileVars, MonInv, MonTypeOK
  <1>2. PICK e : e = [c EXCEPT !.at = "status", !.again = TRUE]
    OBVIOUS
  <1>3. e \in RcCall /\ e.at = "status"
    BY <1>1, <1>2 DEF RcCall
  <1>4. ASSUME NEW d \in rcCalls PROVE [d EXCEPT !.drawn = FALSE] \in RcCall
    <2>1. d \in RcCall
      BY DEF MonInv, MonTypeOK
    <2> QED
      BY <2>1 DEF RcCall
  <1>5. rcCalls' = (IF c.ok THEN {[d EXCEPT !.drawn = FALSE] : d \in rcCalls \ {c}} ELSE rcCalls \ {c}) \cup
                   IF c.ok \/ c.again THEN {} ELSE {e}
    BY <1>2 DEF StatusRead
  <1>6. rcCalls' \subseteq RcCall
    BY <1>3, <1>4, <1>5 DEF MonInv, MonTypeOK
  <1>7. MonTypeOK'
    BY <1>1, <1>6 DEF MonInv, MonTypeOK, RcCall
  <1>8. ASSUME ~unsure' PROVE (OneAtATime /\ StatusCurrent /\ ListCurrent)'
    <2>1. rcCalls \ {c} = {} /\ jobs = {} /\ c.saw = Status(TRUE, service) /\ ListCurrent
      BY <1>1, <1>8 DEF MonInv, OneAtATime, StatusCurrent
    <2>2. CASE c.ok
      BY <1>1, <1>5, <2>1, <2>2 DEF OneAtATime, StatusCurrent, ListCurrent, There
    <2>3. CASE ~c.ok
      <3>1. rcCalls' = {e}
        BY <1>1, <1>5, <1>8, <2>1, <2>3
      <3> QED
        BY <1>1, <1>3, <2>1, <2>3, <3>1 DEF OneAtATime, StatusCurrent, ListCurrent, There
    <2> QED
      BY <2>2, <2>3
  <1> QED
    BY <1>7, <1>8 DEF MonInv

\* Upload and Delete start a job.
LEMMA JobStartInv ==
  ASSUME MonInv, NEW s \in Scripts, Upload(s) \/ DeleteScript(s)
  PROVE  MonInv'
  <1>1. PICK j : /\ jobs' = jobs \cup {j} /\ j.step # "show" /\ j \in Job
    <2>1. pressed' \in Nat
      BY DEF Upload, DeleteScript, CountPress, MonInv, MonTypeOK
    <2>2. PICK step \in {"write", "remove"} :
            jobs' = jobs \cup {[script |-> s, nth |-> pressed', step |-> step, saw |-> {}]}
      BY DEF Upload, DeleteScript
    <2>3. [script |-> s, nth |-> pressed', step |-> step, saw |-> {}] \in Job
      BY <2>1 DEF Job
    <2> QED
      BY <2>2, <2>3
  <1>2. /\ pressed' = pressed + 1 /\ unsure' = (unsure \/ ~Idle) /\ files' = files /\ listed' = listed
        /\ service' = service /\ rcShown' = rcShown /\ rcCalls' = rcCalls
    BY DEF Upload, DeleteScript, CountPress, rcVars
  <1>3. MonTypeOK'
    BY <1>1, <1>2 DEF MonInv, MonTypeOK
  <1>4. ASSUME ~unsure' PROVE (OneAtATime /\ StatusCurrent /\ ListCurrent)'
    BY <1>1, <1>2, <1>4 DEF MonInv, Idle, OneAtATime, StatusCurrent, ListCurrent, There
  <1> QED
    BY <1>3, <1>4 DEF MonInv

LEMMA JobStepInv == ASSUME MonInv, NEW j \in jobs, JobStep(j) PROVE MonInv'
  <1>1. j \in Job /\ j.step # "show"
    BY DEF MonInv, MonTypeOK, JobStep
  <1>2. files' \in [Scripts -> {"absent", "plain", "executable"}] /\ (j.step = "list" => files' = files)
    BY <1>1 DEF JobStep, Job, MonInv, MonTypeOK
  <1>3. PICK e : e = [j EXCEPT !.step = CASE @ = "write" -> "chmod" [] @ = "list" -> "show" [] OTHER -> "list",
                               !.saw = IF j.step = "list" THEN Present ELSE @]
    OBVIOUS
  <1>4. /\ jobs' = (jobs \ {j}) \cup {e}
        /\ service' = service /\ rcShown' = rcShown /\ rcCalls' = rcCalls /\ listed' = listed
        /\ pressed' = pressed /\ unsure' = unsure
    BY <1>3 DEF JobStep, rcVars
  <1>5. e \in Job /\ (e.step = "show" => e.saw = There')
    BY <1>1, <1>3 DEF Job, Present, There
  <1>6. MonTypeOK'
    BY <1>2, <1>4, <1>5 DEF MonInv, MonTypeOK
  <1>7. ASSUME ~unsure PROVE (OneAtATime /\ StatusCurrent /\ ListCurrent)'
    BY <1>4, <1>5, <1>7 DEF MonInv, OneAtATime, StatusCurrent, ListCurrent
  <1> QED
    BY <1>4, <1>6, <1>7 DEF MonInv

LEMMA JobEndsInv == ASSUME MonInv, NEW j \in jobs, JobFails(j) \/ ListShown(j) PROVE MonInv'
  <1>1. j \in Job
    BY DEF MonInv, MonTypeOK
  <1>2. CASE JobFails(j)
    <2>1. [j EXCEPT !.step = "show", !.saw = {}] \in Job
      BY <1>1 DEF Job
    <2>2. jobs' \subseteq Job
      BY <1>2, <2>1 DEF JobFails, MonInv, MonTypeOK
    <2> QED
      BY <1>2, <2>2 DEF JobFails, rcVars, MonInv, MonTypeOK
  <1>3. CASE ListShown(j)
    <2>1. MonTypeOK'
      BY <1>1, <1>3 DEF ListShown, rcVars, MonInv, MonTypeOK, Job
    <2>2. ASSUME ~unsure PROVE (OneAtATime /\ StatusCurrent /\ ListCurrent)'
      BY <1>3, <2>2 DEF ListShown, rcVars, MonInv, OneAtATime, StatusCurrent, ListCurrent, There
    <2> QED
      BY <1>3, <2>1, <2>2 DEF ListShown, MonInv
  <1> QED
    BY <1>2, <1>3

LEMMA MonNextInv == MonInv /\ [MonNext]_monVars => MonInv'
  <1> SUFFICES ASSUME MonInv, [MonNext]_monVars PROVE MonInv'
    OBVIOUS
  <1>1. CASE UNCHANGED monVars
    BY <1>1 DEF monVars, rcVars, fileVars, MonInv, MonTypeOK, OneAtATime, StatusCurrent, ListCurrent, There
  <1>2. CASE MonNext
    BY <1>2, PressControlInv, RcServedInv, ActedInv, StatusReadInv, JobStartInv, JobStepInv, JobEndsInv DEF MonNext
  <1> QED
    BY <1>1, <1>2

LEMMA MonTells == MonInv => PageIsCurrent
  BY DEF MonInv, PageIsCurrent, Idle, StatusCurrent, ListCurrent, There

-----------------------------------------------------------------------------
(* The list of modem devices.                                              *)

SetRequest ==
  [kind : Buses \cup {"add", "remove"}, device : Devices \cup {NoDevice}, n : Nat, done : BOOLEAN, ok : BOOLEAN]

\* While calls neither overlapped nor were lost, there is one at a time, and only one that has
\* done its work keeps the list from being that of the configuration.
SetInv ==
  /\ requests \subseteq SetRequest /\ probed \in Nat /\ astray \in BOOLEAN /\ unseen \in BOOLEAN
  /\ ~astray => \A r, q \in requests : r = q
  /\ ~astray /\ ~unseen /\ (\A r \in requests : ~(r.done /\ r.ok)) => tabled = configured

LEMMA SetInitInv == SetInit => SetInv
  <1> SUFFICES ASSUME SetInit PROVE SetInv
    OBVIOUS
  <1>1. requests = {} /\ probed = 0 /\ tabled = configured
    BY DEF SetInit
  <1>2. astray \in BOOLEAN /\ unseen \in BOOLEAN
    BY DEF SetInit
  <1> QED
    BY <1>1, <1>2 DEF SetInv

LEMMA RequestInv ==
  ASSUME SetInv, NEW kind \in Buses \cup {"add", "remove"}, NEW d \in Devices \cup {NoDevice}, Request(kind, d),
         UNCHANGED <<configured, tabled, unseen>>
  PROVE  SetInv'
  <1>1. PICK q : q = [kind |-> kind, device |-> d, n |-> probed', done |-> FALSE, ok |-> FALSE]
    OBVIOUS
  <1>2. /\ probed' = probed + 1 /\ astray' = (astray \/ requests # {}) /\ requests' = requests \cup {q}
    BY <1>1 DEF Request
  <1>3. q \in SetRequest /\ ~q.done
    BY <1>1, <1>2 DEF SetInv, SetRequest
  <1>4. astray' \in BOOLEAN /\ (~astray' => ~astray /\ requests = {})
    BY <1>2 DEF SetInv
  <1>5. requests' \subseteq SetRequest /\ probed' \in Nat /\ unseen' \in BOOLEAN
    BY <1>2, <1>3 DEF SetInv
  <1>6. ~astray' => requests' = {q}
    BY <1>2, <1>4
  <1>7. ~astray' /\ ~unseen' => tabled' = configured'
    BY <1>4 DEF SetInv
  <1> QED
    BY <1>4, <1>5, <1>6, <1>7 DEF SetInv

LEMMA HandledInv ==
  ASSUME SetInv, NEW r \in requests, NEW ok \in BOOLEAN, Handled(r, ok)
  PROVE  SetInv'
  <1>1. PICK q : q = [r EXCEPT !.done = TRUE, !.ok = ok]
    OBVIOUS
  <1>2. /\ requests' = (requests \ {r}) \cup {q} /\ ~r.done
        /\ tabled' = tabled /\ probed' = probed /\ astray' = astray /\ unseen' = unseen
    BY <1>1 DEF Handled, tableVars
  <1>3. q \in SetRequest /\ q.done /\ q.ok = ok
    BY <1>1 DEF SetInv, SetRequest
  <1>4. ~ok => configured' = configured
    BY DEF Handled
  <1> QED
    BY <1>2, <1>3, <1>4 DEF SetInv

\* The page is loaded anew, or goes on without.
LEMMA ListAnsweredInv ==
  ASSUME SetInv, NEW r \in requests, ScanAnswered(r) \/ CallLost(r) \/ DeviceAnswered(r)
  PROVE  SetInv'
  <1>1. CASE Reload /\ UNCHANGED <<configured, probed, astray>>
    BY <1>1 DEF Reload, SetInv
  <1>2. CASE CallLost(r)
    BY <1>2 DEF CallLost, SetInv
  <1>3. CASE /\ ScanAnswered(r) /\ r.ok # (r.kind # "pcie")
    <2>1. /\ requests' = requests \ {r} /\ unseen' = (unseen \/ r.ok)
          /\ tabled' = tabled /\ configured' = configured /\ probed' = probed /\ astray' = astray
      BY <1>3 DEF ScanAnswered, tableVars, SetInv, SetRequest
    <2> QED
      BY <2>1 DEF SetInv
  <1>4. CASE DeviceAnswered(r)
    BY <1>1, <1>4 DEF DeviceAnswered
  <1>5. CASE ScanAnswered(r) /\ r.ok = (r.kind # "pcie")
    BY <1>1, <1>5 DEF ScanAnswered
  <1> QED
    BY <1>2, <1>3, <1>4, <1>5

LEMMA SetNextInv == SetInv /\ [SetNext]_setVars => SetInv'
  <1> SUFFICES ASSUME SetInv, [SetNext]_setVars PROVE SetInv'
    OBVIOUS
  <1>1. CASE \/ \E bus \in Buses : StartScan(bus)
             \/ \E d \in Devices : AddDevice(d) \/ RemoveDevice(d)
    <2>1. PICK k \in Buses \cup {"add", "remove"}, d \in Devices \cup {NoDevice} :
             Request(k, d) /\ UNCHANGED <<configured, tabled, unseen>>
      BY <1>1 DEF StartScan, AddDevice, RemoveDevice, tableVars
    <2> QED
      BY <2>1, RequestInv
  <1>2. CASE AskDevice \/ CancelAdd \/ UNCHANGED setVars
    BY <1>2 DEF AskDevice, CancelAdd, setVars, tableVars, SetInv
  <1>3. CASE \E r \in requests : \/ ScanAnswered(r) \/ CallLost(r) \/ DeviceAnswered(r)
                                 \/ \E ok \in BOOLEAN : Handled(r, ok)
    BY <1>3, HandledInv, ListAnsweredInv
  <1> QED
    BY <1>1, <1>2, <1>3 DEF SetNext

LEMMA SetTells == SetInv => ListIsCurrent
  BY DEF SetInv, ListIsCurrent

-----------------------------------------------------------------------------
(* Forms with options that depend on others.                               *)

\* What is active is what a last look finds, and the look before saw the options that are
\* always there.
LEMMA LastLook ==
  ASSUME NEW table, NEW v
  PROVE  \E A : /\ Active(table, v) = Look(table, v, A)
                /\ \E B : A = Look(table, v, B)
  BY DEF Active

\* An option that is always there is kept as it was filled in.
LEMMA KeptAlways ==
  ASSUME NEW table, NEW v, NEW o \in DOMAIN table, table[o] = Always
  PROVE  Saved(table, v)[o] = v[o]
  <1>1. PICK A : Active(table, v) = Look(table, v, A)
    BY LastLook
  <1> QED
    BY <1>1 DEF Look, Saved

\* An option that depends on others is kept only if an alternative holds, whose options
\* were shown in the look before.
Shown(table, v, k) ==
  /\ k \in DOMAIN table
  /\ \/ table[k] = Always
     \/ \E B : \E e \in table[k] : \A l \in DOMAIN e : (IF l \in B THEN v[l] ELSE Null) \in e[l]

LEMMA KeptDepends ==
  ASSUME NEW table, NEW v, NEW o \in DOMAIN table, table[o] # Always, Saved(table, v)[o] # ""
  PROVE  /\ Saved(table, v)[o] = v[o]
         /\ \E d \in table[o] : \A k \in DOMAIN d : Null \in d[k] \/ (v[k] \in d[k] /\ Shown(table, v, k))
  <1>1. PICK A : Active(table, v) = Look(table, v, A) /\ \E B : A = Look(table, v, B)
    BY LastLook
  <1>2. PICK B : A = Look(table, v, B)
    BY <1>1
  <1>3. o \in Active(table, v) /\ Saved(table, v)[o] = v[o]
    BY DEF Saved
  <1>4. PICK d \in table[o] : \A k \in DOMAIN d : (IF k \in A THEN v[k] ELSE Null) \in d[k]
    BY <1>1, <1>3 DEF Look
  <1>5. \A k \in A : Shown(table, v, k)
    BY <1>2 DEF Look, Shown
  <1> QED
    BY <1>3, <1>4, <1>5

\* One alternative that looks at one option.
LEMMA OnOne ==
  ASSUME NEW table, NEW v, NEW o \in DOMAIN table, NEW k, NEW V, table[o] = {On(k, V)}, Null \notin V,
         Saved(table, v)[o] # ""
  PROVE  k \in DOMAIN table /\ v[k] \in V
  <1>1. table[o] # Always
    BY DEF Always
  <1>2. DOMAIN On(k, V) = {k} /\ On(k, V)[k] = V
    BY DEF On
  <1>3. PICK d \in table[o] : \A l \in DOMAIN d : Null \in d[l] \/ (v[l] \in d[l] /\ Shown(table, v, l))
    BY <1>1, KeptDepends
  <1>4. d = On(k, V)
    OBVIOUS
  <1> QED
    BY <1>2, <1>3, <1>4 DEF Shown

\* And one that looks at an option that is always there, and holds.
LEMMA OnShown ==
  ASSUME NEW table, NEW v, NEW o \in DOMAIN table, NEW k \in DOMAIN table, table[k] = Always,
         NEW V, table[o] = {On(k, V)}, v[k] \in V
  PROVE  Saved(table, v)[o] = v[o]
  <1>1. PICK A : Active(table, v) = Look(table, v, A) /\ \E B : A = Look(table, v, B)
    BY LastLook
  <1>2. k \in A
    BY <1>1 DEF Look
  <1>3. DOMAIN On(k, V) = {k} /\ On(k, V)[k] = V /\ On(k, V) \in table[o]
    BY DEF On
  <1>4. o \in Look(table, v, A)
    BY <1>2, <1>3 DEF Look
  <1> QED
    BY <1>1, <1>4 DEF Saved

-----------------------------------------------------------------------------
(* The forms of a modem's monitor, of a slot and of the dial options.      *)

LEMMA MonitorKeeps ==
  ASSUME NEW v, NEW c, c = Saved(MonitorTable, v)
  PROVE  /\ c["monitor_ping_dest"] # "" => c["monitor_method"] = "ping" /\ c["monitor_ping_type"] = "ip"
         /\ c["monitor_ping_ip_version"] # "" =>
              c["monitor_method"] = "ping" /\ c["monitor_ping_type"] \in {"gateway", "dns"}
         /\ c["monitor_http_url"] # "" => c["monitor_method"] = "curl"
  <1> DEFINE method == "monitor_method"
             type == "monitor_ping_type"
  <1>1. /\ {method, type, "monitor_ping_dest", "monitor_ping_ip_version", "monitor_http_url"} \subseteq DOMAIN MonitorTable
        /\ MonitorTable[method] = Always /\ MonitorTable[type] = {On(method, Ping)}
        /\ MonitorTable["monitor_ping_dest"] = {On2(method, Ping, type, {"ip"})}
        /\ MonitorTable["monitor_ping_ip_version"] = {On2(method, Ping, type, {"gateway", "dns"})}
        /\ MonitorTable["monitor_http_url"] = {On(method, {"curl"})}
    BY DEF MonitorTable
  <1>2. c[method] = v[method]
    BY <1>1, KeptAlways
  <1>3. v[method] \in Ping => c[type] = v[type]
    BY <1>1, OnShown
  <1>4. Null \notin Ping /\ Null \notin {"ip"} /\ Null \notin {"gateway", "dns"} /\ Null \notin {"curl"} /\ method # type
    BY DEF Null, Ping
  <1> HIDE DEF method, type
  <1>5. ASSUME c["monitor_ping_dest"] # "" PROVE v[method] \in Ping /\ v[type] \in {"ip"}
    <2> DEFINE o == "monitor_ping_dest"
               W == {"ip"}
    <2>1. /\ o \in DOMAIN MonitorTable /\ MonitorTable[o] = {On2(method, Ping, type, W)}
          /\ Null \notin Ping /\ Null \notin W /\ method # type /\ Saved(MonitorTable, v)[o] # ""
      BY <1>1, <1>4, <1>5
    <2> HIDE DEF o, W
    <2>2. v[method] \in Ping /\ v[type] \in W
      <3>1. MonitorTable[o] # Always
        BY <2>1 DEF Always
      <3>2. PICK d \in MonitorTable[o] :
              \A m \in DOMAIN d : Null \in d[m] \/ (v[m] \in d[m] /\ Shown(MonitorTable, v, m))
        BY <2>1, <3>1, KeptDepends
      <3>3. d = On2(method, Ping, type, W)
        BY <2>1
      <3>4. DOMAIN d = {method, type} /\ d[method] = Ping /\ d[type] = W
        <4>1. method # type
          BY <2>1
        <4> QED
          BY <3>3, <4>1 DEF On2
      <3> QED
        BY <2>1, <3>2, <3>4
    <2> QED
      BY <2>2 DEF W
  <1>6. ASSUME c["monitor_ping_ip_version"] # "" PROVE v[method] \in Ping /\ v[type] \in {"gateway", "dns"}
    <2> DEFINE o == "monitor_ping_ip_version"
               W == {"gateway", "dns"}
    <2>1. /\ o \in DOMAIN MonitorTable /\ MonitorTable[o] = {On2(method, Ping, type, W)}
          /\ Null \notin Ping /\ Null \notin W /\ method # type /\ Saved(MonitorTable, v)[o] # ""
      BY <1>1, <1>4, <1>6
    <2> HIDE DEF o, W
    <2>2. v[method] \in Ping /\ v[type] \in W
      <3>1. MonitorTable[o] # Always
        BY <2>1 DEF Always
      <3>2. PICK d \in MonitorTable[o] :
              \A m \in DOMAIN d : Null \in d[m] \/ (v[m] \in d[m] /\ Shown(MonitorTable, v, m))
        BY <2>1, <3>1, KeptDepends
      <3>3. d = On2(method, Ping, type, W)
        BY <2>1
      <3>4. DOMAIN d = {method, type} /\ d[method] = Ping /\ d[type] = W
        <4>1. method # type
          BY <2>1
        <4> QED
          BY <3>3, <4>1 DEF On2
      <3> QED
        BY <2>1, <3>2, <3>4
    <2> QED
      BY <2>2 DEF W
  <1>7. ASSUME c["monitor_http_url"] # "" PROVE v[method] \in {"curl"}
    <2> DEFINE o == "monitor_http_url"
               V == {"curl"}
    <2>1. /\ o \in DOMAIN MonitorTable /\ MonitorTable[o] = {On(method, V)}
          /\ Null \notin V /\ Saved(MonitorTable, v)[o] # ""
      BY <1>1, <1>4, <1>7
    <2> HIDE DEF o, V
    <2>2. v[method] \in V
      BY <2>1, OnOne
    <2> QED
      BY <2>2 DEF V
  <1> QED
    BY <1>2, <1>3, <1>5, <1>6, <1>7 DEF Ping, method, type

LEMMA FormInitInv == FormInit => OneTarget
  BY DEF FormInit, OneTarget

LEMMA FormNextInv == OneTarget /\ [FormNext]_monitorCfg => OneTarget'
  <1> SUFFICES ASSUME OneTarget, [FormNext]_monitorCfg PROVE OneTarget'
    OBVIOUS
  <1>1. CASE UNCHANGED monitorCfg
    BY <1>1 DEF OneTarget
  <1>2. ASSUME NEW v \in MonitorValues, SaveModem(v) PROVE OneTarget'
    BY <1>2, MonitorKeeps DEF SaveModem, OneTarget
  <1> QED
    BY <1>1, <1>2 DEF FormNext

LEMMA FormsInitInv == FormsInit => NothingLeftBehind
  BY DEF FormsInit, NothingLeftBehind

LEMMA FormsNextInv == NothingLeftBehind /\ [FormsNext]_<<form, stored>> => NothingLeftBehind'
  <1> SUFFICES ASSUME NothingLeftBehind, [FormsNext]_<<form, stored>> PROVE NothingLeftBehind'
    OBVIOUS
  <1>1. CASE UNCHANGED <<form, stored>>
    BY <1>1 DEF NothingLeftBehind
  <1>2. ASSUME NEW f \in DOMAIN Tables, SaveForms(f) PROVE NothingLeftBehind'
    <2>1. PICK v : form' = f /\ stored' = Saved(Tables[f], v)
      BY <1>2 DEF SaveForms
    <2>2. CASE f = "slot"
      <3>1. Tables[f] = SlotTable
        BY <2>2 DEF Tables
      <3>2. /\ {"gpio", "type", "gpio_up", "gpio_down", "associated_usb"} = DOMAIN SlotTable
            /\ SlotTable["gpio"] = Always /\ SlotTable["type"] = Always
            /\ SlotTable["gpio_up"] = {On("gpio", {"pin"})} /\ SlotTable["gpio_down"] = {On("gpio", {"pin"})}
            /\ SlotTable["associated_usb"] = {On("type", {"pcie"})}
        BY DEF SlotTable
      <3> DEFINE c == Saved(SlotTable, v)
      <3>3. c["gpio"] = v["gpio"] /\ c["type"] = v["type"]
        BY <3>2, KeptAlways
      <3>4. Null \notin {"pin"} /\ Null \notin {"pcie"}
        BY DEF Null
      <3>5. c["gpio_up"] # "" => v["gpio"] \in {"pin"}
        <4> SUFFICES ASSUME c["gpio_up"] # "" PROVE v["gpio"] \in {"pin"}
          OBVIOUS
        <4>1. "gpio_up" \in DOMAIN SlotTable /\ SlotTable["gpio_up"] = {On("gpio", {"pin"})} /\ Null \notin {"pin"}
          BY <3>2, <3>4
        <4> HIDE DEF c
        <4>2. Saved(SlotTable, v)["gpio_up"] # ""
          BY DEF c
        <4> QED
          BY <4>1, <4>2, OnOne
      <3>6. c["gpio_down"] # "" => v["gpio"] \in {"pin"}
        <4> SUFFICES ASSUME c["gpio_down"] # "" PROVE v["gpio"] \in {"pin"}
          OBVIOUS
        <4>1. "gpio_down" \in DOMAIN SlotTable /\ SlotTable["gpio_down"] = {On("gpio", {"pin"})} /\ Null \notin {"pin"}
          BY <3>2, <3>4
        <4> HIDE DEF c
        <4>2. Saved(SlotTable, v)["gpio_down"] # ""
          BY DEF c
        <4> QED
          BY <4>1, <4>2, OnOne
      <3>7. c["associated_usb"] # "" => v["type"] \in {"pcie"}
        <4> SUFFICES ASSUME c["associated_usb"] # "" PROVE v["type"] \in {"pcie"}
          OBVIOUS
        <4>1. /\ "associated_usb" \in DOMAIN SlotTable /\ Null \notin {"pcie"}
              /\ SlotTable["associated_usb"] = {On("type", {"pcie"})}
          BY <3>2, <3>4
        <4> HIDE DEF c
        <4>2. Saved(SlotTable, v)["associated_usb"] # ""
          BY DEF c
        <4> QED
          BY <4>1, <4>2, OnOne
      <3> QED
        BY <2>1, <2>2, <3>1, <3>3, <3>5, <3>6, <3>7 DEF NothingLeftBehind
    <2>3. CASE f = "dial"
      <3> DEFINE V == {"both", "pap", "chap", "MsChapV2"}
      <3>1. Tables[f] = DialTable
        BY <2>3 DEF Tables
      <3>2. /\ {"auth", "username", "password"} = DOMAIN DialTable
            /\ DialTable["auth"] = Always
            /\ DialTable["username"] = {On("auth", V)}
            /\ DialTable["password"] = {On("auth", V)}
        BY DEF DialTable, Credentials
      <3> DEFINE c == Saved(DialTable, v)
      <3>3. c["auth"] = v["auth"]
        BY <3>2, KeptAlways
      <3>4. Null \notin V
        BY DEF Null
      <3> HIDE DEF V
      <3>5. c["username"] # "" => v["auth"] \in V
        <4> SUFFICES ASSUME c["username"] # "" PROVE v["auth"] \in V
          OBVIOUS
        <4>1. "username" \in DOMAIN DialTable /\ DialTable["username"] = {On("auth", V)} /\ Null \notin V
          BY <3>2, <3>4
        <4> HIDE DEF c
        <4>2. Saved(DialTable, v)["username"] # ""
          BY DEF c
        <4> QED
          BY <4>1, <4>2, OnOne
      <3>6. c["password"] # "" => v["auth"] \in V
        <4> SUFFICES ASSUME c["password"] # "" PROVE v["auth"] \in V
          OBVIOUS
        <4>1. "password" \in DOMAIN DialTable /\ DialTable["password"] = {On("auth", V)} /\ Null \notin V
          BY <3>2, <3>4
        <4> HIDE DEF c
        <4>2. Saved(DialTable, v)["password"] # ""
          BY DEF c
        <4> QED
          BY <4>1, <4>2, OnOne
      <3>7. "none" \notin V
        BY DEF V
      <3> QED
        BY <2>1, <2>3, <3>1, <3>3, <3>5, <3>6, <3>7 DEF NothingLeftBehind
    <2> QED
      BY <2>1, <2>2, <2>3 DEF NothingLeftBehind
  <1> QED
    BY <1>1, <1>2 DEF FormsNext

-----------------------------------------------------------------------------
(* The settings of forwarding.                                             *)

FwKeys == UNION {Required[t] \cup Optional[t] : t \in ApiTypes}
OfOneService(config) ==
  \E t \in ApiTypes : Required[t] \subseteq config /\ config \subseteq Required[t] \cup Optional[t]

\* The window that is open is of an instance, with fields of the service it shows.
FwInv ==
  /\ fwType \in [Instances -> ApiTypes \cup {""}]
  /\ fwConfig \in [Instances -> SUBSET FwKeys]
  /\ fwModal.open => /\ fwModal.of \in Instances /\ fwModal.type \in ApiTypes
  /\ \A i \in Instances : fwConfig[i] # {} => OfOneService(fwConfig[i])

LEMMA FwInitInv == FwInit => FwInv
  <1> SUFFICES ASSUME FwInit PROVE FwInv
    OBVIOUS
  <1>1. ~fwModal.open /\ \A i \in Instances : fwConfig[i] = {}
    BY DEF FwInit, Closed
  <1>2. fwType \in [Instances -> ApiTypes \cup {""}] /\ fwConfig \in [Instances -> SUBSET FwKeys]
    BY DEF FwInit
  <1> QED
    BY <1>1, <1>2 DEF FwInv

LEMMA FwNextInv == FwInv /\ [FwNext]_fwVars => FwInv'
  <1> SUFFICES ASSUME FwInv, [FwNext]_fwVars PROVE FwInv'
    OBVIOUS
  <1>1. CASE UNCHANGED fwVars
    BY <1>1 DEF fwVars, FwInv
  <1>2. ASSUME NEW i \in Instances, ShowConfigModal(i) PROVE FwInv'
    <2>1. "webhook" \in ApiTypes
      BY DEF ApiTypes, Required
    <2>2. \E t \in ApiTypes : \E filled : fwModal' = [open |-> TRUE, of |-> i, type |-> t, filled |-> filled]
      BY <1>2, <2>1 DEF ShowConfigModal, FwInv
    <2>3. fwModal'.of = i /\ fwModal'.type \in ApiTypes
      BY <2>2
    <2> QED
      BY <1>2, <2>3 DEF ShowConfigModal, FwInv
  <1>3. ASSUME NEW i \in Instances, NEW t \in ApiTypes, ChangeType(i, t) PROVE FwInv'
    BY <1>3 DEF ChangeType, FwInv
  <1>4. ASSUME NEW k, EditField(k) PROVE FwInv'
    <2>1. PICK filled : fwModal' = [fwModal EXCEPT !.filled = filled]
      BY <1>4 DEF EditField
    <2>2. fwModal'.open = fwModal.open /\ fwModal'.of = fwModal.of /\ fwModal'.type = fwModal.type
      BY <2>1
    <2> QED
      BY <1>4, <2>2 DEF EditField, FwInv
  <1>5. CASE CancelConfig
    BY <1>5 DEF CancelConfig, Closed, FwInv
  <1>6. CASE SaveApiConfig
    <2>1. fwModal.of \in Instances /\ fwModal.type \in ApiTypes
      BY <1>6 DEF SaveApiConfig, FwInv
    <2>2. PICK config : config = Required[fwModal.type] \cup (fwModal.filled \cap Optional[fwModal.type])
      OBVIOUS
    <2>3. OfOneService(config) /\ config \in SUBSET FwKeys
      BY <2>1, <2>2 DEF OfOneService, FwKeys
    <2>4. fwConfig' = [fwConfig EXCEPT ![fwModal.of] = config] /\ fwModal' = Closed /\ fwType' = fwType
      BY <1>6, <2>2 DEF SaveApiConfig
    <2> QED
      BY <2>1, <2>3, <2>4 DEF FwInv, Closed
  <1> QED
    BY <1>1, <1>2, <1>3, <1>4, <1>5, <1>6 DEF FwNext

LEMMA FwTells == FwInv => ConfigOfOneService
  BY DEF FwInv, ConfigOfOneService, OfOneService

\* A position among K is told by how many of K are up to it.
LEMMA RanksTell ==
  ASSUME NEW K, IsFiniteSet(K), K \subseteq Nat, NEW n \in 1..Cardinality(K)
  PROVE  \E k \in K : Cardinality({j \in K : j <= k}) = n
  <1> DEFINE Upto(k) == {j \in K : j <= k}
             rank == [k \in K |-> Cardinality(Upto(k))]
  <1>1. \A k \in K : IsFiniteSet(Upto(k)) /\ Cardinality(Upto(k)) \in 1..Cardinality(K)
    <2> SUFFICES ASSUME NEW k \in K
                 PROVE  IsFiniteSet(Upto(k)) /\ Cardinality(Upto(k)) \in 1..Cardinality(K)
      OBVIOUS
    <2>1. Upto(k) \in SUBSET K /\ k \in Upto(k)
      OBVIOUS
    <2>2. IsFiniteSet(Upto(k)) /\ Cardinality(Upto(k)) <= Cardinality(K)
      BY <2>1, FS_Subset
    <2>3. Cardinality(Upto(k)) \in Nat /\ Cardinality(K) \in Nat
      BY <2>2, FS_CardinalityType
    <2>4. Cardinality(Upto(k)) # 0
      BY <2>1, <2>2, FS_EmptySet
    <2> QED
      BY <2>2, <2>3, <2>4
  <1>2. \A k, l \in K : k < l => rank[k] # rank[l]
    <2> SUFFICES ASSUME NEW k \in K, NEW l \in K, k < l, rank[k] = rank[l]
                 PROVE  FALSE
      OBVIOUS
    <2>0. k \in Nat /\ l \in Nat /\ \A j \in K : j \in Nat /\ (j <= k => j <= l)
      <3> HIDE DEF Upto, rank
      <3> QED
        OBVIOUS
    <2>1. Upto(k) \in SUBSET Upto(l)
      BY <2>0
    <2>2. Cardinality(Upto(k)) = Cardinality(Upto(l))
      OBVIOUS
    <2>3. Upto(l) = Upto(k)
      BY <1>1, <2>1, <2>2, FS_Subset
    <2> QED
      BY <2>0, <2>3
  <1>3. rank \in Injection(K, 1..Cardinality(K))
    <2>1. rank \in [K -> 1..Cardinality(K)]
      BY <1>1
    <2>2. \A k, l \in K : rank[k] = rank[l] => k = l
      <3> HIDE DEF rank
      <3> QED
        BY <1>2
    <2> HIDE DEF rank
    <2> QED
      BY <2>1, <2>2 DEF Injection, IsInjective
  <1>4. Cardinality(K) \in Nat
    BY FS_CardinalityType
  <1>5. IsFiniteSet(1..Cardinality(K)) /\ Cardinality(1..Cardinality(K)) = Cardinality(K)
    BY <1>4, FS_Interval
  <1>6. rank \in Surjection(K, 1..Cardinality(K))
    <2> HIDE DEF rank
    <2> QED
      BY <1>3, <1>5, FS_Injection
  <1>7. PICK k \in K : rank[k] = n
    <2> HIDE DEF rank
    <2> QED
      BY <1>6 DEF Surjection
  <1> QED
    BY <1>7

\* What Picked takes from a sequence is at positions of K, each taken once, in their order.
TakesOnce(s, K, at) ==
  /\ at \in [1..Cardinality(K) -> K]
  /\ Picked(s, K) = [n \in 1..Cardinality(K) |-> s[at[n]]]
  /\ \A m, n \in 1..Cardinality(K) : m < n => at[m] < at[n]

LEMMA PickedIs ==
  ASSUME NEW s, NEW K, IsFiniteSet(K), K \subseteq Nat
  PROVE  \E at : TakesOnce(s, K, at)
  <1> DEFINE Rank(k) == Cardinality({j \in K : j <= k})
             at == [n \in 1..Cardinality(K) |-> CHOOSE k \in K : Rank(k) = n]
  <1>1. \A n \in 1..Cardinality(K) : at[n] \in K /\ Rank(at[n]) = n
    <2> SUFFICES ASSUME NEW n \in 1..Cardinality(K) PROVE at[n] \in K /\ Rank(at[n]) = n
      OBVIOUS
    <2>1. \E k \in K : Rank(k) = n
      BY RanksTell
    <2> HIDE DEF Rank
    <2> QED
      BY <2>1
  <1>2. Picked(s, K) = [n \in 1..Cardinality(K) |-> s[at[n]]]
    BY DEF Picked
  <1>3. at \in [1..Cardinality(K) -> K]
    <2> HIDE DEF Rank
    <2> QED
      BY <1>1
  <1>4. ASSUME NEW m \in 1..Cardinality(K), NEW n \in 1..Cardinality(K), m < n
        PROVE  at[m] < at[n]
    <2> DEFINE a == at[m]
               b == at[n]
               Upto(k) == {j \in K : j <= k}
    <2>0. Cardinality(K) \in Nat
      BY FS_CardinalityType
    <2>1. a \in K /\ b \in K /\ Rank(a) = m /\ Rank(b) = n /\ m \in Nat /\ n \in Nat
      <3> HIDE DEF Rank, at
      <3> QED
        BY <1>1, <2>0
    <2> HIDE DEF at, a, b
    <2>2. Upto(a) \in SUBSET K
      OBVIOUS
    <2>3. IsFiniteSet(Upto(a))
      BY <2>2, FS_Subset
    <2>4. ASSUME b <= a PROVE FALSE
      <3>1. Upto(b) \in SUBSET Upto(a)
        <4>1. a \in Nat /\ b \in Nat /\ \A j \in K : j \in Nat
          BY <2>1
        <4>2. \A j \in K : j <= b => j <= a
          <5> HIDE DEF Rank, Upto
          <5> QED
            BY <2>4, <4>1
        <4> QED
          BY <4>2
      <3>2. Cardinality(Upto(b)) <= Cardinality(Upto(a))
        BY <2>3, <3>1, FS_Subset
      <3>3. Cardinality(Upto(b)) = n /\ Cardinality(Upto(a)) = m
        BY <2>1
      <3> QED
        BY <1>4, <2>1, <3>2, <3>3
    <2>5. a < b
      <3>1. a \in Nat /\ b \in Nat
        BY <2>1
      <3> QED
        BY <2>4, <3>1
    <2> QED
      BY <2>5 DEF a, b
  <1>5. TakesOnce(s, K, at)
    <2> HIDE DEF at
    <2> QED
      BY <1>2, <1>3, <1>4 DEF TakesOnce
  <1> QED
    BY <1>5

\* So a sequence without repetitions stays one.
LEMMA PickedSeq ==
  ASSUME NEW T, NEW s \in Seq(T), NEW K \in SUBSET DOMAIN s
  PROVE  /\ Picked(s, K) \in Seq(T)
         /\ \A n \in DOMAIN Picked(s, K) : \E k \in K : Picked(s, K)[n] = s[k]
         /\ (\A i, j \in K : i # j => s[i] # s[j]) =>
              \A m, n \in DOMAIN Picked(s, K) : m # n => Picked(s, K)[m] # Picked(s, K)[n]
  <1>1. IsFiniteSet(K) /\ K \subseteq Nat /\ Cardinality(K) \in Nat
    <2>1. DOMAIN s = 1..Len(s) /\ Len(s) \in Nat
      OBVIOUS
    <2>2. IsFiniteSet(1..Len(s))
      BY <2>1, FS_Interval
    <2>3. IsFiniteSet(K)
      BY <2>1, <2>2, FS_Subset
    <2> QED
      BY <2>1, <2>3, FS_CardinalityType
  <1>2. PICK at : TakesOnce(s, K, at)
    BY <1>1, PickedIs
  <1>3. DOMAIN Picked(s, K) = 1..Cardinality(K)
    BY <1>2 DEF TakesOnce
  <1>4. \A n \in 1..Cardinality(K) : at[n] \in K /\ Picked(s, K)[n] = s[at[n]] /\ s[at[n]] \in T
    BY <1>2 DEF TakesOnce
  <1>5. Picked(s, K) \in [1..Cardinality(K) -> T]
    BY <1>2, <1>4 DEF TakesOnce
  <1>6. Picked(s, K) \in Seq(T)
    BY <1>1, <1>5
  <1>7. \A n \in DOMAIN Picked(s, K) : \E k \in K : Picked(s, K)[n] = s[k]
    BY <1>3, <1>4
  <1>8. ASSUME \A i, j \in K : i # j => s[i] # s[j],
               NEW m \in 1..Cardinality(K), NEW n \in 1..Cardinality(K), m # n
        PROVE  Picked(s, K)[m] # Picked(s, K)[n]
    <2>1. m < n \/ n < m
      BY <1>1, <1>8
    <2>2. at[m] # at[n]
      BY <1>1, <1>2, <1>4, <2>1 DEF TakesOnce
    <2> QED
      BY <1>4, <1>8, <2>2
  <1> QED
    BY <1>3, <1>6, <1>7, <1>8

\* Seqs!SetToSeq lists a finite set, each element once.
LEMMA ListsOnce ==
  ASSUME NEW S, IsFiniteSet(S)
  PROVE  /\ Seqs!SetToSeq(S) \in Seq(S)
         /\ \A i, j \in DOMAIN Seqs!SetToSeq(S) : i # j => Seqs!SetToSeq(S)[i] # Seqs!SetToSeq(S)[j]
  <1>1. Cardinality(S) \in Nat /\ ExistsBijection(1..Cardinality(S), S)
    BY FS_CardinalityType
  <1>2. PICK f : f \in Bijection(1..Cardinality(S), S)
    BY <1>1 DEF ExistsBijection
  <1>3. f \in [1..Cardinality(S) -> S] /\ \A i, j \in 1..Cardinality(S) : f[i] = f[j] => i = j
    BY <1>2 DEF Bijection, Injection, IsInjective
  <1>4. Seqs!IsInjective(f)
    BY <1>3 DEF Seqs!IsInjective
  <1> DEFINE g == Seqs!SetToSeq(S)
  <1>9. Seqs!Cardinality(S) = Cardinality(S)
    BY Zenon DEF Seqs!Cardinality, Cardinality
  <1>5. g \in [1..Cardinality(S) -> S] /\ Seqs!IsInjective(g)
    BY <1>3, <1>4, <1>9 DEF Seqs!SetToSeq
  <1> HIDE DEF g
  <1>6. g \in Seq(S) /\ DOMAIN g = 1..Cardinality(S)
    BY <1>1, <1>5
  <1>7. \A i, j \in DOMAIN g : i # j => g[i] # g[j]
    BY <1>5 DEF Seqs!IsInjective
  <1> QED
    BY <1>6, <1>7 DEF g

-----------------------------------------------------------------------------
(* The overview.                                                           *)

NoneTwice(s) == \A i, j \in DOMAIN s : i # j => s[i] # s[j]

LEMMA OrderedIs ==
  ASSUME NEW T, NEW saved \in Seq(T), NEW grouped, IsFiniteSet(Keys(grouped))
  PROVE  Ordered(saved, grouped) \in Seq(Keys(grouped)) /\ NoneTwice(Ordered(saved, grouped))
  <1> DEFINE named == {i \in DOMAIN saved : saved[i] \in Keys(grouped)
                                            /\ \A j \in 1..(i - 1) : saved[j] # saved[i]}
             rest == Keys(grouped) \ {saved[i] : i \in named}
             first == Picked(saved, named)
             last == Seqs!SetToSeq(rest)
  <1>1. Ordered(saved, grouped) = first \o last
    BY DEF Ordered
  <1>2. named \in SUBSET DOMAIN saved
    OBVIOUS
  <1>3. /\ first \in Seq(T)
        /\ \A n \in DOMAIN first : \E k \in named : first[n] = saved[k]
        /\ (\A i, j \in named : i # j => saved[i] # saved[j]) =>
             \A m, n \in DOMAIN first : m # n => first[m] # first[n]
    <2> HIDE DEF named
    <2> QED
      BY <1>2, PickedSeq
  <1>4. \A i, j \in named : i # j => saved[i] # saved[j]
    <2> SUFFICES ASSUME NEW i \in named, NEW j \in named, i < j PROVE saved[i] # saved[j]
      OBVIOUS
    <2>1. i \in 1..(j - 1)
      OBVIOUS
    <2> QED
      BY <2>1
  <1>5. rest \in SUBSET Keys(grouped)
    OBVIOUS
  <1>6. IsFiniteSet(rest)
    <2> HIDE DEF rest
    <2> QED
      BY <1>5, FS_Subset
  <1>7. last \in Seq(rest) /\ NoneTwice(last)
    <2> HIDE DEF rest
    <2> QED
      BY <1>6, ListsOnce DEF NoneTwice
  <1>8. /\ \A n \in DOMAIN first : first[n] \in Keys(grouped) \ rest
        /\ \A n \in DOMAIN last : last[n] \in rest
    <2>1. \A k \in named : saved[k] \in Keys(grouped) \ rest
      OBVIOUS
    <2>2. \A n \in DOMAIN last : last[n] \in rest
      <3> HIDE DEF rest, last
      <3> QED
        BY <1>7
    <2> HIDE DEF named, first, last, rest
    <2> QED
      BY <1>3, <2>1, <2>2
  <1> HIDE DEF named, first, last, rest
  <1>9. DOMAIN first = 1..Len(first) /\ DOMAIN last = 1..Len(last) /\ Len(first) \in Nat /\ Len(last) \in Nat
    BY <1>3, <1>7
  <1>10. first \in Seq(Keys(grouped)) /\ last \in Seq(Keys(grouped))
    BY <1>3, <1>5, <1>7, <1>8, <1>9
  <1>11. first \o last \in Seq(Keys(grouped))
    BY <1>10
  <1>12. NoneTwice(first \o last)
    <2>1. /\ DOMAIN (first \o last) = 1..(Len(first) + Len(last))
          /\ \A n \in 1..(Len(first) + Len(last)) :
               (first \o last)[n] = IF n <= Len(first) THEN first[n] ELSE last[n - Len(first)]
      BY <1>10
    <2> SUFFICES ASSUME NEW m \in 1..(Len(first) + Len(last)), NEW n \in 1..(Len(first) + Len(last)), m < n
                 PROVE  (first \o last)[m] # (first \o last)[n]
      BY <2>1, <1>9 DEF NoneTwice
    <2>2. CASE n <= Len(first)
      <3>1. m \in DOMAIN first /\ n \in DOMAIN first
        BY <2>2, <1>9
      <3> QED
        BY <2>1, <2>2, <3>1, <1>3, <1>4, <1>9
    <2>3. CASE m <= Len(first) /\ n > Len(first)
      <3>1. m \in DOMAIN first /\ n - Len(first) \in DOMAIN last
        BY <2>3, <1>9
      <3> QED
        BY <2>1, <2>3, <3>1, <1>8, <1>9
    <2>4. CASE m > Len(first)
      <3>1. m - Len(first) \in DOMAIN last /\ n - Len(first) \in DOMAIN last /\ m - Len(first) # n - Len(first)
        BY <2>4, <1>9
      <3>2. last[m - Len(first)] # last[n - Len(first)]
        BY <3>1, <1>7 DEF NoneTwice
      <3> QED
        BY <2>1, <2>4, <3>2, <1>9
    <2> QED
      BY <2>2, <2>3, <2>4, <1>9
  <1> QED
    BY <1>1, <1>11, <1>12

LEMMA FreshIs ==
  ASSUME NEW T, NEW saved \in Seq(T), NEW grouped, NEW map, IsFiniteSet(Keys(grouped))
  PROVE  /\ Fresh(saved, grouped, map) \in Seq(Keys(grouped) \ Keys(map))
         /\ NoneTwice(Fresh(saved, grouped, map))
  <1> DEFINE order == Ordered(saved, grouped)
             new == {i \in DOMAIN order : order[i] \notin Keys(map)}
             fresh == Picked(order, new)
  <1>1. order \in Seq(Keys(grouped)) /\ NoneTwice(order)
    BY OrderedIs
  <1>2. Fresh(saved, grouped, map) = fresh
    BY DEF Fresh
  <1>3. new \in SUBSET DOMAIN order /\ \A k \in new : order[k] \notin Keys(map) /\ k \in DOMAIN order
    OBVIOUS
  <1> HIDE DEF new, order
  <1>4. /\ fresh \in Seq(Keys(grouped))
        /\ \A n \in DOMAIN fresh : \E k \in new : fresh[n] = order[k]
        /\ (\A i, j \in new : i # j => order[i] # order[j]) =>
             \A m, n \in DOMAIN fresh : m # n => fresh[m] # fresh[n]
    BY <1>1, <1>3, PickedSeq
  <1> HIDE DEF fresh
  <1>5. NoneTwice(fresh)
    BY <1>1, <1>3, <1>4 DEF NoneTwice
  <1>6. /\ DOMAIN fresh = 1..Len(fresh) /\ Len(fresh) \in Nat
        /\ \A n \in DOMAIN fresh : fresh[n] \in Keys(grouped) \ Keys(map)
    BY <1>3, <1>4
  <1>7. fresh \in Seq(Keys(grouped) \ Keys(map))
    BY <1>4, <1>6
  <1> QED
    BY <1>2, <1>5, <1>7

OvRows == UNION {[C -> Seq({"text", "hidden", "bar"})] : C \in SUBSET OvClasses}
OvMap == [modem : OvModems, rows : OvRows]
OvTable == [class : OvClasses, gen : Nat, shut : BOOLEAN]

OvShape ==
  /\ ovMaps \in Seq(OvMap)
  /\ ovBox \in [spinner : BOOLEAN, alert : BOOLEAN, tables : Seq(OvTable)]
  /\ ovStore.order \in [OvModems -> Seq({Title(c) : c \in OvClasses})]
  /\ ovStore = [order |-> ovStore.order, shut |-> ovStore.shut]
  /\ Gen > 0 /\ ovMaps[Gen].modem = ovChosen

\* The tables a container holds when the maps are those given.
TablesOf(tables, maps) ==
  /\ \A i \in DOMAIN tables : tables[i].gen \in 1..Len(maps)
                              /\ tables[i].class \in Keys(maps[tables[i].gen].rows)
  /\ \A i, j \in DOMAIN tables :
       i # j => <<tables[i].class, tables[i].gen>> # <<tables[j].class, tables[j].gen>>

OvInv == OvShape /\ TablesOf(ovBox.tables, ovMaps) /\ OverviewIsLive

LEMMA NewMapIs == ASSUME NEW m \in OvModems
  PROVE NewMap(m) \in OvMap /\ NewMap(m).modem = m /\ NewMap(m).rows = NoTables
        /\ Keys(NoTables) = {}
  <1>1. NoTables \in [{} -> Seq({"text", "hidden", "bar"})] /\ {} \in SUBSET OvClasses
    BY DEF NoTables
  <1>2. NoTables \in OvRows
    BY <1>1 DEF OvRows
  <1> QED
    BY <1>2 DEF NewMap, NoTables, Keys, OvMap

LEMMA OvInitInv == OvInit => OvInv
  <1> SUFFICES ASSUME OvInit PROVE OvInv
    OBVIOUS
  <1>1. \E m : m \in OvModems
    BY OverviewAssumption
  <1> DEFINE m0 == CHOOSE m \in OvModems : TRUE
  <1>2. m0 \in OvModems
    BY <1>1
  <1> HIDE DEF m0
  <1>3. /\ ovMaps = <<NewMap(m0)>> /\ ovChosen = m0 /\ ovFresh = FALSE
        /\ ovBox = [spinner |-> TRUE, alert |-> FALSE, tables |-> <<>>]
        /\ ovCalls = {[modem |-> m0, gen |-> 1, nth |-> 1]}
        /\ ovStore = [order |-> [m \in OvModems |-> <<>>], shut |-> {}]
    BY DEF OvInit, m0
  <1>4. NewMap(m0) \in OvMap /\ NewMap(m0).modem = m0 /\ Keys(NewMap(m0).rows) = {}
    BY <1>2, NewMapIs
  <1> DEFINE nm == NewMap(m0)
  <1> HIDE DEF nm
  <1>5. ovMaps = <<nm>> /\ nm \in OvMap /\ nm.modem = m0 /\ Keys(nm.rows) = {}
    BY <1>3, <1>4 DEF nm
  <1>6. Len(ovMaps) = 1 /\ ovMaps[1] = nm /\ ovMaps \in Seq(OvMap)
    BY <1>5
  <1>7. OvShape
    BY <1>3, <1>5, <1>6 DEF OvShape, Gen
  <1>8. TablesOf(ovBox.tables, ovMaps) /\ TablesAreMapped /\ SpinnerHasCall
    BY <1>3 DEF TablesOf, TablesAreMapped, SpinnerHasCall
  <1>9. OvTypeOK
    <2>1. \A g \in 1..Len(ovMaps) : ovMaps[g] = nm
      BY <1>6
    <2>2. \A c \in ovCalls : c.gen \in 1..Len(ovMaps) /\ c.modem = ovMaps[c.gen].modem
      BY <1>3, <1>5, <1>6
    <2> QED
      BY <1>2, <1>3, <1>5, <2>1, <2>2 DEF OvTypeOK, Gen
  <1> QED
    BY <1>7, <1>8, <1>9 DEF OvInv, OverviewIsLive

\* Of a call that starts only its modem and map matter.
LEMMA RefreshIs ==
  ASSUME NEW m, NEW g, Refresh(m, g)
  PROVE  \E n : ovCalls' = ovCalls \cup {[modem |-> m, gen |-> g, nth |-> n]}
  BY DEF Refresh

\* The box of a page that waits holds no table or those it held.
LEMMA WaitingIs ==
  ASSUME NEW box \in [spinner : BOOLEAN, alert : BOOLEAN, tables : Seq(OvTable)], NEW map
  PROVE  /\ Waiting(box, map) \in [spinner : BOOLEAN, alert : BOOLEAN, tables : Seq(OvTable)]
         /\ Waiting(box, map).tables \in {<<>>, box.tables}
  BY DEF Waiting

LEMMA OvSelectInv == ASSUME OvInv, NEW m \in OvModems, OvSelect(m) PROVE OvInv'
  <1> DEFINE nm == NewMap(m)
             n0 == Len(ovMaps)
  <1>1. nm \in OvMap /\ nm.modem = m /\ Keys(nm.rows) = {} /\ Keys(NoTables) = {}
    BY NewMapIs
  <1> HIDE DEF nm
  <1>2. /\ ovMaps' = Append(ovMaps, nm) /\ ovChosen' = m
        /\ ovBox' = Waiting(ovBox, NoTables) /\ UNCHANGED <<ovStore, ovFresh>>
        /\ Refresh(m, n0 + 1)
    BY DEF OvSelect, nm, Gen
  <1>3. PICK n : ovCalls' = ovCalls \cup {[modem |-> m, gen |-> n0 + 1, nth |-> n]}
    BY <1>2, RefreshIs
  <1>4. ovBox' = [spinner |-> TRUE, alert |-> FALSE, tables |-> <<>>]
    BY <1>1, <1>2 DEF Waiting
  <1>5. ovMaps \in Seq(OvMap) /\ n0 \in Nat
    BY DEF OvInv, OvShape
  <1>6. /\ ovMaps' \in Seq(OvMap) /\ Len(ovMaps') = n0 + 1
        /\ \A g \in 1..n0 : ovMaps'[g] = ovMaps[g]
        /\ ovMaps'[n0 + 1] = nm
    BY <1>1, <1>2, <1>5
  <1>7. OvShape'
    <2>1. ovBox' \in [spinner : BOOLEAN, alert : BOOLEAN, tables : Seq(OvTable)]
      BY <1>4
    <2>2. (ovMaps'[Gen'].modem = ovChosen' /\ Gen' > 0)
      BY <1>1, <1>2, <1>5, <1>6 DEF Gen
    <2>3. ovStore'.order \in [OvModems -> Seq({Title(c) : c \in OvClasses})]
          /\ ovStore' = [order |-> ovStore'.order, shut |-> ovStore'.shut]
      BY <1>2 DEF OvInv, OvShape
    <2> QED
      BY <1>6, <2>1, <2>2, <2>3 DEF OvShape, Title
  <1>8. (TablesOf(ovBox.tables, ovMaps) /\ TablesAreMapped /\ SpinnerHasCall)'
    <2>1. DOMAIN ovBox'.tables = {}
      BY <1>4
    <2>2. TablesAreMapped' /\ TablesOf(ovBox.tables, ovMaps)'
      BY <2>1 DEF TablesAreMapped, TablesOf
    <2>3. SpinnerHasCall'
      BY <1>3 DEF SpinnerHasCall
    <2> QED
      BY <2>2, <2>3
  <1>9. OvTypeOK'
    <2>1. \A g \in 1..(n0 + 1) : g \in 1..n0 \/ g = n0 + 1
      BY <1>5
    <2>2. \A c \in ovCalls : c.gen \in 1..n0 /\ c.modem = ovMaps[c.gen].modem
      BY DEF OvInv, OverviewIsLive, OvTypeOK, Gen
    <2>3. \A c \in ovCalls' : c.gen \in 1..(n0 + 1) /\ c.modem = ovMaps'[c.gen].modem
      <3> SUFFICES ASSUME NEW c \in ovCalls'
                   PROVE  c.gen \in 1..(n0 + 1) /\ c.modem = ovMaps'[c.gen].modem
        OBVIOUS
      <3>1. CASE c \in ovCalls
        BY <2>2, <3>1, <1>5, <1>6
      <3>2. CASE c = [modem |-> m, gen |-> n0 + 1, nth |-> n]
        BY <3>2, <1>1, <1>5, <1>6
      <3> QED
        BY <3>1, <3>2, <1>3
    <2>4. \A g \in 1..(n0 + 1) :
            /\ Keys(ovMaps'[g].rows) \subseteq OvClasses
            /\ \A k \in Keys(ovMaps'[g].rows) : \E e \in OvEntries : DOMAIN ovMaps'[g].rows[k] = DOMAIN e
      <3> SUFFICES ASSUME NEW g \in 1..(n0 + 1)
                   PROVE  /\ Keys(ovMaps'[g].rows) \subseteq OvClasses
                          /\ \A k \in Keys(ovMaps'[g].rows) :
                               \E e \in OvEntries : DOMAIN ovMaps'[g].rows[k] = DOMAIN e
        OBVIOUS
      <3>1. CASE g \in 1..n0
        <4>1. ovMaps'[g] = ovMaps[g]
          BY <3>1, <1>6
        <4> QED
          BY <3>1, <4>1 DEF OvInv, OverviewIsLive, OvTypeOK, Gen
      <3>2. CASE g = n0 + 1
        BY <3>2, <1>1, <1>6
      <3> QED
        BY <3>1, <3>2, <2>1
    <2>5. ovChosen' \in OvModems /\ ovFresh' \in BOOLEAN
      BY <1>2 DEF OvInv, OverviewIsLive, OvTypeOK
    <2> QED
      BY <1>6, <2>3, <2>4, <2>5 DEF OvTypeOK, Gen
  <1> QED
    BY <1>7, <1>8, <1>9 DEF OvInv, OverviewIsLive

LEMMA OvPollInv == ASSUME OvInv, OvPoll PROVE OvInv'
  <1>1. /\ UNCHANGED <<ovChosen, ovMaps, ovStore, ovFresh>>
        /\ ovBox' = Waiting(ovBox, ovMaps[Gen].rows) /\ Refresh(ovChosen, Gen)
    BY DEF OvPoll
  <1>2. PICK n : ovCalls' = ovCalls \cup {[modem |-> ovChosen, gen |-> Gen, nth |-> n]}
    BY <1>1, RefreshIs
  <1>3. Gen \in 1..Gen /\ ovChosen \in OvModems /\ ovMaps[Gen].modem = ovChosen /\ Gen' = Gen
    BY <1>1 DEF OvInv, OvShape, Gen, OverviewIsLive, OvTypeOK
  <1>4. /\ ovBox' \in [spinner : BOOLEAN, alert : BOOLEAN, tables : Seq(OvTable)]
        /\ ovBox'.tables \in {<<>>, ovBox.tables}
    BY <1>1, WaitingIs DEF OvInv, OvShape
  <1>5. OvShape'
    BY <1>1, <1>3, <1>4 DEF OvInv, OvShape, Title
  <1>6. (TablesOf(ovBox.tables, ovMaps) /\ TablesAreMapped)'
    <2>1. ovMaps' = ovMaps /\ TablesOf(ovBox.tables, ovMaps) /\ TablesAreMapped
      BY <1>1 DEF OvInv, OverviewIsLive
    <2>2. CASE ovBox'.tables = ovBox.tables
      BY <2>1, <2>2 DEF TablesOf, TablesAreMapped
    <2>3. CASE ovBox'.tables = <<>>
      BY <2>3 DEF TablesOf, TablesAreMapped
    <2> QED
      BY <1>4, <2>2, <2>3
  <1>7. OvTypeOK'
    <2>1. \A c \in ovCalls' : c.gen \in 1..Gen /\ c.modem = ovMaps[c.gen].modem
      BY <1>2, <1>3 DEF OvInv, OverviewIsLive, OvTypeOK
    <2> QED
      BY <1>1, <1>3, <2>1 DEF OvInv, OverviewIsLive, OvTypeOK
  <1>8. SpinnerHasCall'
    BY <1>2 DEF SpinnerHasCall
  <1> QED
    BY <1>5, <1>6, <1>7, <1>8 DEF OvInv, OverviewIsLive

\* A refresh that is answered puts its rows in the place of those of its map.
LEMMA AnsweredMaps ==
  ASSUME OvInv, NEW c \in ovCalls, NEW grouped \in Reports, OvAnswered(c, grouped)
  PROVE  /\ ovMaps' \in Seq(OvMap) /\ Len(ovMaps') = Len(ovMaps)
         /\ \A g \in 1..Len(ovMaps) : g # c.gen => ovMaps'[g] = ovMaps[g]
         /\ \A g \in 1..Len(ovMaps) : ovMaps'[g].modem = ovMaps[g].modem
         /\ Keys(ovMaps'[c.gen].rows) = Keys(grouped)
         /\ \A k \in Keys(grouped) : DOMAIN ovMaps'[c.gen].rows[k] = DOMAIN grouped[k]
  <1> DEFINE map == ovMaps[c.gen].rows
             new == [k \in Keys(grouped) |->
                       SetArrayData(IF k \in Keys(map) THEN map[k] ELSE <<>>, grouped[k])]
  <1>1. ovMaps' = [ovMaps EXCEPT ![c.gen].rows = new]
    BY DEF OvAnswered
  <1>2. PICK C \in SUBSET OvClasses : grouped \in [C -> OvEntries]
    BY DEF Reports
  <1>3. \A k \in C : grouped[k] \in Seq({"text", "blank", "bar"})
    BY <1>2, OverviewAssumption
  <1>4. ASSUME NEW rows, NEW value \in Seq({"text", "blank", "bar"})
        PROVE  /\ SetArrayData(rows, value) \in Seq({"text", "hidden", "bar"})
               /\ DOMAIN SetArrayData(rows, value) = DOMAIN value
    <2> DEFINE kept == [i \in 1..Len(value) |-> IF i <= Len(rows) THEN rows[i] ELSE "new"]
    <2>1. SetArrayData(rows, value) = [i \in 1..Len(value) |-> NewTr(kept[i], value[i])]
      BY DEF SetArrayData
    <2>2. \A i \in 1..Len(value) : value[i] \in {"text", "blank", "bar"}
      OBVIOUS
    <2>3. \A i \in 1..Len(value) : NewTr(kept[i], value[i]) \in {"text", "hidden", "bar"}
      <3> HIDE DEF kept
      <3> QED
        BY <2>2 DEF NewTr
    <2> HIDE DEF kept
    <2>4. SetArrayData(rows, value) \in [1..Len(value) -> {"text", "hidden", "bar"}]
      BY <2>1, <2>3
    <2> QED
      BY <2>4
  <1>5. \A k \in C : new[k] \in Seq({"text", "hidden", "bar"}) /\ DOMAIN new[k] = DOMAIN grouped[k]
    BY <1>2, <1>3, <1>4 DEF Keys
  <1>6. DOMAIN new = C /\ Keys(grouped) = C
    BY <1>2 DEF Keys
  <1>7. new \in OvRows
    <2>1. new \in [C -> Seq({"text", "hidden", "bar"})]
      BY <1>5, <1>6
    <2> HIDE DEF new
    <2> QED
      BY <2>1 DEF OvRows
  <1> HIDE DEF new
  <1>8. ovMaps \in Seq(OvMap) /\ c.gen \in 1..Len(ovMaps)
    BY DEF OvInv, OvShape, OverviewIsLive, OvTypeOK, Gen
  <1> DEFINE m == [modem |-> ovMaps[c.gen].modem, rows |-> new]
  <1>9. m \in OvMap /\ m.modem = ovMaps[c.gen].modem /\ m.rows = new
    <2>1. ovMaps[c.gen] \in OvMap
      BY <1>8
    <2> QED
      BY <2>1, <1>7 DEF OvMap
  <1>10. ovMaps' = [ovMaps EXCEPT ![c.gen] = m]
    <2>1. \A r \in OvMap : [r EXCEPT !.rows = new] = [modem |-> r.modem, rows |-> new]
      BY DEF OvMap
    <2>2. ovMaps[c.gen] \in OvMap
      BY <1>8
    <2>3. [ovMaps[c.gen] EXCEPT !.rows = new] = m
      BY <2>1, <2>2
    <2> HIDE DEF m
    <2> QED
      BY <1>1, <2>3
  <1> HIDE DEF m
  <1>11. ovMaps' \in Seq(OvMap) /\ Len(ovMaps') = Len(ovMaps)
    BY <1>8, <1>9, <1>10
  <1>12. /\ \A g \in 1..Len(ovMaps) : g # c.gen => ovMaps'[g] = ovMaps[g]
         /\ ovMaps'[c.gen] = m
    BY <1>8, <1>10
  <1>13. Keys(ovMaps'[c.gen].rows) = Keys(grouped)
         /\ \A k \in Keys(grouped) : DOMAIN ovMaps'[c.gen].rows[k] = DOMAIN grouped[k]
    BY <1>5, <1>6, <1>9, <1>12 DEF Keys
  <1>14. \A g \in 1..Len(ovMaps) : ovMaps'[g].modem = ovMaps[g].modem
    BY <1>9, <1>12
  <1> QED
    BY <1>11, <1>12, <1>13, <1>14

\* The tables that stay are those of other maps and those of classes that are still reported.

\* The tables that stay are those of other maps and those of classes that are still reported.
LEMMA AnsweredTables ==
  ASSUME OvInv, NEW c \in ovCalls, NEW grouped \in Reports, OvAnswered(c, grouped)
  PROVE  /\ ovBox' \in [spinner : BOOLEAN, alert : BOOLEAN, tables : Seq(OvTable)] /\ ~ovBox'.spinner
         /\ TablesOf(ovBox'.tables, ovMaps')
  <1> DEFINE tables == ovBox.tables
             map    == ovMaps[c.gen].rows
             fresh  == Fresh(ovStore.order[c.modem], grouped, map)
             isShut(k) == <<c.modem, k>> \in ovStore.shut
             stays  == {i \in DOMAIN tables : tables[i].gen = c.gen => tables[i].class \in Keys(grouped)}
             left    == Picked(tables, stays)
             updated == [i \in DOMAIN left |-> IF left[i].gen = c.gen
                                               THEN [left[i] EXCEPT !.shut = isShut(left[i].class)] ELSE left[i]]
             added   == [i \in DOMAIN fresh |-> [class |-> fresh[i], gen |-> c.gen, shut |-> isShut(fresh[i])]]
  <1>1. ovBox' = [ovBox EXCEPT !.spinner = FALSE, !.tables = updated \o added]
    BY DEF OvAnswered
  <1>2. /\ tables \in Seq(OvTable) /\ c.gen \in 1..Len(ovMaps) /\ c.modem \in OvModems
        /\ TablesOf(tables, ovMaps)
    <2>1. /\ tables \in Seq(OvTable) /\ c.gen \in 1..Len(ovMaps) /\ TablesOf(tables, ovMaps)
          /\ c.modem = ovMaps[c.gen].modem /\ ovMaps \in Seq(OvMap)
      BY DEF OvInv, OvShape, OverviewIsLive, OvTypeOK, Gen
    <2>2. ovMaps[c.gen] \in OvMap
      BY <2>1
    <2> QED
      BY <2>1, <2>2 DEF OvMap
  <1>3. Keys(grouped) \subseteq OvClasses /\ IsFiniteSet(Keys(grouped))
    <2>1. PICK C \in SUBSET OvClasses : grouped \in [C -> OvEntries]
      BY DEF Reports
    <2>2. Keys(grouped) = C
      BY <2>1 DEF Keys
    <2> QED
      BY <2>2, OverviewAssumption, FS_Subset
  <1>4. fresh \in Seq(Keys(grouped) \ Keys(map)) /\ NoneTwice(fresh)
    <2>1. ovStore.order[c.modem] \in Seq({Title(k) : k \in OvClasses})
      BY <1>2 DEF OvInv, OvShape
    <2> QED
      BY <1>3, <2>1, FreshIs
  <1>5. /\ left \in Seq(OvTable)
        /\ \A n \in DOMAIN left : \E k \in stays : left[n] = tables[k]
        /\ (\A i, j \in stays : i # j => tables[i] # tables[j]) =>
             \A m, n \in DOMAIN left : m # n => left[m] # left[n]
    <2>1. stays \in SUBSET DOMAIN tables
      OBVIOUS
    <2> HIDE DEF stays, tables
    <2> QED
      BY <1>2, <2>1, PickedSeq
  <1>6. \A k \in stays : /\ k \in DOMAIN tables /\ tables[k] \in OvTable
                         /\ tables[k].gen = c.gen => tables[k].class \in Keys(grouped) \cap Keys(map)
                         /\ tables[k].gen \in 1..Len(ovMaps) /\ tables[k].class \in Keys(ovMaps[tables[k].gen].rows)
    <2> SUFFICES ASSUME NEW k \in stays
                 PROVE  /\ k \in DOMAIN tables /\ tables[k] \in OvTable
                        /\ tables[k].gen = c.gen => tables[k].class \in Keys(grouped) \cap Keys(map)
                        /\ tables[k].gen \in 1..Len(ovMaps)
                        /\ tables[k].class \in Keys(ovMaps[tables[k].gen].rows)
      OBVIOUS
    <2>1. k \in DOMAIN tables /\ (tables[k].gen = c.gen => tables[k].class \in Keys(grouped))
      OBVIOUS
    <2> HIDE DEF stays
    <2>2. tables[k] \in OvTable
      BY <1>2, <2>1
    <2> QED
      BY <1>2, <2>1, <2>2 DEF TablesOf
  <1>7. \A i, j \in stays : i # j => <<tables[i].class, tables[i].gen>> # <<tables[j].class, tables[j].gen>>
    BY <1>2 DEF TablesOf
  <1> HIDE DEF tables, stays, fresh
  <1>8. /\ \A n \in DOMAIN left : /\ left[n] \in OvTable
                                  /\ left[n].gen = c.gen => left[n].class \in Keys(grouped) \cap Keys(map)
                                  /\ left[n].gen \in 1..Len(ovMaps)
                                  /\ left[n].class \in Keys(ovMaps[left[n].gen].rows)
    BY <1>5, <1>6
  <1>9. \A m, n \in DOMAIN left : m # n => <<left[m].class, left[m].gen>> # <<left[n].class, left[n].gen>>
    BY <1>5, <1>7
  <1> HIDE DEF left
  <1>10. /\ DOMAIN updated = DOMAIN left
         /\ \A n \in DOMAIN left : /\ updated[n] \in OvTable
                                   /\ updated[n].class = left[n].class /\ updated[n].gen = left[n].gen
    <2> SUFFICES ASSUME NEW n \in DOMAIN left
                 PROVE  /\ updated[n] \in OvTable
                        /\ updated[n].class = left[n].class /\ updated[n].gen = left[n].gen
      OBVIOUS
    <2>1. left[n] \in OvTable /\ isShut(left[n].class) \in BOOLEAN
      BY <1>8
    <2> HIDE DEF isShut
    <2>2. CASE left[n].gen = c.gen
      <3>1. updated[n] = [left[n] EXCEPT !.shut = isShut(left[n].class)]
        BY <2>2
      <3> HIDE DEF updated
      <3> QED
        BY <2>1, <3>1 DEF OvTable
    <2>3. CASE left[n].gen # c.gen
      BY <2>1, <2>3
    <2> QED
      BY <2>2, <2>3
  <1>11. /\ DOMAIN added = DOMAIN fresh
         /\ \A n \in DOMAIN fresh : /\ added[n] \in OvTable /\ added[n].gen = c.gen
                                    /\ added[n].class = fresh[n]
                                    /\ fresh[n] \in Keys(grouped) \ Keys(map)
    <2> SUFFICES ASSUME NEW n \in DOMAIN fresh
                 PROVE  /\ added[n] \in OvTable /\ added[n].gen = c.gen
                        /\ added[n].class = fresh[n]
                        /\ fresh[n] \in Keys(grouped) \ Keys(map)
      OBVIOUS
    <2>1. fresh[n] \in Keys(grouped) \ Keys(map)
      <3> HIDE DEF map
      <3> QED
        BY <1>4
    <2>2. isShut(fresh[n]) \in BOOLEAN /\ c.gen \in Nat
      BY <1>2
    <2> HIDE DEF isShut, map
    <2> QED
      BY <2>1, <2>2, <1>3 DEF OvTable
  <1> DEFINE now == updated \o added
             box == [ovBox EXCEPT !.spinner = FALSE, !.tables = now]
  <1> HIDE DEF updated, added, map
  <1>12. /\ DOMAIN left = 1..Len(left) /\ Len(left) \in Nat /\ DOMAIN fresh = 1..Len(fresh) /\ Len(fresh) \in Nat
    BY <1>4, <1>5
  <1>13. updated \in Seq(OvTable) /\ Len(updated) = Len(left) /\ added \in Seq(OvTable) /\ Len(added) = Len(fresh)
    <2>0. updated = [n \in DOMAIN left |-> updated[n]] /\ added = [n \in DOMAIN fresh |-> added[n]]
      BY Zenon DEF updated, added
    <2>1. updated \in [1..Len(left) -> OvTable] /\ added \in [1..Len(fresh) -> OvTable]
      BY <1>10, <1>11, <1>12, <2>0
    <2> QED
      BY <1>12, <2>1
  <1>14. /\ now \in Seq(OvTable) /\ DOMAIN now = 1..(Len(left) + Len(fresh))
         /\ \A n \in 1..(Len(left) + Len(fresh)) :
              now[n] = IF n <= Len(left) THEN updated[n] ELSE added[n - Len(left)]
    BY <1>12, <1>13
  <1> HIDE DEF now
  <1>15. /\ ovBox' \in [spinner : BOOLEAN, alert : BOOLEAN, tables : Seq(OvTable)]
         /\ ~ovBox'.spinner /\ ovBox'.tables = now
    <2>1. ovBox \in [spinner : BOOLEAN, alert : BOOLEAN, tables : Seq(OvTable)]
      BY DEF OvInv, OvShape
    <2>2. ovBox' = [ovBox EXCEPT !.spinner = FALSE, !.tables = now]
      BY <1>1 DEF now
    <2> QED
      BY <2>1, <2>2, <1>14
  <1>16. \A n \in 1..(Len(left) + Len(fresh)) :
           \/ /\ n \in DOMAIN left /\ n <= Len(left)
              /\ now[n].class = left[n].class /\ now[n].gen = left[n].gen
           \/ /\ n - Len(left) \in DOMAIN fresh /\ n > Len(left)
              /\ now[n].class = fresh[n - Len(left)] /\ now[n].gen = c.gen
    <2> SUFFICES ASSUME NEW n \in 1..(Len(left) + Len(fresh))
                 PROVE  \/ /\ n \in DOMAIN left /\ n <= Len(left)
                           /\ now[n].class = left[n].class /\ now[n].gen = left[n].gen
                        \/ /\ n - Len(left) \in DOMAIN fresh /\ n > Len(left)
                           /\ now[n].class = fresh[n - Len(left)] /\ now[n].gen = c.gen
      OBVIOUS
    <2>1. CASE n <= Len(left)
      <3>1. n \in DOMAIN left /\ now[n] = updated[n]
        BY <2>1, <1>12, <1>14
      <3> QED
        BY <2>1, <3>1, <1>10
    <2>2. CASE n > Len(left)
      <3>1. n - Len(left) \in DOMAIN fresh /\ now[n] = added[n - Len(left)]
        BY <2>2, <1>12, <1>14
      <3> QED
        BY <2>2, <3>1, <1>11
    <2> QED
      BY <2>1, <2>2, <1>12
  <1>17. \A n \in DOMAIN now : now[n].gen \in 1..Len(ovMaps') /\ now[n].class \in Keys(ovMaps'[now[n].gen].rows)
    <2>1. /\ Len(ovMaps') = Len(ovMaps) /\ Keys(ovMaps'[c.gen].rows) = Keys(grouped)
          /\ \A g \in 1..Len(ovMaps) : g # c.gen => ovMaps'[g] = ovMaps[g]
      BY AnsweredMaps
    <2> SUFFICES ASSUME NEW n \in DOMAIN now
                 PROVE  now[n].gen \in 1..Len(ovMaps') /\ now[n].class \in Keys(ovMaps'[now[n].gen].rows)
      OBVIOUS
    <2>2. CASE n \in DOMAIN left /\ now[n].class = left[n].class /\ now[n].gen = left[n].gen
      BY <2>1, <2>2, <1>8
    <2>3. CASE n - Len(left) \in DOMAIN fresh /\ now[n].class = fresh[n - Len(left)] /\ now[n].gen = c.gen
      BY <2>1, <2>3, <1>2, <1>11
    <2> QED
      BY <2>2, <2>3, <1>14, <1>16
  <1>18. \A m, n \in DOMAIN now : m # n => <<now[m].class, now[m].gen>> # <<now[n].class, now[n].gen>>
    <2> SUFFICES ASSUME NEW m \in 1..(Len(left) + Len(fresh)), NEW n \in 1..(Len(left) + Len(fresh)), m < n
                 PROVE  <<now[m].class, now[m].gen>> # <<now[n].class, now[n].gen>>
      BY <1>12, <1>14
    <2>1. CASE n <= Len(left)
      BY <2>1, <1>9, <1>12, <1>16
    <2>2. CASE m <= Len(left) /\ n > Len(left)
      <3>1. m \in DOMAIN left /\ now[m].class = left[m].class /\ now[m].gen = left[m].gen
        BY <2>2, <1>12, <1>16
      <3>2. n - Len(left) \in DOMAIN fresh /\ now[n].class = fresh[n - Len(left)] /\ now[n].gen = c.gen
        BY <2>2, <1>12, <1>16
      <3> QED
        BY <3>1, <3>2, <1>8, <1>11
    <2>3. CASE m > Len(left)
      <3>1. /\ m - Len(left) \in DOMAIN fresh /\ now[m].class = fresh[m - Len(left)]
            /\ n - Len(left) \in DOMAIN fresh /\ now[n].class = fresh[n - Len(left)]
        BY <2>3, <1>12, <1>16
      <3>2. m - Len(left) # n - Len(left)
        BY <1>12
      <3> QED
        BY <3>1, <3>2, <1>4 DEF NoneTwice
    <2> QED
      BY <2>1, <2>2, <2>3, <1>12
  <1> QED
    BY <1>15, <1>17, <1>18 DEF TablesOf

LEMMA OvAnsweredInv ==
  ASSUME OvInv, NEW c \in ovCalls, NEW grouped \in Reports, OvAnswered(c, grouped)
  PROVE  OvInv'
  <1>1. /\ ovMaps' \in Seq(OvMap) /\ Len(ovMaps') = Len(ovMaps)
        /\ \A g \in 1..Len(ovMaps) : g # c.gen => ovMaps'[g] = ovMaps[g]
        /\ \A g \in 1..Len(ovMaps) : ovMaps'[g].modem = ovMaps[g].modem
        /\ Keys(ovMaps'[c.gen].rows) = Keys(grouped)
        /\ \A k \in Keys(grouped) : DOMAIN ovMaps'[c.gen].rows[k] = DOMAIN grouped[k]
    BY AnsweredMaps
  <1>2. /\ ovBox' \in [spinner : BOOLEAN, alert : BOOLEAN, tables : Seq(OvTable)] /\ ~ovBox'.spinner
        /\ TablesOf(ovBox'.tables, ovMaps')
    BY AnsweredTables
  <1>3. ovCalls' = ovCalls \ {c} /\ ovFresh' = TRUE /\ UNCHANGED <<ovChosen, ovStore>>
    BY DEF OvAnswered
  <1>4. Gen \in Nat /\ Gen > 0 /\ Gen = Len(ovMaps) /\ Gen' = Len(ovMaps) /\ ovMaps'[Gen].modem = ovChosen
    BY <1>1 DEF OvInv, OvShape, Gen
  <1>5. OvShape'
    BY <1>1, <1>2, <1>3, <1>4 DEF OvInv, OvShape, Title
  <1>6. TablesAreMapped' /\ SpinnerHasCall'
    BY <1>2 DEF TablesAreMapped, TablesOf, SpinnerHasCall
  <1>7. OvTypeOK'
    <2>1. Keys(grouped) \subseteq OvClasses /\ \A k \in Keys(grouped) : grouped[k] \in OvEntries
      <3>1. PICK C \in SUBSET OvClasses : grouped \in [C -> OvEntries]
        BY DEF Reports
      <3> QED
        BY <3>1 DEF Keys
    <2>2. \A g \in 1..Gen :
            /\ Keys(ovMaps'[g].rows) \subseteq OvClasses
            /\ \A k \in Keys(ovMaps'[g].rows) : \E e \in OvEntries : DOMAIN ovMaps'[g].rows[k] = DOMAIN e
      <3> SUFFICES ASSUME NEW g \in 1..Gen
                   PROVE  /\ Keys(ovMaps'[g].rows) \subseteq OvClasses
                          /\ \A k \in Keys(ovMaps'[g].rows) :
                               \E e \in OvEntries : DOMAIN ovMaps'[g].rows[k] = DOMAIN e
        OBVIOUS
      <3>1. CASE g = c.gen
        BY <3>1, <1>1, <2>1
      <3>2. CASE g # c.gen
        <4>1. ovMaps'[g] = ovMaps[g]
          BY <3>2, <1>1, <1>4
        <4> QED
          BY <4>1 DEF OvInv, OverviewIsLive, OvTypeOK
      <3> QED
        BY <3>1, <3>2
    <2>3. \A d \in ovCalls' : d.gen \in 1..Gen /\ d.modem = ovMaps'[d.gen].modem
      BY <1>1, <1>3, <1>4 DEF OvInv, OverviewIsLive, OvTypeOK
    <2>4. ovChosen' \in OvModems /\ ovFresh' \in BOOLEAN
      BY <1>3 DEF OvInv, OverviewIsLive, OvTypeOK
    <2> QED
      BY <1>4, <2>2, <2>3, <2>4 DEF OvTypeOK
  <1> QED
    BY <1>2, <1>5, <1>6, <1>7 DEF OvInv, OverviewIsLive

LEMMA OvFailedInv == ASSUME OvInv, NEW c \in ovCalls, OvFailed(c) PROVE OvInv'
  <1>1. /\ ovCalls' = ovCalls \ {c} /\ ovFresh' = FALSE /\ UNCHANGED <<ovChosen, ovMaps, ovStore>>
        /\ ovBox' = [spinner |-> FALSE, alert |-> TRUE, tables |-> <<>>]
    BY DEF OvFailed
  <1>2. Gen' = Gen
    BY <1>1 DEF Gen
  <1>3. OvShape'
    BY <1>1, <1>2 DEF OvInv, OvShape, Title
  <1>4. DOMAIN ovBox'.tables = {} /\ ~ovBox'.spinner
    BY <1>1
  <1>5. (TablesOf(ovBox.tables, ovMaps) /\ TablesAreMapped /\ SpinnerHasCall)'
    <2>1. TablesOf(ovBox.tables, ovMaps)'
      BY <1>4 DEF TablesOf
    <2>2. TablesAreMapped'
      BY <1>4 DEF TablesAreMapped
    <2> QED
      BY <1>4, <2>1, <2>2 DEF SpinnerHasCall
  <1>6. OvTypeOK'
    <2>1. OvTypeOK /\ ovMaps' = ovMaps /\ ovCalls' \subseteq ovCalls /\ ovChosen' = ovChosen /\ ovFresh' \in BOOLEAN
      BY <1>1 DEF OvInv, OverviewIsLive, OvTypeOK
    <2> QED
      BY <1>2, <2>1 DEF OvTypeOK
  <1> QED
    BY <1>3, <1>5, <1>6 DEF OvInv, OverviewIsLive

LEMMA ToggleInv == ASSUME OvInv, NEW i \in DOMAIN ovBox.tables, Toggle(i) PROVE OvInv'
  <1> DEFINE tables == ovBox.tables
             now == [tables EXCEPT ![i].shut = ~ @]
  <1>1. /\ UNCHANGED <<ovChosen, ovMaps, ovCalls, ovFresh>>
        /\ ovBox' = [ovBox EXCEPT !.tables = now]
        /\ \E shut : ovStore' = [ovStore EXCEPT !.shut = shut]
    BY DEF Toggle
  <1>2. /\ tables \in Seq(OvTable) /\ TablesOf(tables, ovMaps)
        /\ ovBox \in [spinner : BOOLEAN, alert : BOOLEAN, tables : Seq(OvTable)]
        /\ i \in DOMAIN tables
    BY DEF OvInv, OvShape
  <1> DEFINE t == [tables[i] EXCEPT !.shut = ~ @]
  <1>3. tables[i] \in OvTable
    BY <1>2
  <1>4. t \in OvTable /\ t.class = tables[i].class /\ t.gen = tables[i].gen
    BY <1>3 DEF OvTable
  <1>5. now = [tables EXCEPT ![i] = t]
    OBVIOUS
  <1> HIDE DEF tables, now, t
  <1>6. now \in Seq(OvTable) /\ DOMAIN now = DOMAIN tables
    BY <1>2, <1>4, <1>5
  <1>7. \A n \in DOMAIN tables : now[n].class = tables[n].class /\ now[n].gen = tables[n].gen
    BY <1>2, <1>4, <1>5
  <1>8. ovBox' \in [spinner : BOOLEAN, alert : BOOLEAN, tables : Seq(OvTable)]
        /\ ovBox'.tables = now /\ ovBox'.spinner = ovBox.spinner
    BY <1>1, <1>2, <1>6
  <1>9. TablesOf(now, ovMaps)
    BY <1>2, <1>6, <1>7 DEF TablesOf
  <1>10. Gen' = Gen
    BY <1>1 DEF Gen
  <1>11. OvShape'
    <2>1. ovStore'.order = ovStore.order /\ ovStore' = [order |-> ovStore'.order, shut |-> ovStore'.shut]
      BY <1>1 DEF OvInv, OvShape
    <2> QED
      BY <1>1, <1>8, <1>10, <2>1 DEF OvInv, OvShape, Title
  <1>12. TablesAreMapped' /\ SpinnerHasCall'
    BY <1>1, <1>8, <1>9 DEF OvInv, OverviewIsLive, TablesAreMapped, TablesOf, SpinnerHasCall
  <1>13. OvTypeOK'
    BY <1>1, <1>10 DEF OvInv, OverviewIsLive, OvTypeOK
  <1> QED
    BY <1>1, <1>8, <1>9, <1>11, <1>12, <1>13 DEF OvInv, OverviewIsLive

Permutes(at, now, s) ==
  /\ now = [n \in DOMAIN s |-> s[at[n]]]
  /\ \A n \in DOMAIN s : at[n] \in DOMAIN s
  /\ \A m, n \in DOMAIN s : m # n => at[m] # at[n]

\* The stretch of a sequence from m to l, which may be empty.
LEMMA StretchIs ==
  ASSUME NEW T, NEW s \in Seq(T), NEW m \in Nat, NEW l \in Nat, 1 <= m, m <= l + 1, l <= Len(s), NEW part, part = SubSeq(s, m, l)
  PROVE  part \in Seq(T) /\ Len(part) = l + 1 - m /\ \A n \in 1..(l + 1 - m) : part[n] = s[m + n - 1]
  <1>1. m \in Int /\ l \in Int /\ \A n \in m..l : s[n] \in T
    OBVIOUS
  <1>2. /\ part \in Seq(T) /\ Len(part) = IF m <= l THEN l - m + 1 ELSE 0
        /\ \A n \in 1..(l - m + 1) : part[n] = s[m + n - 1]
    BY <1>1, SubSeqProperties
  <1>3. (IF m <= l THEN l - m + 1 ELSE 0) = l + 1 - m /\ l - m + 1 = l + 1 - m
    OBVIOUS
  <1> QED
    BY <1>2, <1>3

\* The places before and after the i-th of l.
LEMMA PlacesAre ==
  ASSUME NEW l \in Nat, NEW i \in Nat, 1 <= i, i <= l
  PROVE  /\ (i - 1) + (l - i) = l - 1
         /\ \A n \in 1..(l - 1) : n < i => n <= i - 1 /\ n \in 1..(i - 1)
         /\ \A n \in 1..(l - 1) : ~(n < i) => n - (i - 1) \in 1..(l - i) /\ (n - (i - 1)) + i = n + 1 /\ ~(n <= i - 1)
  OBVIOUS

\* What a sequence without its i-th element is.
Without(s, i) == SubSeq(s, 1, i - 1) \o SubSeq(s, i + 1, Len(s))
LEMMA RemovedIs ==
  ASSUME NEW T, NEW s \in Seq(T), NEW i \in 1..Len(s)
  PROVE  /\ Without(s, i) \in Seq(T) /\ Len(Without(s, i)) = Len(s) - 1
         /\ \A n \in 1..(Len(s) - 1) : Without(s, i)[n] = IF n < i THEN s[n] ELSE s[n + 1]
  <1>1. PICK others, front, back :
          others = Without(s, i) /\ front = SubSeq(s, 1, i - 1) /\ back = SubSeq(s, i + 1, Len(s)) /\ others = front \o back
    BY DEF Without
  <1>2. Len(s) \in Nat /\ i \in Nat /\ 1 <= i /\ i <= Len(s)
    OBVIOUS
  <1>3. front \in Seq(T) /\ Len(front) = i - 1 /\ \A n \in 1..(i - 1) : front[n] = s[n]
    <2>1. i - 1 \in Nat /\ 1 <= (i - 1) + 1 /\ i - 1 <= Len(s) /\ (i - 1) + 1 - 1 = i - 1
      BY <1>2
    <2>2. front \in Seq(T) /\ Len(front) = i - 1 /\ \A n \in 1..(i - 1) : front[n] = s[1 + n - 1]
      BY <1>1, <2>1, StretchIs
    <2> QED
      BY <1>2, <2>2
  <1>4. back \in Seq(T) /\ Len(back) = Len(s) - i /\ \A n \in 1..(Len(s) - i) : back[n] = s[n + i]
    <2>1. i + 1 \in Nat /\ 1 <= i + 1 /\ i + 1 <= Len(s) + 1 /\ Len(s) + 1 - (i + 1) = Len(s) - i
      BY <1>2
    <2>2. /\ back \in Seq(T) /\ Len(back) = Len(s) - i
          /\ \A n \in 1..(Len(s) - i) : back[n] = s[(i + 1) + n - 1]
      BY <1>1, <1>2, <2>1, StretchIs
    <2> QED
      BY <1>2, <2>2
  <1>5. /\ others \in Seq(T) /\ Len(others) = (i - 1) + (Len(s) - i)
        /\ \A n \in 1..((i - 1) + (Len(s) - i)) : others[n] = IF n <= i - 1 THEN front[n] ELSE back[n - (i - 1)]
    <2>1. /\ front \o back \in Seq(T) /\ Len(front \o back) = Len(front) + Len(back)
          /\ \A n \in 1..(Len(front) + Len(back)) :
               (front \o back)[n] = IF n <= Len(front) THEN front[n] ELSE back[n - Len(front)]
      BY <1>3, <1>4, ConcatProperties
    <2> QED
      BY <1>1, <1>3, <1>4, <2>1
  <1>6. ASSUME NEW n \in 1..(Len(s) - 1) PROVE others[n] = IF n < i THEN s[n] ELSE s[n + 1]
    <2>1. others[n] = IF n <= i - 1 THEN front[n] ELSE back[n - (i - 1)]
      BY <1>2, <1>5, PlacesAre
    <2>2. CASE n < i
      <3>1. n <= i - 1 /\ n \in 1..(i - 1)
        BY <1>2, <2>2, PlacesAre
      <3> QED
        BY <1>3, <2>1, <2>2, <3>1
    <2>3. CASE ~(n < i)
      <3>1. n - (i - 1) \in 1..(Len(s) - i) /\ (n - (i - 1)) + i = n + 1 /\ ~(n <= i - 1)
        BY <1>2, <2>3, PlacesAre
      <3> QED
        BY <1>4, <2>1, <2>3, <3>1
    <2> QED
      BY <2>2, <2>3
  <1>7. (i - 1) + (Len(s) - i) = Len(s) - 1
    BY <1>2, PlacesAre
  <1> QED
    BY <1>1, <1>5, <1>6, <1>7

\* A table that is taken out and put back elsewhere leaves every other as it was.
LEMMA MovedIs ==
  ASSUME NEW T, NEW s \in Seq(T), NEW i \in DOMAIN s, NEW p \in DOMAIN s,
         NEW now, now = Seqs!InsertAt(Seqs!RemoveAt(s, i), p, s[i])
  PROVE  now \in Seq(T) /\ DOMAIN now = DOMAIN s /\ \E at : Permutes(at, now, s)
  <1> DEFINE others == Seqs!RemoveAt(s, i)
             at == [n \in DOMAIN s |-> IF n = p THEN i
                                       ELSE IF n < p THEN IF n < i THEN n ELSE n + 1
                                       ELSE IF n - 1 < i THEN n - 1 ELSE n]
  <1>1. Len(s) \in Nat /\ DOMAIN s = 1..Len(s) /\ s[i] \in T
    OBVIOUS
  <1>2. others = Without(s, i)
    BY DEF Seqs!RemoveAt, Without
  <1>3. /\ others \in Seq(T) /\ Len(others) = Len(s) - 1
        /\ \A n \in 1..(Len(s) - 1) : others[n] = IF n < i THEN s[n] ELSE s[n + 1]
    <2> HIDE DEF others, at
    <2>1. i \in 1..Len(s)
      BY <1>1
    <2> QED
      BY <1>2, <2>1, RemovedIs
  <1> HIDE DEF others
  <1>4. p \in 1..Len(s)
    BY <1>1
  <1>5. now = SubSeq(others, 1, p - 1) \o <<s[i]>> \o SubSeq(others, p, Len(others))
    BY DEF Seqs!InsertAt, others
  <1>6. /\ now \in Seq(T) /\ Len(now) = Len(s)
        /\ \A n \in 1..Len(s) : now[n] = IF n < p THEN others[n] ELSE IF n = p THEN s[i] ELSE others[n - 1]
    <2> DEFINE front == SubSeq(others, 1, p - 1)
               back == SubSeq(others, p, Len(others))
    <2>1. /\ front \in Seq(T) /\ Len(front) = p - 1 /\ \A n \in 1..(p - 1) : front[n] = others[n]
          /\ back \in Seq(T) /\ Len(back) = Len(s) - p /\ \A n \in 1..(Len(s) - p) : back[n] = others[n + p - 1]
      <3>1. p \in 1..Len(others)+1 /\ p - 1 \in 0..Len(others) /\ Len(others) \in (p - 1)..Len(others)
        BY <1>1, <1>3, <1>4
      <3>2. front \in Seq(T) /\ Len(front) = p - 1 /\ \A n \in 1..(p - 1) : front[n] = others[n]
        <4>1. p - 1 \in Nat /\ 1 <= (p - 1) + 1 /\ p - 1 <= Len(others) /\ (p - 1) + 1 - 1 = p - 1
          BY <1>1, <1>3, <1>4
        <4>2. front \in Seq(T) /\ Len(front) = p - 1 /\ \A n \in 1..(p - 1) : front[n] = others[1 + n - 1]
          BY <1>3, <4>1, StretchIs
        <4> HIDE DEF front
        <4> QED
          BY <1>4, <4>2
      <3>3. /\ back \in Seq(T) /\ Len(back) = Len(s) - p
            /\ \A n \in 1..(Len(s) - p) : back[n] = others[n + p - 1]
        <4>1. p \in Int /\ Len(others) \in Int /\ \A n \in p..Len(others) : others[n] \in T
          BY <1>1, <1>3, <3>1
        <4>2. /\ back \in Seq(T) /\ Len(back) = IF p <= Len(others) THEN Len(others) - p + 1 ELSE 0
              /\ \A n \in 1..(Len(others) - p + 1) : back[n] = others[p + n - 1]
          BY <4>1, SubSeqProperties
        <4> HIDE DEF back
        <4>3. Len(others) - p + 1 = Len(s) - p /\ (IF p <= Len(others) THEN Len(others) - p + 1 ELSE 0) = Len(s) - p
          BY <1>1, <1>3, <1>4
        <4>4. \A n \in 1..(Len(s) - p) : back[n] = others[p + n - 1] /\ p + n - 1 = n + p - 1
          BY <1>1, <1>4, <4>2, <4>3
        <4> QED
          BY <4>2, <4>3, <4>4
      <3> QED
        BY <3>2, <3>3
    <2> HIDE DEF front, back
    <2>2. now = front \o <<s[i]>> \o back
      BY <1>5 DEF front, back
    <2> DEFINE start == front \o <<s[i]>>
    <2>3. /\ start \in Seq(T) /\ Len(start) = p
          /\ \A n \in 1..p : start[n] = IF n < p THEN front[n] ELSE s[i]
      <3>1. <<s[i]>> \in Seq(T) /\ Len(<<s[i]>>) = 1 /\ <<s[i]>>[1] = s[i]
        BY <1>1
      <3>2. /\ start \in Seq(T) /\ Len(start) = Len(front) + 1
            /\ \A n \in 1..(Len(front) + 1) :
                 start[n] = IF n <= Len(front) THEN front[n] ELSE <<s[i]>>[n - Len(front)]
        BY <2>1, <3>1, ConcatProperties
      <3> HIDE DEF start
      <3>3. Len(front) + 1 = p /\ Len(front) = p - 1 /\ p - (p - 1) = 1
        BY <1>1, <1>4, <2>1
      <3>4. ASSUME NEW n \in 1..p PROVE start[n] = IF n < p THEN front[n] ELSE s[i]
        <4>1. (n <= p - 1 <=> n < p) /\ (~(n < p) => n - (p - 1) = 1)
          BY <1>1, <1>4
        <4>2. start[n] = IF n <= p - 1 THEN front[n] ELSE <<s[i]>>[n - (p - 1)]
          BY <3>2, <3>3
        <4> QED
          BY <3>1, <4>1, <4>2
      <3> QED
        BY <3>2, <3>3, <3>4
    <2> HIDE DEF start
    <2>4. /\ start \o back \in Seq(T) /\ Len(start \o back) = Len(start) + Len(back)
          /\ \A n \in 1..(Len(start) + Len(back)) :
               (start \o back)[n] = IF n <= Len(start) THEN start[n] ELSE back[n - Len(start)]
      <3>1. start \in Seq(T) /\ back \in Seq(T)
        BY <2>1, <2>3
      <3> QED
        BY <3>1, ConcatProperties
    <2>5. now = start \o back
      BY <2>2 DEF start
    <2>6. ASSUME NEW n \in 1..Len(s)
          PROVE  now[n] = IF n < p THEN others[n] ELSE IF n = p THEN s[i] ELSE others[n - 1]
      <3>0. now[n] = IF n <= p THEN start[n] ELSE back[n - p]
        <4>1. n \in 1..(Len(start) + Len(back)) /\ Len(start) = p
          BY <1>1, <1>4, <2>1, <2>3
        <4> QED
          BY <2>4, <2>5, <4>1
      <3>1. CASE n <= p
        <4>1. n \in 1..p /\ (n < p => n \in 1..(p - 1)) /\ (~(n < p) => n = p)
          BY <1>1, <1>4, <3>1
        <4> QED
          BY <2>1, <2>3, <3>0, <3>1, <4>1
      <3>2. CASE n > p
        <4>1. now[n] = back[n - p] /\ n - p \in 1..(Len(s) - p)
          BY <1>1, <1>4, <3>0, <3>2
        <4>2. back[n - p] = others[(n - p) + p - 1] /\ (n - p) + p - 1 = n - 1
          BY <1>1, <1>4, <2>1, <4>1
        <4> QED
          BY <1>1, <1>4, <3>2, <4>1, <4>2
      <3> QED
        BY <1>1, <1>4, <3>1, <3>2
    <2>7. now \in Seq(T) /\ Len(now) = Len(s)
      <3>1. Len(start) = p /\ Len(back) = Len(s) - p /\ p \in Nat
        BY <1>1, <1>4, <2>1, <2>3
      <3>2. now \in Seq(T) /\ Len(now) = Len(start) + Len(back)
        BY <2>4, <2>5
      <3> QED
        BY <1>1, <3>1, <3>2
    <2> QED
      BY <2>6, <2>7
  <1>7. \A n \in DOMAIN s : at[n] \in DOMAIN s /\ now[n] = s[at[n]]
    <2> SUFFICES ASSUME NEW n \in 1..Len(s) PROVE at[n] \in 1..Len(s) /\ now[n] = s[at[n]]
      BY <1>1
    <2>1. CASE n < p
      BY <2>1, <1>1, <1>3, <1>4, <1>6
    <2>2. CASE n = p
      BY <2>2, <1>1, <1>4, <1>6
    <2>3. CASE n > p
      <3>1. now[n] = others[n - 1] /\ n - 1 \in 1..(Len(s) - 1)
        BY <2>3, <1>1, <1>4, <1>6
      <3>2. others[n - 1] = IF n - 1 < i THEN s[n - 1] ELSE s[(n - 1) + 1]
        BY <3>1, <1>3
      <3> QED
        BY <2>3, <3>1, <3>2, <1>1, <1>4
    <2> QED
      BY <2>1, <2>2, <2>3, <1>1, <1>4
  <1>8. \A m, n \in DOMAIN s : m # n => at[m] # at[n]
    BY <1>1, <1>4
  <1> HIDE DEF at
  <1>9. DOMAIN now = DOMAIN s /\ now \in Seq(T)
    BY <1>1, <1>6
  <1>10. now = [n \in DOMAIN s |-> s[at[n]]]
    <2>1. now = [n \in DOMAIN now |-> now[n]]
      BY <1>9
    <2> QED
      BY <1>7, <1>9, <2>1
  <1>11. Permutes(at, now, s)
    BY <1>7, <1>8, <1>10 DEF Permutes
  <1> QED
    BY <1>9, <1>11

LEMMA DropInv ==
  ASSUME OvInv, NEW i \in DOMAIN ovBox.tables, NEW j \in DOMAIN ovBox.tables, Drop(i, j)
  PROVE  OvInv'
  <1> DEFINE tables == ovBox.tables
             p == IF i < j THEN j - 1 ELSE j
             now == Seqs!InsertAt(Seqs!RemoveAt(tables, i), p, tables[i])
             m == ModemOf(tables[j])
  <1>1. /\ UNCHANGED <<ovChosen, ovMaps, ovCalls, ovFresh>> /\ ovBox' = [ovBox EXCEPT !.tables = now]
        /\ ovStore' = [ovStore EXCEPT !.order[m] = [k \in DOMAIN now |-> Title(now[k].class)]]
        /\ tables[i].class # tables[j].class
    BY DEF Drop
  <1>2. /\ tables \in Seq(OvTable) /\ TablesOf(tables, ovMaps) /\ i \in DOMAIN tables /\ j \in DOMAIN tables
        /\ ovBox \in [spinner : BOOLEAN, alert : BOOLEAN, tables : Seq(OvTable)]
    BY DEF OvInv, OvShape
  <1> HIDE DEF tables
  <1>3. p \in DOMAIN tables
    <2>1. DOMAIN tables = 1..Len(tables) /\ Len(tables) \in Nat /\ i # j
      BY <1>1, <1>2
    <2> QED
      BY <2>1, <1>2
  <1> HIDE DEF p
  <1>4. now \in Seq(OvTable) /\ DOMAIN now = DOMAIN tables /\ \E at : Permutes(at, now, tables)
    BY <1>2, <1>3, MovedIs
  <1> HIDE DEF now
  <1>5. PICK at : Permutes(at, now, tables)
    BY <1>4
  <1>6. TablesOf(now, ovMaps)
    <2>1. \A n \in DOMAIN tables : at[n] \in DOMAIN tables /\ now[n] = tables[at[n]]
      BY <1>5 DEF Permutes
    <2>2. \A n \in DOMAIN now : now[n].gen \in 1..Len(ovMaps) /\ now[n].class \in Keys(ovMaps[now[n].gen].rows)
      BY <1>2, <1>4, <2>1 DEF TablesOf
    <2>3. ASSUME NEW k \in DOMAIN now, NEW n \in DOMAIN now, k # n
          PROVE  <<now[k].class, now[k].gen>> # <<now[n].class, now[n].gen>>
      <3>1. at[k] # at[n]
        BY <1>4, <1>5, <2>3 DEF Permutes
      <3> DEFINE a == at[k]
                 b == at[n]
      <3>2. a \in DOMAIN tables /\ b \in DOMAIN tables /\ now[k] = tables[a] /\ now[n] = tables[b]
        BY <1>4, <2>1
      <3> HIDE DEF a, b
      <3>3. <<tables[a].class, tables[a].gen>> # <<tables[b].class, tables[b].gen>>
        BY <1>2, <3>1, <3>2 DEF TablesOf, a, b
      <3> QED
        BY <3>2, <3>3
    <2> QED
      BY <2>2, <2>3 DEF TablesOf
  <1>7. ovBox' \in [spinner : BOOLEAN, alert : BOOLEAN, tables : Seq(OvTable)]
        /\ ovBox'.tables = now /\ ovBox'.spinner = ovBox.spinner
    BY <1>1, <1>2, <1>4
  <1>8. m \in OvModems
    <2>1. tables[j].gen \in 1..Len(ovMaps) /\ ovMaps \in Seq(OvMap)
      BY <1>2 DEF TablesOf, OvInv, OvShape
    <2>2. ovMaps[tables[j].gen] \in OvMap
      BY <2>1
    <2> QED
      BY <2>2 DEF ModemOf, OvMap
  <1> HIDE DEF m
  <1> DEFINE titles == [k \in DOMAIN now |-> Title(now[k].class)]
  <1>9. titles \in Seq({Title(c) : c \in OvClasses})
    <2>1. Len(now) \in Nat /\ DOMAIN now = 1..Len(now)
      BY <1>4
    <2>2. \A k \in DOMAIN now : now[k].class \in OvClasses
      <3>1. \A k \in DOMAIN now : now[k] \in OvTable
        BY <1>4
      <3> QED
        BY <3>1 DEF OvTable
    <2>3. titles \in [1..Len(now) -> {Title(c) : c \in OvClasses}]
      BY <2>1, <2>2
    <2> HIDE DEF titles
    <2> QED
      BY <2>1, <2>3
  <1>10. Gen' = Gen
    BY <1>1 DEF Gen
  <1>11. OvShape'
    <2>1. /\ ovStore.order \in [OvModems -> Seq({Title(c) : c \in OvClasses})]
          /\ ovStore = [order |-> ovStore.order, shut |-> ovStore.shut]
          /\ ovStore' = [ovStore EXCEPT !.order[m] = titles]
      BY <1>1 DEF OvInv, OvShape
    <2> HIDE DEF titles
    <2>2. /\ ovStore'.order \in [OvModems -> Seq({Title(c) : c \in OvClasses})]
          /\ ovStore' = [order |-> ovStore'.order, shut |-> ovStore'.shut]
      BY <1>8, <1>9, <2>1
    <2> QED
      BY <1>1, <1>7, <1>10, <2>2 DEF OvInv, OvShape, Title
  <1>12. TablesAreMapped' /\ SpinnerHasCall'
    BY <1>1, <1>6, <1>7 DEF OvInv, OverviewIsLive, TablesAreMapped, TablesOf, SpinnerHasCall
  <1>13. OvTypeOK'
    BY <1>1, <1>10 DEF OvInv, OverviewIsLive, OvTypeOK
  <1> QED
    BY <1>1, <1>6, <1>7, <1>11, <1>12, <1>13 DEF OvInv, OverviewIsLive

LEMMA OvStutterInv == ASSUME OvInv, UNCHANGED ovVars PROVE OvInv'
  BY DEF OvInv, OvShape, OverviewIsLive, OvTypeOK, TablesAreMapped, SpinnerHasCall, TablesOf, Gen, ovVars, Title

LEMMA OvNextInv == ASSUME OvInv, [OvNext]_ovVars PROVE OvInv'
  <1>1. ASSUME NEW m \in OvModems, OvSelect(m) PROVE OvInv'
    BY <1>1, OvSelectInv
  <1>2. ASSUME OvPoll PROVE OvInv'
    BY <1>2, OvPollInv
  <1>3. ASSUME NEW c \in ovCalls, OvFailed(c) PROVE OvInv'
    BY <1>3, OvFailedInv
  <1>4. ASSUME NEW c \in ovCalls, NEW grouped \in Reports, OvAnswered(c, grouped) PROVE OvInv'
    BY <1>4, OvAnsweredInv
  <1>5. ASSUME NEW i \in DOMAIN ovBox.tables, Toggle(i) PROVE OvInv'
    BY <1>5, ToggleInv
  <1>6. ASSUME NEW i \in DOMAIN ovBox.tables, NEW j \in DOMAIN ovBox.tables, Drop(i, j) PROVE OvInv'
    BY <1>6, DropInv
  <1>7. CASE UNCHANGED ovVars
    BY <1>7, OvStutterInv
  <1> QED
    BY <1>1, <1>2, <1>3, <1>4, <1>5, <1>6, <1>7 DEF OvNext

-----------------------------------------------------------------------------
(* Parts and packing.                                                      *)

PduInv == pduText \in Seq(0..127) /\ pduLength \in Nat /\ pduEnc \in {"7bit", "16bit"}

LEMMA PduInitInv == PduInit => PduInv
  BY PduAssumption DEF PduInit, PduInv

LEMMA PduNextInv == ASSUME PduInv, [PduNext]_pduVars PROVE PduInv'
  BY DEF PduInv, PduNext, SendSms, pduVars

\* A message is cut at multiples of the length of a part.
LEMMA SlicesAre ==
  ASSUME NEW n \in Nat, NEW e \in {"7bit", "16bit"}
  PROVE  LET P == Slices(n, e) IN
         IF n <= Whole[e] THEN Len(P) = 1 /\ P[1] = [from |-> 0, to |-> n]
         ELSE /\ Len(P) = Ceil(n, Part[e])
              /\ \A i \in 1..Ceil(n, Part[e]) :
                   P[i] = [from |-> (i - 1) * Part[e], to |-> IF i * Part[e] <= n THEN i * Part[e] ELSE n]
  <1> DEFINE P == Slices(n, e)
             K == Part[e]
             cut == [i \in 1..Ceil(n, K) |-> [from |-> (i - 1) * K, to |-> IF i * K <= n THEN i * K ELSE n]]
  <1>1. CASE n <= Whole[e]
    BY <1>1 DEF Slices
  <1>2. CASE ~(n <= Whole[e])
    <2>1. Ceil(n, K) \in Nat
      BY DEF Ceil, Part
    <2>2. P = cut
      BY <1>2 DEF Slices
    <2> HIDE DEF P
    <2>3. Len(P) = Ceil(n, K)
      <3> HIDE DEF K
      <3> QED
        BY <2>1, <2>2
    <2>4. \A i \in 1..Ceil(n, K) : P[i] = [from |-> (i - 1) * K, to |-> IF i * K <= n THEN i * K ELSE n]
      BY <2>2
    <2> QED
      BY <1>2, <2>3, <2>4 DEF P
  <1> QED
    BY <1>1, <1>2

LEMMA PartsFitHolds == ASSUME PduInv PROVE PartsFit
  <1> DEFINE n == pduLength
             e == pduEnc
             P == Slices(n, e)
             K == Part[e]
             m == Ceil(n, K)
  <1>1. n \in Nat /\ e \in {"7bit", "16bit"}
    BY DEF PduInv
  <1> HIDE DEF n, e
  <1>2. IF n <= Whole[e] THEN Len(P) = 1 /\ P[1] = [from |-> 0, to |-> n]
        ELSE Len(P) = m /\ \A i \in 1..m : P[i] = [from |-> (i - 1) * K, to |-> IF i * K <= n THEN i * K ELSE n]
    BY <1>1, SlicesAre
  <1> HIDE DEF P
  <1>3. CASE n <= Whole[e]
    <2>1. Len(P) = 1 /\ P[1].from = 0 /\ P[1].to = n
      BY <1>2, <1>3
    <2>2. UserData(n, e, 1) <= 140
      <3>1. CASE e = "7bit"
        BY <1>1, <1>3, <3>1 DEF UserData, Octets, Ceil, Whole
      <3>2. CASE e = "16bit"
        BY <1>1, <1>3, <3>2 DEF UserData, Octets, Ceil, Whole
      <3> QED
        BY <1>1, <3>1, <3>2
    <2> QED
      BY <1>1, <2>1, <2>2 DEF PartsFit, Digits, n, e, P
  <1>4. CASE ~(n <= Whole[e])
    <2>1. /\ K \in {153, 66} /\ K < Whole[e] /\ K > 0
          /\ \A k \in 0..K : Octets(k, e) + 6 <= 140
          /\ (m - 1) * K < n /\ n <= m * K /\ m \in Nat /\ m > 1
          /\ \A i \in 1..(m - 1) : i * K < n
          /\ \A i \in 1..m : (i - 1) * K \in Nat /\ i * K = (i - 1) * K + K /\ (i - 1) * K < n
          /\ n <= 255 * K => m <= 255
      <3>1. CASE e = "7bit"
        <4>1. K = 153 /\ Whole[e] = 160
          BY <3>1 DEF Part, Whole
        <4>2. \A k \in 0..153 : Octets(k, e) + 6 <= 140
          BY <3>1 DEF Octets, Ceil
        <4> QED
          BY <1>1, <1>4, <4>1, <4>2 DEF Ceil
      <3>2. CASE e = "16bit"
        <4>1. K = 66 /\ Whole[e] = 70
          BY <3>2 DEF Part, Whole
        <4>2. \A k \in 0..66 : Octets(k, e) + 6 <= 140
          BY <3>2 DEF Octets
        <4> QED
          BY <1>1, <1>4, <4>1, <4>2 DEF Ceil
      <3> QED
        BY <1>1, <3>1, <3>2
    <2>2. Len(P) = m /\ \A i \in 1..m : P[i].from = (i - 1) * K /\ P[i].to = IF i * K <= n THEN i * K ELSE n
      BY <1>2, <1>4
    <2> HIDE DEF K, m
    <2> DEFINE size(i) == P[i].to - P[i].from
    <2>3. P[1].from = 0 /\ P[m].to = n
      <3>1. (1 - 1) * K = 0 /\ 1 \in 1..m /\ m \in 1..m
        BY <2>1
      <3>2. PICK b \in Nat : b = m * K /\ n <= b
        BY <2>1
      <3>3. P[m].to = IF b <= n THEN b ELSE n
        BY <2>2, <3>1, <3>2
      <3> QED
        BY <1>1, <2>2, <3>1, <3>2, <3>3
    <2>4. \A i \in 1..(m - 1) : P[i].to = P[i + 1].from
      BY <1>1, <2>1, <2>2
    <2>5. \A i \in 1..m : P[i].from < P[i].to /\ P[i].to - P[i].from \in 0..K
      <3> SUFFICES ASSUME NEW i \in 1..m PROVE P[i].from < P[i].to /\ P[i].to - P[i].from \in 0..K
        OBVIOUS
      <3>1. PICK a \in Nat : a = (i - 1) * K /\ a < n /\ i * K = a + K
        BY <2>1
      <3>2. P[i].from = a /\ P[i].to = IF a + K <= n THEN a + K ELSE n
        BY <2>2, <3>1
      <3> QED
        BY <1>1, <2>1, <3>1, <3>2
    <2>6. \A i \in 1..m : UserData(P[i].to - P[i].from, e, m) <= 140
      BY <2>1, <2>5 DEF UserData
    <2>7. m = Digits(m) \/ n > 255 * K
      BY <1>1, <2>1 DEF Digits
    <2> QED
      BY <2>2, <2>3, <2>4, <2>5, <2>6, <2>7 DEF PartsFit, n, e, P, K
  <1> QED
    BY <1>3, <1>4

LEMMA Powers ==
  2^0 = 1 /\ 2^1 = 2 /\ 2^2 = 4 /\ 2^3 = 8 /\ 2^4 = 16 /\ 2^5 = 32 /\ 2^6 = 64 /\ 2^7 = 128 /\ 2^8 = 256
  OBVIOUS

\* The septet r places after the start of a group of eight gives r bits to the octet before
\* its own, of which it fills the rest with bits of the next septet.
Round(a, b, c, r) ==
  ((b \div 2^r + (c % 2^(r + 1)) * 2^(7 - r)) % 2^(7 - r)) * 2^r
    + (a \div 2^(r - 1) + (b % 2^((r - 1) + 1)) * 2^(7 - (r - 1))) \div 2^(8 - r)

LEMMA BitsGoRound ==
  \A a, b, c, r : a \in 0..127 /\ b \in 0..127 /\ c \in 0..127 /\ r \in 1..6 => Round(a, b, c, r) = b
  <1> SUFFICES ASSUME NEW a, NEW b, NEW c, NEW r, a \in 0..127 /\ b \in 0..127 /\ c \in 0..127 /\ r \in 1..6
               PROVE  Round(a, b, c, r) = b
    OBVIOUS
  <1>1. Round(a, b, c, 1) = b
    BY Powers DEF Round
  <1>2. Round(a, b, c, 2) = b
    BY Powers DEF Round
  <1>3. Round(a, b, c, 3) = b
    BY Powers DEF Round
  <1>4. Round(a, b, c, 4) = b
    BY Powers DEF Round
  <1>5. Round(a, b, c, 5) = b
    BY Powers DEF Round
  <1>6. Round(a, b, c, 6) = b
    BY Powers DEF Round
  <1>7. r = 1 \/ r = 2 \/ r = 3 \/ r = 4 \/ r = 5 \/ r = 6
    OBVIOUS
  <1> QED
    BY Zenon, <1>1, <1>2, <1>3, <1>4, <1>5, <1>6, <1>7

\* The octets of a text, by the septets they are made of, one text longer than the other.
Octet(t, i) == t[i] \div 2^(i % 8) + (t[i + 1] % 2^((i % 8) + 1)) * 2^(7 - (i % 8))

LEMMA PackedIs ==
  ASSUME NEW text \in Seq(0..127)
  PROVE  LET n == Len(text)
             t == [i \in Nat |-> IF i < n THEN text[i + 1] ELSE 0]
             P == Packed(text)
         IN  /\ Len(P) = n - n \div 8 /\ Len(P) \in Nat
             /\ \A k \in 0..(n - n \div 8 - 1) : P[k + 1] = Octet(t, k + k \div 7)
  <1> DEFINE n == Len(text)
             t == [i \in Nat |-> IF i < n THEN text[i + 1] ELSE 0]
             P == Packed(text)
             oct(k) == Octet(t, (k - 1) + (k - 1) \div 7)
             m == n - n \div 8
  <1>1. n \in Nat /\ m \in Nat
    OBVIOUS
  <1>2. P = [k \in 1..m |-> oct(k)]
    <2> DEFINE at(i) == IF i < Len(text) THEN text[i + 1] ELSE 0
               octet(i) == at(i) \div 2^(i % 8) + (at(i + 1) % 2^((i % 8) + 1)) * 2^(7 - (i % 8))
    <2>1. P = [k \in 1..m |-> octet((k - 1) + (k - 1) \div 7)]
      BY DEF Packed
    <2>2. \A i \in Nat : t[i] = at(i)
      OBVIOUS
    <2>3. \A k \in 1..m : (k - 1) + (k - 1) \div 7 \in Nat /\ (k - 1) + (k - 1) \div 7 + 1 \in Nat
      BY <1>1
    <2>4. \A k \in 1..m : octet((k - 1) + (k - 1) \div 7) = oct(k)
      <3> HIDE DEF t, at, m
      <3> QED
        BY <2>2, <2>3 DEF Octet
    <2> HIDE DEF oct, octet, P, m
    <2> QED
      BY <2>1, <2>4
  <1> HIDE DEF P, m, t
  <1>3. Len(P) = m /\ Len(P) \in Nat
    <2> HIDE DEF oct
    <2> QED
      BY <1>1, <1>2
  <1>4. \A k \in 0..(m - 1) : P[k + 1] = Octet(t, k + k \div 7)
    <2> SUFFICES ASSUME NEW k \in 0..(m - 1) PROVE P[k + 1] = Octet(t, k + k \div 7)
      OBVIOUS
    <2>1. k + 1 \in 1..m /\ (k + 1) - 1 = k
      BY <1>1
    <2>2. P[k + 1] = oct(k + 1)
      <3> HIDE DEF oct
      <3> QED
        BY <1>2, <2>1
    <2> QED
      BY <2>1, <2>2
  <1> QED
    BY <1>3, <1>4 DEF P, m, t

\* The octets after the end are those of a text that goes on with zeros.
LEMMA ZerosFollow ==
  ASSUME NEW n \in Nat, NEW t, \A i \in Nat : i >= n => t[i] = 0, NEW k \in Nat, k >= n - n \div 8
  PROVE  Octet(t, k + k \div 7) = 0
  <1> DEFINE i == k + k \div 7
  <1>1. i \in Nat /\ i >= n
    OBVIOUS
  <1>2. t[i] = 0 /\ t[i + 1] = 0
    BY <1>1
  <1> HIDE DEF i
  <1> DEFINE Goal(r) == 0 \div 2^r + (0 % 2^(r + 1)) * 2^(7 - r) = 0
  <1>3. Goal(0) /\ Goal(1) /\ Goal(2) /\ Goal(3) /\ Goal(4) /\ Goal(5) /\ Goal(6) /\ Goal(7)
    BY Powers
  <1>4. i % 8 \in 0..7
    BY <1>1
  <1>5. \A r \in 0..7 : r = 0 \/ r = 1 \/ r = 2 \/ r = 3 \/ r = 4 \/ r = 5 \/ r = 6 \/ r = 7
    OBVIOUS
  <1>6. Goal(i % 8)
    <2> HIDE DEF Goal
    <2> QED
      BY <1>3, <1>4, <1>5
  <1> QED
    BY <1>2, <1>6 DEF Octet, i

\* A group of eight septets is read from seven octets.
LEMMA SeptetIs ==
  ASSUME NEW t, \A i \in Nat : t[i] \in 0..127, NEW at, \A k \in Nat : at[k] = Octet(t, k + k \div 7),
         NEW j \in Nat
  PROVE  LET k == 7 * (j \div 8) + (j % 8)
         IN  (IF j % 8 = 7 THEN 0 ELSE (at[k] % 2^(7 - (j % 8))) * 2^(j % 8))
               + (IF j % 8 = 0 THEN 0 ELSE at[k - 1] \div 2^(8 - (j % 8))) = t[j]
  <1> DEFINE r == j % 8
             k == 7 * (j \div 8) + r
             Sum(q) == (IF q = 7 THEN 0 ELSE (at[k] % 2^(7 - q)) * 2^q)
                         + (IF q = 0 THEN 0 ELSE at[k - 1] \div 2^(8 - q))
  <1>1. r \in 0..7 /\ k \in Nat
    OBVIOUS
  <1>2. r # 7 => k + k \div 7 = j
    OBVIOUS
  <1>3. r # 0 => k - 1 \in Nat /\ (k - 1) + (k - 1) \div 7 = j - 1 /\ j - 1 \in Nat /\ (j - 1) % 8 = r - 1
    OBVIOUS
  <1> HIDE DEF k
  <1>4. r # 7 => at[k] = t[j] \div 2^r + (t[j + 1] % 2^(r + 1)) * 2^(7 - r)
    <2> SUFFICES ASSUME r # 7 PROVE at[k] = t[j] \div 2^r + (t[j + 1] % 2^(r + 1)) * 2^(7 - r)
      OBVIOUS
    <2>1. at[k] = Octet(t, j)
      BY <1>1, <1>2
    <2> QED
      BY <2>1 DEF Octet
  <1>5. r # 0 => at[k - 1] = t[j - 1] \div 2^(r - 1) + (t[j] % 2^((r - 1) + 1)) * 2^(7 - (r - 1))
    <2> SUFFICES ASSUME r # 0
                 PROVE  at[k - 1] = t[j - 1] \div 2^(r - 1) + (t[j] % 2^((r - 1) + 1)) * 2^(7 - (r - 1))
      OBVIOUS
    <2> DEFINE i == j - 1
    <2>1. at[k - 1] = Octet(t, i) /\ i % 8 = r - 1 /\ i + 1 = j
      BY <1>3
    <2> HIDE DEF i, r
    <2>2. Octet(t, i) = t[i] \div 2^(r - 1) + (t[j] % 2^((r - 1) + 1)) * 2^(7 - (r - 1))
      BY <2>1 DEF Octet
    <2> QED
      BY <2>1, <2>2 DEF i
  <1>6. t[j] \in 0..127 /\ t[j + 1] \in 0..127 /\ (r # 0 => t[j - 1] \in 0..127)
    BY <1>3
  <1> HIDE DEF r
  <1>7. ASSUME r \in 1..6 PROVE Sum(r) = t[j]
    <2> DEFINE x == t[j - 1]
               y == t[j]
               z == t[j + 1]
    <2>1. x \in 0..127 /\ y \in 0..127 /\ z \in 0..127
      BY <1>6, <1>7
    <2> HIDE DEF x, y, z
    <2>2. Round(x, y, z, r) = y
      BY <1>7, <2>1, BitsGoRound
    <2>3. r # 7 /\ r # 0
      BY <1>7
    <2>4. /\ at[k] = y \div 2^r + (z % 2^(r + 1)) * 2^(7 - r)
          /\ at[k - 1] = x \div 2^(r - 1) + (y % 2^((r - 1) + 1)) * 2^(7 - (r - 1))
      BY <1>4, <1>5, <2>3 DEF x, y, z
    <2>5. (at[k] % 2^(7 - r)) * 2^r + at[k - 1] \div 2^(8 - r) = y
      BY Zenon, <2>2, <2>4 DEF Round
    <2> QED
      BY <2>3, <2>5 DEF y
  <1>8. ASSUME r = 0 PROVE Sum(r) = t[j]
    <2>1. at[k] = t[j] \div 2^0 + (t[j + 1] % 2^1) * 2^7
      BY <1>4, <1>8
    <2>2. (at[k] % 2^7) * 2^0 = t[j]
      BY <1>6, <2>1, Powers
    <2>3. Sum(0) = t[j]
      BY <1>6, <2>2
    <2> HIDE DEF Sum
    <2> QED
      BY <1>8, <2>3
  <1>9. ASSUME r = 7 PROVE Sum(r) = t[j]
    <2>1. at[k - 1] = t[j - 1] \div 2^6 + (t[j] % 2^7) * 2^1
      BY <1>5, <1>9
    <2>2. at[k - 1] \div 2^1 = t[j]
      BY <1>6, <1>9, <2>1, Powers
    <2>3. Sum(7) = t[j]
      BY <1>6, <2>2
    <2> HIDE DEF Sum
    <2> QED
      BY <1>9, <2>3
  <1>10. Sum(r) = t[j]
    <2> HIDE DEF Sum
    <2>1. r \in 1..6 \/ r = 0 \/ r = 7
      BY <1>1
    <2> QED
      BY <1>7, <1>8, <1>9, <2>1
  <1> QED
    BY <1>10 DEF k, r

LEMMA UnpackedIsTextHolds == ASSUME PduInv PROVE UnpackedIsText
  <1> DEFINE text == pduText
             n == Len(text)
             t == [i \in Nat |-> IF i < n THEN text[i + 1] ELSE 0]
             m == n - n \div 8
             P == Packed(text)
             U == Unpacked(P)
             get(k) == IF k \in 0..(Len(P) - 1) THEN P[k + 1] ELSE 0
             at == [k \in Nat |-> get(k)]
  <1>1. text \in Seq(0..127) /\ n \in Nat /\ m \in Nat
    BY DEF PduInv
  <1> HIDE DEF text
  <1>2. Len(P) = m /\ \A k \in 0..(m - 1) : P[k + 1] = Octet(t, k + k \div 7)
    BY <1>1, PackedIs
  <1>3. (\A i \in Nat : t[i] \in 0..127) /\ (\A i \in Nat : i >= n => t[i] = 0)
    <2>1. \A i \in Nat : i < n => i + 1 \in 1..n
      BY <1>1
    <2>2. \A i \in 1..n : text[i] \in 0..127
      BY <1>1, ElementOfSeq
    <2> HIDE DEF n
    <2> QED
      BY <1>1, <2>1, <2>2
  <1>4. \A i \in 1..n : t[i - 1] = text[i]
    BY <1>1
  <1> HIDE DEF t, P
  <1>5. \A k \in Nat : at[k] = Octet(t, k + k \div 7)
    <2> SUFFICES ASSUME NEW k \in Nat PROVE at[k] = Octet(t, k + k \div 7)
      OBVIOUS
    <2>1. CASE k < m
      <3>1. k \in 0..(m - 1) /\ at[k] = get(k)
        BY <1>1, <2>1
      <3> HIDE DEF at
      <3> QED
        BY <1>2, <3>1
    <2>2. CASE k >= m
      BY <1>1, <1>2, <1>3, <2>2, ZerosFollow
    <2> QED
      BY <1>1, <2>1, <2>2
  <1>6. U = [j \in 1..(8 * m) |-> t[j - 1]]
    <2> DEFINE septet(j) == LET k == 7 * (j \div 8) + (j % 8) IN
                 (IF j % 8 = 7 THEN 0 ELSE (get(k) % 2^(7 - (j % 8))) * 2^(j % 8))
                   + (IF j % 8 = 0 THEN 0 ELSE get(k - 1) \div 2^(8 - (j % 8)))
    <2>1. U = [j \in 1..(8 * Len(P)) |-> septet(j - 1)]
      BY DEF Unpacked
    <2>2. ASSUME NEW j \in Nat PROVE septet(j) = t[j]
      <3> DEFINE k == 7 * (j \div 8) + (j % 8)
      <3>1. (IF j % 8 = 7 THEN 0 ELSE (at[k] % 2^(7 - (j % 8))) * 2^(j % 8))
              + (IF j % 8 = 0 THEN 0 ELSE at[k - 1] \div 2^(8 - (j % 8))) = t[j]
        <4> HIDE DEF at
        <4> QED
          BY <1>3, <1>5, SeptetIs
      <3>2. k \in Nat /\ (j % 8 # 0 => k - 1 \in Nat)
        OBVIOUS
      <3> HIDE DEF k
      <3>3. at[k] = get(k) /\ (j % 8 # 0 => at[k - 1] = get(k - 1))
        <4> HIDE DEF get
        <4> QED
          BY <3>2 DEF at
      <3> HIDE DEF at, get
      <3>4. septet(j) = (IF j % 8 = 7 THEN 0 ELSE (get(k) % 2^(7 - (j % 8))) * 2^(j % 8))
                          + (IF j % 8 = 0 THEN 0 ELSE get(k - 1) \div 2^(8 - (j % 8)))
        BY DEF k
      <3> HIDE DEF septet
      <3> QED
        BY <3>1, <3>3, <3>4
    <2>3. \A j \in 1..(8 * m) : j - 1 \in Nat
      BY <1>1
    <2> HIDE DEF septet, m, U
    <2> QED
      BY <1>2, <2>1, <2>2, <2>3
  <1> HIDE DEF U
  <1>7. Len(U) = 8 * m /\ 8 * m \in Nat /\ n <= 8 * m
    <2>1. 8 * m \in Nat /\ n <= 8 * m
      BY <1>1
    <2> HIDE DEF m
    <2> QED
      BY <1>6, <2>1
  <1>8. SubSeq(U, 1, n) = text
    <2>1. \A i \in 1..n : U[i] = text[i] /\ U[i] \in 0..127
      <3>1. \A i \in 1..n : i \in 1..(8 * m) /\ text[i] \in 0..127
        BY <1>1, <1>7, ElementOfSeq
      <3> HIDE DEF n, m
      <3> QED
        BY <1>4, <1>6, <3>1
    <2> HIDE DEF n
    <2>2. /\ SubSeq(U, 1, n) \in Seq(0..127) /\ Len(SubSeq(U, 1, n)) = IF 1 <= n THEN n - 1 + 1 ELSE 0
          /\ \A i \in 1..(n - 1 + 1) : SubSeq(U, 1, n)[i] = U[1 + i - 1]
      BY <1>1, <2>1, SubSeqProperties
    <2>3. /\ Len(SubSeq(U, 1, n)) = Len(text)
          /\ \A i \in 1..Len(text) : SubSeq(U, 1, n)[i] = text[i]
      BY <1>1, <2>1, <2>2 DEF n
    <2> QED
      BY <1>1, <2>2, <2>3
  <1>9. \A i \in (n + 1)..Len(U) : U[i] = 0
    BY <1>1, <1>3, <1>6, <1>7
  <1>10. Len(P) = Octets(n, "7bit")
    <2>1. (7 * n + 8 - 1) \div 8 = n - n \div 8
      BY <1>1
    <2> QED
      BY <1>2, <2>1 DEF Octets, Ceil
  <1> QED
    BY <1>8, <1>9, <1>10 DEF UnpackedIsText, U, P, text

LEMMA PduTells == PduInv => EncodedWhole
  BY PartsFitHolds, UnpackedIsTextHolds DEF EncodedWhole

-----------------------------------------------------------------------------
(* The box of the status overview.                                         *)

BaseEntries == Entries({"base", "other"})
CellEntries == Entries({"cell", "other"})

BoxInv ==
  /\ DOMAIN boxInfo = DOMAIN Sections
  /\ \A i \in DOMAIN Sections : /\ DOMAIN boxInfo[i] = Halves
                                /\ boxInfo[i]["base"] \in BaseEntries /\ boxInfo[i]["cell"] \in CellEntries

LEMMA BoxInitInv == BoxInit => BoxInv
  <1> SUFFICES ASSUME BoxInit PROVE BoxInv
    OBVIOUS
  <1>1. <<>> \in BaseEntries /\ <<>> \in CellEntries
    BY DEF BaseEntries, CellEntries, Entries
  <1> QED
    BY <1>1 DEF BoxInit, BoxInv, Halves

LEMMA BoxNextInv == ASSUME BoxInv, [BoxNext]_boxVars PROVE BoxInv'
  <1>1. BaseInfos \subseteq BaseEntries /\ CellInfos \subseteq CellEntries
    BY BoxAssumption DEF BaseEntries, CellEntries
  <1>2. ASSUME NEW i \in DOMAIN Sections, NEW p \in Halves, NEW info, BoxAnswered(i, p, info),
               p = "base" => info \in BaseEntries, p = "cell" => info \in CellEntries
        PROVE  BoxInv'
    <2>1. boxInfo' = [boxInfo EXCEPT ![i][p] = info]
      BY <1>2 DEF BoxAnswered
    <2>2. DOMAIN boxInfo' = DOMAIN Sections
      BY <2>1 DEF BoxInv
    <2>3. ASSUME NEW k \in DOMAIN Sections
          PROVE  /\ DOMAIN boxInfo'[k] = Halves
                 /\ boxInfo'[k]["base"] \in BaseEntries /\ boxInfo'[k]["cell"] \in CellEntries
      <3>1. boxInfo'[k] = IF k = i THEN [boxInfo[i] EXCEPT ![p] = info] ELSE boxInfo[k]
        BY <2>1 DEF BoxInv
      <3>2. DOMAIN boxInfo[i] = Halves
        BY DEF BoxInv
      <3> QED
        BY <1>2, <3>1, <3>2 DEF BoxInv, Halves
    <2> QED
      BY <2>2, <2>3 DEF BoxInv
  <1>3. CASE UNCHANGED boxVars
    BY <1>3 DEF boxVars, BoxInv
  <1>4. CASE BoxNext
    <2>1. ASSUME NEW i \in DOMAIN Sections, NEW info \in BaseInfos, BoxAnswered(i, "base", info) PROVE BoxInv'
      BY <1>1, <1>2, <2>1 DEF Halves
    <2>2. ASSUME NEW i \in DOMAIN Sections, NEW info \in CellInfos, BoxAnswered(i, "cell", info) PROVE BoxInv'
      BY <1>1, <1>2, <2>2 DEF Halves
    <2>3. ASSUME NEW i, NEW p, BoxFailed(i, p) PROVE BoxInv'
      BY <2>3 DEF BoxFailed, BoxInv
    <2>4. CASE BoxRendered
      BY <2>4 DEF BoxRendered, BoxInv
    <2> QED
      BY <1>4, <2>1, <2>2, <2>3, <2>4 DEF BoxNext
  <1> QED
    BY <1>3, <1>4

LEMMA ClassOf ==
  ASSUME NEW classes, NEW s \in Entries(classes)
  PROVE  Len(s) \in Nat /\ \A i \in 1..Len(s) : s[i].class \in classes
  <1> DEFINE Entry == [class : classes, bar : BOOLEAN, value : BOOLEAN]
  <1>1. s \in Seq(Entry)
    BY DEF Entries
  <1>2. \A e \in Entry : e.class \in classes
    OBVIOUS
  <1> HIDE DEF Entry
  <1>3. Len(s) \in Nat /\ \A i \in 1..Len(s) : s[i] \in Entry
    BY <1>1, ElementOfSeq
  <1> QED
    BY <1>2, <1>3

\* Of what two calls report, lines of the second follow those of the first.
LEMMA CellAfterBase ==
  ASSUME NEW b \in BaseEntries, NEW c \in CellEntries
  PROVE  \A j, k \in DOMAIN Lines(b \o c) :
           (Lines(b \o c)[j].class = "cell" /\ Lines(b \o c)[k].class = "base") => k < j
  <1> DEFINE s == b \o c
             K == {i \in DOMAIN s : IsLine(s[i])}
             L == Lines(s)
  <1>1. /\ Len(b) \in Nat /\ Len(c) \in Nat
        /\ \A i \in 1..Len(b) : b[i].class \in {"base", "other"}
        /\ \A i \in 1..Len(c) : c[i].class \in {"cell", "other"}
    <2>1. b \in Entries({"base", "other"}) /\ c \in Entries({"cell", "other"})
      BY DEF BaseEntries, CellEntries
    <2> QED
      BY <2>1, ClassOf
  <1>2. /\ DOMAIN s = 1..(Len(b) + Len(c))
        /\ \A i \in 1..(Len(b) + Len(c)) : s[i] = IF i <= Len(b) THEN b[i] ELSE c[i - Len(b)]
    BY DEF BaseEntries, CellEntries, Entries
  <1> HIDE DEF s
  <1>3. \A i \in DOMAIN s : /\ i \in Nat
                            /\ s[i].class = "cell" => i > Len(b)
                            /\ s[i].class = "base" => i <= Len(b)
    <2> SUFFICES ASSUME NEW i \in DOMAIN s
                 PROVE  i \in Nat /\ (s[i].class = "cell" => i > Len(b)) /\ (s[i].class = "base" => i <= Len(b))
      OBVIOUS
    <2>1. CASE i <= Len(b)
      BY <1>1, <1>2, <2>1
    <2>2. CASE i > Len(b)
      <3>1. i - Len(b) \in 1..Len(c) /\ s[i] = c[i - Len(b)]
        BY <1>1, <1>2, <2>2
      <3>2. s[i].class \in {"cell", "other"}
        BY <1>1, <3>1
      <3> QED
        BY <1>1, <1>2, <2>2, <3>2
    <2> QED
      BY <1>1, <1>2, <2>1, <2>2
  <1>4. K \in SUBSET (1..(Len(b) + Len(c))) /\ IsFiniteSet(1..(Len(b) + Len(c)))
    BY <1>1, <1>2, FS_Interval
  <1>5. IsFiniteSet(K) /\ K \subseteq Nat /\ K \subseteq DOMAIN s
    <2>1. IsFiniteSet(K)
      <3> HIDE DEF K
      <3> QED
        BY <1>4, FS_Subset
    <2> QED
      BY <1>3, <2>1
  <1>6. L = Picked(s, K)
    BY DEF Lines
  <1> HIDE DEF K, L
  <1>7. PICK at : TakesOnce(s, K, at)
    BY <1>5, PickedIs
  <1>8. Cardinality(K) \in Nat
    BY <1>5, FS_CardinalityType
  <1>9. ASSUME NEW j \in DOMAIN L, NEW k \in DOMAIN L, L[j].class = "cell", L[k].class = "base"
        PROVE  k < j
    <2>1. j \in 1..Cardinality(K) /\ k \in 1..Cardinality(K) /\ L[j] = s[at[j]] /\ L[k] = s[at[k]]
      BY <1>6, <1>7 DEF TakesOnce
    <2>2. at[j] \in DOMAIN s /\ at[k] \in DOMAIN s
      BY <1>5, <1>7, <2>1 DEF TakesOnce
    <2>3. at[j] \in Nat /\ at[k] \in Nat /\ at[j] > Len(b) /\ at[k] <= Len(b)
      BY <1>3, <1>9, <2>1, <2>2
    <2>4. ~(j < k) /\ j # k
      <3>1. j < k => at[j] < at[k]
        BY <1>7, <2>1 DEF TakesOnce
      <3> QED
        BY <1>1, <2>3, <3>1
    <2> QED
      BY <1>8, <2>1, <2>4
  <1> QED
    BY <1>9 DEF L, s

LEMMA BoxTells == BoxInv => VersionsAgree
  <1> SUFFICES ASSUME BoxInv, 1 \in DOMAIN Sections, Rows[1] # <<>>
               PROVE  /\ Seqs!FlattenSeq(Rows) = OldLines([i \in DOMAIN Sections |-> InfoOf(i)])
                      /\ \A i \in DOMAIN Rows : \A j, k \in DOMAIN Rows[i] :
                           (Rows[i][j].class = "cell" /\ Rows[i][k].class = "base") => k < j
    BY DEF VersionsAgree
  <1> DEFINE infos == [i \in DOMAIN Sections |-> InfoOf(i)]
  <1>1. Len(Sections) \in Nat /\ DOMAIN Sections = 1..Len(Sections)
    BY BoxAssumption
  <1>2. DOMAIN infos = 1..Len(Sections) /\ Len(infos) = Len(Sections)
    <2> HIDE DEF InfoOf
    <2> QED
      BY <1>1
  <1>3. Rows = [i \in 1..Len(infos) |-> Lines(infos[i])]
    <2>1. \A i \in 1..Len(infos) : Lines(infos[i]) = Lines(InfoOf(i))
      BY <1>2
    <2> HIDE DEF infos
    <2> QED
      BY <1>1, <1>2, <2>1 DEF Rows
  <1>4. Lines(infos[1]) # <<>>
    BY DEF Rows
  <1> HIDE DEF infos
  <1>5. ~ \E n \in DOMAIN infos : \A i \in 1..n : Lines(infos[i]) = <<>>
    <2> SUFFICES ASSUME NEW n \in DOMAIN infos, \A i \in 1..n : Lines(infos[i]) = <<>> PROVE FALSE
      OBVIOUS
    <2>1. 1 \in 1..n
      BY <1>1, <1>2
    <2> QED
      BY <1>4, <2>1
  <1>6. Seqs!FlattenSeq(Rows) = OldLines(infos)
    BY Zenon, <1>3, <1>5 DEF OldLines
  <1>7. ASSUME NEW i \in DOMAIN Rows, NEW j \in DOMAIN Rows[i], NEW k \in DOMAIN Rows[i],
               Rows[i][j].class = "cell", Rows[i][k].class = "base"
        PROVE  k < j
    <2>1. i \in DOMAIN Sections /\ Rows[i] = Lines(boxInfo[i]["base"] \o boxInfo[i]["cell"])
      BY DEF Rows, InfoOf
    <2>2. boxInfo[i]["base"] \in BaseEntries /\ boxInfo[i]["cell"] \in CellEntries
      BY <2>1 DEF BoxInv
    <2> QED
      BY <1>7, <2>1, <2>2, CellAfterBase
  <1> QED
    BY <1>6, <1>7 DEF infos

-----------------------------------------------------------------------------
(* The composition: a behaviour of it is, for each page, one of that page.  *)

pageVars == <<page, radioPages, smsPages, scriptPages>>

LEMMA InitProjects ==
  Init => /\ SimInit /\ AtInit /\ AdvInit /\ OvInit /\ BoxInit /\ SmsInit /\ PduInit /\ FwInit
          /\ DialInit /\ LogInit /\ MonInit /\ FormInit /\ SetInit /\ FormsInit
  BY DEF Init

LEMMA RadioProjects ==
  [Next]_pageVars =>
    [SimNext]_simVars /\ [AtNext]_atVars /\ [AdvNext]_advVars /\ [OvNext]_ovVars /\ [BoxNext]_boxVars
  <1> SUFFICES ASSUME [Next]_pageVars
               PROVE  [SimNext]_simVars /\ [AtNext]_atVars /\ [AdvNext]_advVars /\ [OvNext]_ovVars /\ [BoxNext]_boxVars
    OBVIOUS
  <1>1. CASE UNCHANGED radioPages
    BY <1>1 DEF radioPages
  <1>2. CASE \/ page = "advanced" /\ AdvNext /\ UNCHANGED <<ovVars, boxVars, simVars, atVars>>
             \/ page = "overview" /\ OvNext /\ UNCHANGED <<advVars, boxVars, simVars, atVars>>
             \/ page = "box" /\ BoxNext /\ UNCHANGED <<advVars, ovVars, simVars, atVars>>
             \/ page = "sim" /\ SimNext /\ UNCHANGED <<advVars, ovVars, boxVars, atVars>>
             \/ page = "debug" /\ AtNext /\ UNCHANGED <<advVars, ovVars, boxVars, simVars>>
    BY <1>2
  <1> QED
    BY <1>1, <1>2 DEF Next, pageVars

LEMMA SmsProjects == [Next]_pageVars => [SmsNext]_smsVars /\ [PduNext]_pduVars /\ [FwNext]_fwVars
  <1> SUFFICES ASSUME [Next]_pageVars PROVE [SmsNext]_smsVars /\ [PduNext]_pduVars /\ [FwNext]_fwVars
    OBVIOUS
  <1>1. CASE UNCHANGED smsPages
    BY <1>1 DEF smsPages
  <1>2. CASE \/ page = "sms" /\ SmsNext /\ UNCHANGED <<pduVars, fwVars>>
             \/ page = "pdu" /\ PduNext /\ UNCHANGED <<smsVars, fwVars>>
             \/ page = "forward" /\ FwNext /\ UNCHANGED <<smsVars, pduVars>>
    BY <1>2
  <1> QED
    BY <1>1, <1>2 DEF Next, pageVars

LEMMA ScriptsProject ==
  [Next]_pageVars =>
    /\ [DialNext]_dialVars /\ [LogNext]_logVars /\ [MonNext]_monVars /\ [SetNext]_setVars
    /\ [FormNext]_monitorCfg /\ [FormsNext]_<<form, stored>>
  <1> SUFFICES ASSUME [Next]_pageVars
               PROVE  /\ [DialNext]_dialVars /\ [LogNext]_logVars /\ [MonNext]_monVars /\ [SetNext]_setVars
                      /\ [FormNext]_monitorCfg /\ [FormsNext]_<<form, stored>>
    OBVIOUS
  <1>1. CASE UNCHANGED scriptPages
    BY <1>1 DEF scriptPages
  <1>2. CASE \/ page = "monitor" /\ MonNext /\ UNCHANGED <<monitorCfg, dialVars, logVars, setVars, form, stored>>
             \/ page = "monitor form" /\ FormNext /\ UNCHANGED <<monVars, dialVars, logVars, setVars, form, stored>>
             \/ page = "dial cells" /\ (CellSteps \/ SharedSteps) /\ UNCHANGED <<monVars, monitorCfg, logVars, setVars, form, stored>>
             \/ page = "dial service" /\ (ServiceSteps \/ SharedSteps) /\ UNCHANGED <<monVars, monitorCfg, logVars, setVars, form, stored>>
             \/ page = "dial log" /\ LogNext /\ UNCHANGED <<monVars, monitorCfg, dialVars, setVars, form, stored>>
             \/ page = "settings" /\ SetNext /\ UNCHANGED <<monVars, monitorCfg, dialVars, logVars, form, stored>>
             \/ page = "forms" /\ FormsNext /\ UNCHANGED <<monVars, monitorCfg, dialVars, logVars, setVars>>
    BY <1>2 DEF DialNext
  <1> QED
    BY <1>1, <1>2 DEF Next, pageVars

\* The SIM and AT tools name the modem they act for: at most one switch of a SIM is under
\* way, the slot that is marked is the one the modem is in, and a response is shown under
\* the modem it came from.
THEOREM ToolsShowModemHolds == Spec => []ToolsShowModem
  <1>1. Init => SimInv /\ AtInv
    BY InitProjects, SimInitInv, AtInitInv
  <1>2. SimInv /\ AtInv /\ [Next]_pageVars => (SimInv /\ AtInv)'
    BY RadioProjects, SimNextInv, AtNextInv
  <1>3. SimInv /\ AtInv => ToolsShowModem
    BY SimTells, AtTells DEF ToolsShowModem
  <1> QED
    BY <1>1, <1>2, <1>3, PTL DEF Spec, pageVars

\* Whatever is sent, deleted or moved, and whichever answers are late or fail, the message
\* views are left neither with a spinner no load will replace nor with a dialog nothing
\* closes, send a message once, and shift the times they show as the boxes say now.
THEOREM SmsPageGoesOnHolds == Spec => []SmsPageGoesOn
  <1>1. Init => SmsInv
    BY InitProjects, SmsInitInv
  <1>2. SmsInv /\ [Next]_pageVars => SmsInv'
    BY SmsProjects, SmsNextInv
  <1>3. SmsInv => SmsPageGoesOn
    BY SmsTells
  <1> QED
    BY <1>1, <1>2, <1>3, PTL DEF Spec, pageVars

\* The controls of the dial page agree with each other: no buttons for a modem whose dialling
\* is off, none that contradict the status line, and no dialog with the log of another modem.
THEOREM ControlsAgreeHolds == Spec => []ControlsAgree
  <1>1. Init => DialInv /\ LogInv
    BY InitProjects, DialInitInv, LogInitInv
  <1>2. DialInv /\ LogInv /\ [Next]_pageVars => (DialInv /\ LogInv)'
    BY ScriptsProject, DialNextInv, LogNextInv
  <1>3. DialInv /\ LogInv => ControlsAgree
    BY DialTells
  <1> QED
    BY <1>1, <1>2, <1>3, PTL DEF Spec, pageVars

\* However the answers for an interface overlap on the advanced page, what it sends is what
\* it shows: the band boxes are the draft Apply sends, Apply waits for no earlier call, and
\* an NR lock is sent with its band.
THEOREM SettingsSentAsShownHolds == Spec => []SettingsSentAsShown
  <1>1. Init => AdvInv
    BY InitProjects, AdvInitInv
  <1>2. AdvInv /\ [Next]_pageVars => AdvInv'
    BY RadioProjects, AdvNextInv
  <1>3. AdvInv => SettingsSentAsShown
    BY AdvTells
  <1> QED
    BY <1>1, <1>2, <1>3, PTL DEF Spec, pageVars

\* Whatever crosses, no table stays that no later answer can update or remove, dragging loses
\* and doubles none, and a spinner has a refresh to wait for.
THEOREM OverviewIsLiveHolds == Spec => []OverviewIsLive
  <1>1. Init => OvInv
    BY InitProjects, OvInitInv
  <1>2. OvInv /\ [Next]_pageVars => OvInv'
    BY RadioProjects, OvNextInv
  <1>3. OvInv => OverviewIsLive
    BY DEF OvInv
  <1> QED
    BY <1>1, <1>2, <1>3, PTL DEF Spec, pageVars

\* At rest, after any actions, failed ones too, the monitor page shows the service and the
\* scripts as the router has them, and the settings the devices that are configured.
THEOREM ShownIsCurrentHolds == Spec => []ShownIsCurrent
  <1>1. Init => MonInv /\ SetInv
    BY InitProjects, MonInitInv, SetInitInv
  <1>2. MonInv /\ SetInv /\ [Next]_pageVars => (MonInv /\ SetInv)'
    BY ScriptsProject, MonNextInv, SetNextInv
  <1>3. MonInv /\ SetInv => ShownIsCurrent
    BY MonTells, SetTells DEF ShownIsCurrent
  <1> QED
    BY <1>1, <1>2, <1>3, PTL DEF Spec, pageVars

\* Whatever is filled in and saved, no form leaves an option in the configuration that
\* belongs to another choice than the one saved with it.
THEOREM NoStaleOptionsHolds == Spec => []NoStaleOptions
  <1>1. Init => OneTarget /\ NothingLeftBehind /\ FwInv
    BY InitProjects, FormInitInv, FormsInitInv, FwInitInv
  <1>2. OneTarget /\ NothingLeftBehind /\ FwInv /\ [Next]_pageVars => (OneTarget /\ NothingLeftBehind /\ FwInv)'
    BY ScriptsProject, SmsProjects, FormNextInv, FormsNextInv, FwNextInv
  <1>3. OneTarget /\ NothingLeftBehind /\ FwInv => NoStaleOptions
    BY FwTells DEF NoStaleOptions
  <1> QED
    BY <1>1, <1>2, <1>3, PTL DEF Spec, pageVars

\* Every message that is sent is cut into parts that cover it, none too long for what carries
\* it, and what is packed into octets is what the reader unpacks.
THEOREM EncodedWholeHolds == Spec => []EncodedWhole
  <1>1. Init => PduInv
    BY InitProjects, PduInitInv
  <1>2. PduInv /\ [Next]_pageVars => PduInv'
    BY SmsProjects, PduNextInv
  <1>3. PduInv => EncodedWhole
    BY PduTells
  <1> QED
    BY <1>1, <1>2, <1>3, PTL DEF Spec, pageVars

\* Whatever the order of the answers, the two versions of the box on the status overview show
\* the same lines in the same order, those of a modem's cell last, if the first modem has any.
THEOREM VersionsAgreeHolds == Spec => []VersionsAgree
  <1>1. Init => BoxInv
    BY InitProjects, BoxInitInv
  <1>2. BoxInv /\ [Next]_pageVars => BoxInv'
    BY RadioProjects, BoxNextInv
  <1>3. BoxInv => VersionsAgree
    BY BoxTells
  <1> QED
    BY <1>1, <1>2, <1>3, PTL DEF Spec, pageVars

===============================================================================
