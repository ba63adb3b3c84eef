---------------------------- MODULE ModemPages ----------------------------
(* The pages of luci-app-qmodem-next, one of which is open: they share no     *)
(* state, so a behaviour is that of one page.                                 *)
EXTENDS AdvancedPage, OverviewPage, StatusBox, ModemTools, SmsPages, SmsPdu, SmsForward,
        MonitorPage, DialPage, ModemSettings

VARIABLE page
radioPages == <<advVars, ovVars, boxVars, simVars, atVars>>
smsPages == <<smsVars, pduVars, fwVars>>
scriptPages == <<monVars, monitorCfg, dialVars, logVars, setVars, form, stored>>

\* A page that is not open stays in the first of its initial states.
Init ==
  /\ page \in {"advanced", "overview", "box", "sim", "debug", "sms", "pdu", "forward", "monitor",
               "monitor form", "dial cells", "dial service", "dial log", "settings", "forms"}
  /\ AdvInit /\ OvInit /\ BoxInit /\ AtInit /\ FwInit /\ FormInit /\ LogInit /\ FormsInit
  /\ SimInit /\ (page # "sim" => \A m, n \in ToolModems : simSlot[m] = simSlot[n] /\ simSlot[m] = CHOOSE s \in Slots : TRUE)
  /\ SmsInit /\ (page # "sms" => smsView = "list")
  /\ PduInit /\ (page # "pdu" => pduEnc = "7bit" /\ pduText = <<>> /\ pduLength = 0)
  /\ MonInit
  /\ page # "monitor" => /\ ~service.enabled /\ ~service.running /\ rcShown = NoStatus /\ listed = {}
  /\ DialInit
  /\ page # "dial service" => network = [enabled |-> FALSE, running |-> FALSE] /\ rcData = NoStatus
  /\ page # "dial cells" => \A m \in Dialers : ~dialOn[m] /\ dot[m].kept = "grey"
  /\ SetInit /\ (page # "settings" => plugged = {})

Next ==
  /\ UNCHANGED page
  /\ \/ /\ UNCHANGED <<smsPages, scriptPages>>
        /\ \/ page = "advanced" /\ AdvNext /\ UNCHANGED <<ovVars, boxVars, simVars, atVars>>
           \/ page = "overview" /\ OvNext /\ UNCHANGED <<advVars, boxVars, simVars, atVars>>
           \/ page = "box" /\ BoxNext /\ UNCHANGED <<advVars, ovVars, simVars, atVars>>
           \/ page = "sim" /\ SimNext /\ UNCHANGED <<advVars, ovVars, boxVars, atVars>>
           \/ page = "debug" /\ AtNext /\ UNCHANGED <<advVars, ovVars, boxVars, simVars>>
     \/ /\ UNCHANGED <<radioPages, scriptPages>>
        /\ \/ page = "sms" /\ SmsNext /\ UNCHANGED <<pduVars, fwVars>>
           \/ page = "pdu" /\ PduNext /\ UNCHANGED <<smsVars, fwVars>>
           \/ page = "forward" /\ FwNext /\ UNCHANGED <<smsVars, pduVars>>
     \/ /\ UNCHANGED <<radioPages, smsPages>>
        /\ \/ page = "monitor" /\ MonNext /\ UNCHANGED <<monitorCfg, dialVars, logVars, setVars, form, stored>>
           \/ page = "monitor form" /\ FormNext /\ UNCHANGED <<monVars, dialVars, logVars, setVars, form, stored>>
           \/ page = "dial cells" /\ (CellSteps \/ SharedSteps) /\ UNCHANGED <<monVars, monitorCfg, logVars, setVars, form, stored>>
           \/ page = "dial service" /\ (ServiceSteps \/ SharedSteps) /\ UNCHANGED <<monVars, monitorCfg, logVars, setVars, form, stored>>
           \/ page = "dial log" /\ LogNext /\ UNCHANGED <<monVars, monitorCfg, dialVars, setVars, form, stored>>
           \/ page = "settings" /\ SetNext /\ UNCHANGED <<monVars, monitorCfg, dialVars, logVars, form, stored>>
           \/ page = "forms" /\ FormsNext /\ UNCHANGED <<monVars, monitorCfg, dialVars, logVars, setVars>>

Spec == Init /\ [][Next]_<<page, radioPages, smsPages, scriptPages>>

-----------------------------------------------------------------------------
(* Properties that several pages share.                                    *)

\* At rest, what the page shows of services, scripts and devices is as the router has it:
\* every action, also one that failed, is followed by a look at what it did.
ShownIsCurrent == PageIsCurrent /\ ListIsCurrent

\* No form leaves an option of an earlier choice in the configuration, be it a monitor's
\* target, a slot's pin, the credentials of a dial, or a forwarder's service.
NoStaleOptions == OneTarget /\ NothingLeftBehind /\ ConfigOfOneService
===============================================================================
