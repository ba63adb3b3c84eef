----------------------------- MODULE ModemSettings -----------------------------
(***************************************************************************)
(* view/qmodem/settings.js: the manual scans, the list of modem devices    *)
(* with Add and Remove, and the forms of a slot, of the dial options and   *)
(* of the TTL page.  A scan configures the modems it finds by itself; the  *)
(* page learns of a change only by loading anew.                           *)
(***************************************************************************)
EXTENDS LuciForm

CONSTANTS
  Devices,       \* modems that may be plugged in
  MaxRequests    \* scans, additions and removals

VARIABLES
  plugged,     \* external: modems in the router
  configured,  \* external: sections of type modem-device
  tabled,      \* the devices the page lists
  offered,     \* availableDevices, as the page loaded them
  settingModal,\* the dialog that is open
  requests,    \* calls under way
  probed,       \* calls made so far
  astray,      \* a call was lost, or made while another was under way
  unseen       \* whether a PCIe scan found what the page does not show

setVars == <<plugged, configured, tabled, offered, settingModal, requests, probed, astray, unseen>>
tableVars == <<tabled, offered>>

\* window.location.reload: load() asks for everything again, answers of the old page are lost.
Reload ==
  /\ tabled' = configured' /\ offered' = plugged' \ configured'
  /\ settingModal' = "none"
  /\ requests' = {}
  /\ unseen' = FALSE

SetInit ==
  /\ plugged \in SUBSET Devices /\ configured \in SUBSET plugged
  /\ tabled = configured /\ offered = plugged \ configured
  /\ settingModal = "none" /\ requests = {} /\ probed = 0
  /\ astray = FALSE /\ unseen = FALSE

Request(kind, device) ==
  /\ probed < MaxRequests
  /\ probed' = probed + 1
  /\ astray' = (astray \/ requests # {})
  /\ requests' = requests \cup {[kind |-> kind, device |-> device, n |-> probed', done |-> FALSE, ok |-> FALSE]}

NoDevice == "none"
Buses == {"pcie", "usb", "all"}

\* The scan's dialog has no button: it covers the page until the answer is there.
StartScan(bus) ==
  /\ settingModal = "none"
  /\ Request(bus, NoDevice)
  /\ settingModal' = "scan"
  /\ UNCHANGED <<plugged, configured, tableVars, unseen>>

\* External: a scan configures what is plugged in, the backend removes a device,
\* and uci takes over the section of an addition.
Handled(r, ok) ==
  /\ ~r.done
  /\ configured' = IF ok THEN CASE r.kind \in Buses -> plugged
                                 [] r.kind = "remove" -> configured \ {r.device}
                                 [] r.kind = "add" -> configured \cup {r.device}
                    ELSE configured
  /\ requests' = (requests \ {r}) \cup {[r EXCEPT !.done = TRUE, !.ok = ok]}
  /\ UNCHANGED <<plugged, tableVars, settingModal, probed, astray, unseen>>

\* The page loads anew after a scan that found something, but after a PCIe scan
\* only if that failed.
ScanAnswered(r) ==
  /\ r.kind \in Buses /\ r.done
  /\ UNCHANGED <<plugged, configured, probed, astray>>
  /\ IF r.ok = (r.kind # "pcie") THEN Reload
     ELSE /\ settingModal' = "none" /\ requests' = requests \ {r}
          /\ unseen' = (unseen \/ r.ok)
          /\ UNCHANGED tableVars

\* A call that ends in an error, a timeout for one, is reported and no more.
CallLost(r) ==
  /\ astray' = TRUE
  /\ requests' = requests \ {r}
  /\ settingModal' = IF r.kind \in Buses THEN "none" ELSE settingModal
  /\ UNCHANGED <<plugged, configured, tableVars, probed, unseen>>

\* handleAdd offers the devices known since the page was loaded; Add creates the
\* section and saves the form, then the page loads anew.
AskDevice ==
  /\ settingModal = "none" /\ offered # {}
  /\ settingModal' = "choose"
  /\ UNCHANGED <<plugged, configured, tableVars, requests, probed, astray, unseen>>

AddDevice(d) ==
  /\ settingModal = "choose" /\ d \in offered
  /\ Request("add", d)
  /\ settingModal' = "none"
  /\ UNCHANGED <<plugged, configured, tableVars, unseen>>

CancelAdd ==
  /\ settingModal = "choose" /\ settingModal' = "none"
  /\ UNCHANGED <<plugged, configured, tableVars, requests, probed, astray, unseen>>

\* handleRemove, once it was confirmed.
RemoveDevice(d) ==
  /\ settingModal = "none" /\ d \in tabled
  /\ Request("remove", d)
  /\ UNCHANGED <<plugged, configured, tableVars, settingModal, unseen>>

DeviceAnswered(r) ==
  /\ r.kind \in {"add", "remove"} /\ r.done /\ r.ok
  /\ UNCHANGED <<plugged, configured, probed, astray>>
  /\ Reload

SetNext ==
  \/ \E bus \in Buses : StartScan(bus)
  \/ AskDevice \/ CancelAdd
  \/ \E d \in Devices : AddDevice(d) \/ RemoveDevice(d)
  \/ \E r \in requests :
       \/ ScanAnswered(r) \/ CallLost(r) \/ DeviceAnswered(r)
       \/ \E ok \in BOOLEAN : Handled(r, ok)

-----------------------------------------------------------------------------
(* Forms with options that come and go.                                    *)

VARIABLES form, stored   \* which form is open; what uci holds after it was saved

Credentials == {On("auth", {"both", "pap", "chap", "MsChapV2"})}
DialTable == [auth |-> Always, username |-> Credentials, password |-> Credentials]

\* As if the GPIO's levels were probed for whatever the pin.
SlotTableLoose ==
  [type |-> Always, gpio |-> Always, associated_usb |-> {On("type", {"pcie"})},
   gpio_down |-> Always, gpio_up |-> Always]

SlotTable ==
  [type |-> Always, gpio |-> Always,
   associated_usb |-> {On("type", {"pcie"})},
   gpio_down |-> {On("gpio", {"pin"})},
   gpio_up |-> {On("gpio", {"pin"})}]

\* The TTL page stores its value whether it is enabled or not.
TtlTable == [enable |-> Always, ttl |-> Always]

Tables == [dial |-> DialTable, slot |-> SlotTable, ttl |-> TtlTable]
Choices(o) ==
  CASE o = "auth" -> {"none", "pap", "MsChapV2"} [] o = "type" -> {"usb", "pcie"}
    [] o = "gpio" -> {"", "pin"} [] o = "enable" -> {"0", "1"} [] OTHER -> {"", "set"}

FormsInit == form = "none" /\ stored = [o \in {} |-> ""]
SaveForms(f) ==
  /\ form' = f
  /\ \E v \in [DOMAIN Tables[f] -> UNION {Choices(o) : o \in DOMAIN Tables[f]}] :
       /\ \A o \in DOMAIN v : v[o] \in Choices(o)
       /\ stored' = Saved(Tables[f], v)
FormsNext == \E f \in DOMAIN Tables : SaveForms(f)

-----------------------------------------------------------------------------
(* Properties.                                                             *)

\* When every call is answered and none was lost or overlapped another, the page
\* lists the devices of the configuration; all but those of a PCIe scan that
\* succeeded, which the page does not load anew for.
ListIsCurrent == requests = {} /\ ~astray /\ ~unseen => tabled = configured

\* A pin that was taken away takes its levels with it, a slot that is no longer
\* PCIe its USB port, and an authentication of none the credentials: nothing of an
\* earlier choice is left in the configuration for the scripts to find.
NothingLeftBehind ==
  /\ form = "slot" /\ stored["gpio"] = "" => stored["gpio_up"] = "" /\ stored["gpio_down"] = ""
  /\ form = "slot" /\ stored["type"] = "usb" => stored["associated_usb"] = ""
  /\ form = "dial" /\ stored["auth"] = "none" => stored["username"] = "" /\ stored["password"] = ""
===============================================================================
