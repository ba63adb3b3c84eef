------------------------------ MODULE SmsForward ------------------------------
(***************************************************************************)
(* SMS forwarding of luci-app-qmodem-next (view/qmodem/sms_forward.js): a   *)
(* grid of instances, whose api_config is edited in a window of its own    *)
(* with the fields of the instance's api_type.                             *)
(***************************************************************************)
EXTENDS FiniteSets

CONSTANT Instances  \* the forwarding instances

Required == [tgbot |-> {"bot_token", "chat_id"}, webhook |-> {"webhook_url", "request_method"},
             serverchan |-> {"token", "noip"}, pushdeer |-> {"pushkey"},
             feishu |-> {"webhook_url"}, custom |-> {"script_path"}]
\* Keys that are left out when their field is empty.
Optional == [tgbot |-> {}, webhook |-> {"format", "headers"}, serverchan |-> {"channel", "openid"},
             pushdeer |-> {"server"}, feishu |-> {}, custom |-> {}]
ApiTypes == DOMAIN Required

VARIABLES
  fwType,    \* api_type of each instance, "" where it was never set
  fwConfig,  \* the keys of its api_config
  fwModal    \* the window: closed, or the instance, its type and the filled fields

fwVars == <<fwType, fwConfig, fwModal>>
Closed == [open |-> FALSE]

FwInit ==
  /\ fwType = [i \in Instances |-> ""]
  /\ fwConfig = [i \in Instances |-> {}]
  /\ fwModal = Closed

\* The grid's own editor saves another type; it does not touch api_config.
ChangeType(i, t) ==
  /\ ~fwModal.open /\ t # fwType[i]
  /\ fwType' = [fwType EXCEPT ![i] = t]
  /\ UNCHANGED <<fwConfig, fwModal>>

\* Fields are filled from the api_config that is there, whichever type it is of.
ShowConfigModal(i) ==
  /\ ~fwModal.open
  /\ LET t == IF fwType[i] = "" THEN "webhook" ELSE fwType[i]
         fields == Required[t] \cup Optional[t]
     IN  fwModal' = [open |-> TRUE, of |-> i, type |-> t, filled |-> fwConfig[i] \cap fields]
  /\ UNCHANGED <<fwType, fwConfig>>

EditField(k) ==
  /\ fwModal.open
  /\ k \in Required[fwModal.type] \cup Optional[fwModal.type]
  /\ fwModal' = [fwModal EXCEPT !.filled = IF k \in @ THEN @ \ {k} ELSE @ \cup {k}]
  /\ UNCHANGED <<fwType, fwConfig>>

CancelConfig == fwModal.open /\ fwModal' = Closed /\ UNCHANGED <<fwType, fwConfig>>

\* saveApiConfig builds the object anew: required keys, even empty, and filled optional ones.
SaveApiConfig ==
  /\ fwModal.open
  /\ fwConfig' = [fwConfig EXCEPT ![fwModal.of] =
                    Required[fwModal.type] \cup (fwModal.filled \cap Optional[fwModal.type])]
  /\ fwModal' = Closed
  /\ UNCHANGED fwType

FwNext ==
  \/ \E i \in Instances : ShowConfigModal(i) \/ \E t \in ApiTypes : ChangeType(i, t)
  \/ \E k \in UNION {Required[t] \cup Optional[t] : t \in ApiTypes} : EditField(k)
  \/ CancelConfig \/ SaveApiConfig

FwSpec == FwInit /\ [][FwNext]_fwVars

\* An api_config holds the keys of one service, all it requires, and none that
\* an earlier service of the instance left behind, however often and in whatever
\* order types are changed and windows saved.
ConfigOfOneService ==
  \A i \in Instances : fwConfig[i] # {} =>
    \E t \in ApiTypes : Required[t] \subseteq fwConfig[i] /\ fwConfig[i] \subseteq Required[t] \cup Optional[t]
===============================================================================
