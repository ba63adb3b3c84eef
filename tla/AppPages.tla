---------------------------- MODULE AppPages ----------------------------
(* The pages of luci-app-homeproxy, luci-app-3ginfo-lite and the argon theme,   *)
(* one of which is open: they share no state the models look at.                *)
EXTENDS SignalFormat, ModemDetail, ArgonTheme,
        ProxyServer, ProxyClient, ProxyRouting, ProxyLinks, ProxyNodeList, ProxyStatus

VARIABLE page
modemApp == <<formatVars, detVars, dbgVars>>
themeApp == <<menuVars, tabVars, cfgVars>>
proxyForms == <<serverVars, keyVars, clientVars, domainVars, linkVars>>
proxyLists == <<routeVars, listVars, versionVars>>

\* A page that is not open stays in one of its initial states.
Init ==
  /\ page \in {"format", "detail", "debug", "menu", "tabs", "pictures", "server", "key", "client", "lists",
               "link", "routes", "resolvers", "nodes", "status"}
  /\ DbgInit /\ TabInit /\ CfgInit /\ ServerInit /\ KeyInit /\ ClientInit
  /\ LinkInit /\ RouteInit /\ NodeListInit /\ StatusInit
  /\ FormatInit /\ (page # "format" => kind = "time" /\ value = 0)
  /\ DetInit /\ (page # "detail" => ~watching /\ answer = CHOOSE a \in FirstAnswers(FALSE) : TRUE)
  /\ MenuInit /\ (page # "menu" => active = {})
  /\ ListInit /\ (page # "lists" => listFile = "" /\ mode = "global")

Next ==
  /\ UNCHANGED page
  /\ \/ /\ UNCHANGED <<themeApp, proxyForms, proxyLists>>
        /\ \/ page = "detail" /\ DetNext /\ UNCHANGED <<formatVars, dbgVars>>
           \/ page = "debug" /\ DbgNext /\ UNCHANGED <<formatVars, detVars>>
     \/ /\ UNCHANGED <<modemApp, proxyForms, proxyLists>>
        /\ \/ page = "menu" /\ MenuNext /\ UNCHANGED <<tabVars, cfgVars>>
           \/ page = "tabs" /\ TabNext /\ UNCHANGED <<menuVars, cfgVars>>
           \/ page = "pictures" /\ CfgNext /\ UNCHANGED <<menuVars, tabVars>>
     \/ /\ UNCHANGED <<modemApp, themeApp, proxyLists>>
        /\ \/ page = "server" /\ ServerNext /\ UNCHANGED <<keyVars, clientVars, domainVars, linkVars>>
           \/ page = "key" /\ KeyNext /\ UNCHANGED <<serverVars, clientVars, domainVars, linkVars>>
           \/ page = "client" /\ ClientNext /\ UNCHANGED <<serverVars, keyVars, domainVars, linkVars>>
           \/ page = "lists" /\ ListNext /\ UNCHANGED <<serverVars, keyVars, clientVars, linkVars>>
           \/ page = "link" /\ LinkNext /\ UNCHANGED <<serverVars, keyVars, clientVars, domainVars>>
     \/ /\ UNCHANGED <<modemApp, themeApp, proxyForms>>
        /\ \/ page = "routes" /\ RouteNext /\ UNCHANGED <<listVars, versionVars>>
           \/ page = "resolvers" /\ ResolverNext /\ UNCHANGED <<listVars, versionVars>>
           \/ page = "nodes" /\ NodeListNext /\ UNCHANGED <<routeVars, versionVars>>
           \/ page = "status" /\ StatusNext /\ UNCHANGED <<routeVars, listVars>>

Spec == Init /\ [][Next]_<<page, modemApp, themeApp, proxyForms, proxyLists>>

-----------------------------------------------------------------------------
(* Properties that several pages share.                                    *)

\* What the pages show of the modem, a command or a list of domains and addresses is
\* what was read or written last, whatever answers crossed and dialogs opened.
LastIsShown == DetailIsCurrent /\ VersionIsCurrent

\* Names of other sections point to sections that are there, or were put right, and two
\* servers never to one another.
ReferencesHold == NotEachOthersResolver /\ ReferencesRepaired /\ PickedNodesThere

\* Neither a save nor an update of the subscriptions loses what it was not told to change:
\* the lists on disk are those of the fields, and nodes nobody gave anew stay as they were.
OthersAreKept == SaveKeepsList /\ UpdateKeepsOthers
===============================================================================
