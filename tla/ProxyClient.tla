------------------------------ MODULE ProxyClient ------------------------------
(***************************************************************************)
(* view/homeproxy/client.js: the forms of the client page, whose options    *)
(* come and go with the routing mode, the proxy mode and the kind of a      *)
(* rule, and the two domain lists, which are files and not options.         *)
(* Options that are always there and that nothing depends on are left out.  *)
(***************************************************************************)
EXTENDS LuciForm

CONSTANTS
  ClientValues,   \* of each form, the values it may hold when it is saved
  MaxLists        \* texts typed into a domain list

RoutingModes == {"bypass_mainland_china", "global", "custom"}
NotCustom == RoutingModes \ {"custom"}
ProxyModes == {"redirect", "redirect_tproxy", "redirect_tun", "tun"}

\* The main section: the nodes of every mode but custom.
MainTable ==
  [routing_mode |-> Always, proxy_mode |-> Always, ipv6_support |-> Always,
   main_udp_node |-> {On2("routing_mode", NotCustom, "proxy_mode", ProxyModes \ {"redirect"})},
   china_dns_server |-> {On("routing_mode", {"bypass_mainland_china"})}]
  ++ Each({"main_node", "dns_server"}, {On("routing_mode", NotCustom)})
  ++ Each({"main_urltest_nodes", "main_urltest_interval"}, {On("main_node", {"urltest"})})
  ++ Each({"main_udp_urltest_nodes", "main_udp_urltest_interval"}, {On("main_udp_node", {"urltest"})})

\* The section of the custom mode and its DNS settings.
CustomTable ==
  [proxy_mode |-> Always, disable_cache |-> Always, cache_file_store_rdrc |-> Always,
   tcpip_stack |-> {On("proxy_mode", {"redirect_tun", "tun"})},
   endpoint_independent_nat |-> {On("tcpip_stack", {"mixed", "gvisor"})},
   udp_timeout |-> {On("proxy_mode", ProxyModes \ {"redirect"})},
   cache_file_rdrc_timeout |-> {On("cache_file_store_rdrc", {"1"})}]
  ++ Each({"disable_cache_expire", "independent_cache"}, {On("disable_cache", {"0"})})

NoUrltest == On("node", {"node"})
RoutingNodeTable ==
  [node |-> Always, bind_interface |-> {On2("outbound", {""}, "node", {"node"})}]
  ++ Each({"domain_resolver", "domain_strategy", "outbound"}, {NoUrltest})
  ++ Each({"urltest_nodes", "urltest_url", "urltest_interval", "urltest_idle_timeout"}, {On("node", {"urltest"})})

Action(A) == {On("action", A)}
Sniffed == {On("protocol", {"quic", "ssh"})}

\* As if the delay were asked for whether a rule fragments or not.
RuleTableLoose ==
  [action |-> Always, protocol |-> Always, client |-> Sniffed, outbound |-> Action({"route"}),
   tls_fragment_fallback_delay |-> Always, reject_method |-> Action({"reject"}),
   reject_no_drop |-> {On("reject_method", {"default"})}]
  ++ Each({"override_address", "tls_fragment"}, Action({"route", "route-options"}))
  ++ Each({"resolve_server", "resolve_strategy"}, Action({"resolve"}))

RuleTable ==
  [action |-> Always, protocol |-> Always,
   client |-> Sniffed,
   outbound |-> Action({"route"}),
   tls_fragment_fallback_delay |-> {On("tls_fragment", {"1"})},
   reject_method |-> Action({"reject"}),
   reject_no_drop |-> {On("reject_method", {"default"})}]
  ++ Each({"override_address", "override_port", "udp_connect", "udp_timeout", "tls_record_fragment", "tls_fragment"},
          Action({"route", "route-options"}))
  ++ Each({"resolve_server", "resolve_strategy", "resolve_disable_cache", "resolve_client_subnet"},
          Action({"resolve"}))

DnsServerTable ==
  [type |-> Always, address_resolver |-> Always,
   address_strategy |-> {On("address_resolver", {"set"})},
   tls_sni |-> {On("type", {"tls", "https"})}]
  ++ Each({"path", "headers"}, {On("type", {"https"})})

DnsRuleTable ==
  [action |-> Always,
   reject_method |-> Action({"reject"}),
   reject_no_drop |-> {On("reject_method", {"default"})}]
  ++ Each({"server", "domain_strategy"}, Action({"route"}))
  ++ Each({"dns_disable_cache", "rewrite_ttl", "client_subnet"}, Action({"route", "route-options"}))
  ++ Each({"predefined_rcode", "predefined_answer", "predefined_ns", "predefined_extra"}, Action({"predefined"}))

RulesetTable ==
  [type |-> Always, path |-> {On("type", {"local"})}]
  ++ Each({"url", "outbound", "update_interval"}, {On("type", {"remote"})})

Ipv6With(o, V) == {On2(o, V, "ipv6_support", {"1"})}

\* Access control, with the options of the main section it looks at.
ControlTable ==
  [routing_mode |-> Always, ipv6_support |-> Always, lan_proxy_mode |-> Always,
   lan_direct_ipv6_ips |-> Ipv6With("lan_proxy_mode", {"except_listed"}),
   lan_proxy_ipv6_ips |-> Ipv6With("lan_proxy_mode", {"listed_only"}),
   lan_global_proxy_ipv6_ips |-> Ipv6With("routing_mode", NotCustom)]
  ++ Each({"lan_gaming_mode_ipv6_ips", "wan_proxy_ipv6_ips", "wan_direct_ipv6_ips"}, {On("ipv6_support", {"1"})})
  ++ Each({"lan_direct_ipv4_ips", "lan_direct_mac_addrs"}, {On("lan_proxy_mode", {"except_listed"})})
  ++ Each({"lan_proxy_ipv4_ips", "lan_proxy_mac_addrs"}, {On("lan_proxy_mode", {"listed_only"})})
  ++ Each({"lan_global_proxy_ipv4_ips", "lan_global_proxy_mac_addrs"}, {On("routing_mode", NotCustom)})

ClientTables ==
  [main |-> MainTable, custom |-> CustomTable, routing_node |-> RoutingNodeTable, rule |-> RuleTable,
   dns_server |-> DnsServerTable, dns_rule |-> DnsRuleTable, ruleset |-> RulesetTable, control |-> ControlTable]

Nodes == {"main_urltest_nodes", "main_udp_urltest_nodes", "urltest_nodes"}
\* Options that are not saved empty: rmempty = false, or a validator of their own.
Needed(f) ==
  {"main_node", "main_udp_node", "dns_server", "china_dns_server", "server", "url"} \cup Nodes
  \cup (CASE f = "rule" -> {"outbound"} [] f = "ruleset" -> {"path"} [] OTHER -> {})

\* A list of nodes is empty or set.
ASSUME ClientAssumption ==
  \A f \in DOMAIN ClientTables : \A v \in ClientValues[f] : \A o \in Nodes \cap DOMAIN ClientTables[f] : v[o] \in {"", "set"}

VARIABLES section, saved   \* the form that was saved, and what it left in uci
clientVars == <<section, saved>>

ClientInit == section = "none" /\ saved = <<>>
\* Once: a form's outcome does not depend on another one.
SaveClient(f) ==
  /\ section = "none" /\ section' = f
  /\ \E v \in ClientValues[f] :
       /\ \A o \in Needed(f) \cap Active(ClientTables[f], v) : v[o] # ""
       /\ saved' = Saved(ClientTables[f], v)
ClientNext == \E f \in DOMAIN ClientTables : SaveClient(f)

-----------------------------------------------------------------------------
(* The proxy and the direct domain list: load, write and remove of the two *)
(* text fields of access control, and the mode that saves by itself.       *)

VARIABLES
  listFile,   \* the list on disk, as rpcd wrote it: "" or a list
  box,        \* the text of the field
  loaded,     \* the text it was loaded with
  mode,       \* the routing mode the page shows
  lists       \* lists typed so far

domainVars == <<listFile, box, loaded, mode, lists>>
Lists == {"", "some", "more"}

ListInit ==
  /\ listFile \in Lists /\ mode \in {"global", "custom"}
  /\ loaded \in {listFile, ""} /\ box = loaded
  /\ lists = 0

\* A read that fails shows an empty field.
Reloaded(ok) ==
  /\ loaded' = IF ok THEN listFile' ELSE ""
  /\ box' = loaded'

TypeList(text) ==
  /\ mode # "custom" /\ lists < MaxLists
  /\ lists' = lists + 1 /\ box' = text
  /\ UNCHANGED <<listFile, loaded, mode>>

\* A text that was changed is written.  An empty one is removed, and so is that of a
\* field custom mode hides: remove() asks the wrong section for routing_mode, which
\* is then never "custom".
WriteList(m) ==
  listFile' = IF m = "custom" \/ box = "" THEN "" ELSE IF box # loaded THEN box ELSE listFile

\* The page is saved and shown anew; choosing the custom mode saves at once.
SavePage(ok) ==
  /\ WriteList(mode) /\ Reloaded(ok)
  /\ UNCHANGED <<mode, lists>>
ChooseMode(m, ok) ==
  /\ m # mode /\ mode' = m
  /\ UNCHANGED lists
  /\ IF m = "custom" THEN WriteList(m) /\ Reloaded(ok) ELSE UNCHANGED <<listFile, box, loaded>>

ListNext ==
  \/ \E text \in Lists : TypeList(text)
  \/ \E ok \in BOOLEAN : SavePage(ok) \/ \E m \in {"global", "custom"} : ChooseMode(m, ok)

-----------------------------------------------------------------------------
Kept(o) == o \in DOMAIN saved /\ saved[o] \notin {"", "0"}

\* A rule leaves in the configuration the options of its own action and no others,
\* and a delay only next to the fragmentation it delays, whatever was filled in
\* before the action was changed.
RuleIsOfItsAction ==
  section \in {"rule", "dns_rule"} =>
    /\ Kept("outbound") \/ Kept("server") => saved["action"] = "route"
    /\ Kept("reject_no_drop") => saved["reject_method"] = "default" /\ saved["action"] = "reject"
    /\ Kept("resolve_server") => saved["action"] = "resolve"
    /\ Kept("predefined_rcode") => saved["action"] = "predefined"
    /\ Kept("tls_fragment_fallback_delay") => Kept("tls_fragment") /\ saved["action"] \in {"route", "route-options"}

\* A group that is tested has nodes to test, in the main section for TCP and UDP
\* and in a routing node, and no nodes are kept without a group.
GroupHasNodes ==
  /\ section = "main" => /\ saved["main_node"] = "urltest" <=> Kept("main_urltest_nodes")
                         /\ saved["main_udp_node"] = "urltest" <=> Kept("main_udp_urltest_nodes")
  /\ section = "routing_node" => (saved["node"] = "urltest" <=> Kept("urltest_nodes"))

\* The lists that except clients of the LAN and those that pick them are never
\* both kept, and no IPv6 list without IPv6.
OneLanPolicy ==
  section = "control" =>
    /\ ~(Kept("lan_direct_mac_addrs") /\ Kept("lan_proxy_mac_addrs"))
    /\ \A o \in {"lan_direct_ipv6_ips", "lan_proxy_ipv6_ips", "lan_global_proxy_ipv6_ips"} :
         Kept(o) => saved["ipv6_support"] = "1"
    /\ Kept("lan_global_proxy_mac_addrs") => saved["routing_mode"] # "custom"

\* What is saved is of the choice that was made last, whole and alone.
SavedMeansChosen == RuleIsOfItsAction /\ GroupHasNodes /\ OneLanPolicy

\* Outside the custom mode a save makes the list on disk what the field shows, be it
\* changed, untouched or emptied, and after whatever changes of the mode; a list that
\* could not be read shows as empty and is emptied by the save.
SaveKeepsList ==
  [][mode = "global" /\ mode' = mode /\ lists' = lists => listFile' = box]_domainVars
===============================================================================
