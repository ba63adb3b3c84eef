--------------------------- MODULE MCAppPages ---------------------------
(* Values of the constants of AppPages for TLC.                                *)
EXTENDS AppPages

\* Readings of every range; seconds around every change of unit; words and numbers.
MCReadings == -130..40
MCSeconds == (0..130) \cup (3590..3610) \cup (7190..7210) \cup (86390..86410) \cup {86460, 90000, 172805}
MCWords ==
  {[letters |-> l, spelling |-> p, number |-> -1] : l \in {"a"}, p \in {"a", "A"}}
  \cup {[letters |-> "b", spelling |-> "b", number |-> -1],
        [letters |-> "2", spelling |-> "2", number |-> 2], [letters |-> "4", spelling |-> "4", number |-> 4]}

BarValues == {"absent", "plain"}
MCAnswers ==
  {[hilink |-> m[1], signal |-> m[2], csq |-> c, rssi |-> r, rsrp |-> r, sinr |-> i, rsrq |-> r] :
     m \in {<<FALSE, FALSE>>, <<FALSE, TRUE>>, <<TRUE, FALSE>>},
     c \in BarValues \cup {"empty"}, r \in BarValues, i \in BarValues \cup {"unit"}}

Flag == {"0", "1"}
Maybe == {"", "set"}
Set == {"set"}

\* Every kind of server with the boxes and fields that decide about TLS.
ServerBase == [o \in DOMAIN ServerTable(TRUE) |-> IF o \in {"hysteria_down_mbps", "hysteria_up_mbps"} THEN "" ELSE "set"]
MCServers ==
  {c ++ ServerBase : c \in
     [type : ServerTypes, tls : Flag, tls_acme : Flag, tls_reality : Flag, tls_dns01_challenge : Flag,
      tls_dns01_provider : {"alidns", "cloudflare"}, username : Maybe, tls_cert_path : Maybe, transport : {""},
      network : {""}, multiplex : {"0"}, multiplex_brutal : {"0"}]}

\* Of each form the options others depend on; every other option is filled in.
Controls ==
  [main |-> [routing_mode : RoutingModes, proxy_mode : ProxyModes, main_node : {"nil", "urltest"},
             main_udp_node : {"nil", "same", "urltest"}, main_urltest_nodes : Maybe, main_udp_urltest_nodes : Maybe],
   custom |-> [proxy_mode : ProxyModes, tcpip_stack : {"mixed", "system"}, disable_cache : Flag, cache_file_store_rdrc : Flag],
   routing_node |-> [node : {"urltest", "node"}, outbound : Maybe, urltest_nodes : Maybe],
   rule |-> [action : {"route", "route-options", "reject", "resolve"}, protocol : {"quic", "tls", ""},
             tls_fragment : Flag, reject_method : {"default", "drop"}, outbound : Maybe],
   dns_server |-> [type : {"udp", "tls", "https"}, address_resolver : Maybe],
   dns_rule |-> [action : {"route", "route-options", "reject", "predefined"}, reject_method : {"default", "drop"}, server : Maybe],
   ruleset |-> [type : {"local", "remote"}, path : Maybe, url : Maybe],
   control |-> [routing_mode : RoutingModes, ipv6_support : Flag, lan_proxy_mode : {"disabled", "listed_only", "except_listed"}]]
MCClient == [f \in DOMAIN Controls |-> {c ++ [o \in DOMAIN ClientTables[f] |-> "set"] : c \in Controls[f]}]

\* Every scheme with the parts its parser looks at.
Paths == {"", "set", "early"}
MCShareLinks ==
  [scheme : {"anytls"}, server : Maybe, user : Maybe, sni : Maybe, insecure : {"", "0", "1"}]
  \cup [scheme : {"http", "https", "ftp"}, server : Set, user : Maybe, pass : Maybe]
  \cup [scheme : {"hysteria"}, server : Set, protocol : {"", "udp", "faketcp"}, auth : Maybe, obfsParam : Maybe,
        downmbps : Maybe, peer : Maybe]
  \cup [scheme : {"hysteria2", "hy2"}, server : Set, user : Maybe, obfs : {"", "salamander", "other"}, obfs_password : Maybe,
        sni : Maybe, insecure : {"", "0"}]
  \cup [scheme : {"socks", "socks4", "socks4a", "socks5", "socks5h"}, server : Set, user : Maybe, pass : Maybe]
  \cup [scheme : {"ss"}, server : Set, legacy : Maybe, method : {"none", "aes-128-gcm", "rc4"}, pass : Maybe,
        plugin : {"", "obfs-local", "other"}, opts : Maybe]
  \cup [scheme : {"trojan"}, server : Set, user : Maybe, type : {"", "tcp", "grpc", "ws", "http"}, host : Maybe,
        path : Paths, serviceName : Maybe]
  \cup [scheme : {"tuic"}, server : Set, user : Maybe, pass : Maybe, congestion_control : {"bbr"},
        udp_relay_mode : {"", "quic"}, alpn : Maybe]
  \cup [scheme : {"vless"}, server : Set, user : Set,
        type : {"", "tcp", "kcp", "grpc", "http", "httpupgrade", "ws", "quic", "xhttp"},
        security : {"none", "tls", "xtls", "reality"}, headerType : {"", "http"}, pbk : Maybe, fp : Maybe, flow : Maybe,
        host : Maybe, path : Paths, serviceName : Set, sni : Set]
  \cup [scheme : {"vmess"}, server : Set, v : {"1", "2"}, id : Set,
        net : {"tcp", "kcp", "grpc", "h2", "httpupgrade", "ws", "quic"}, type : {"", "none", "http"},
        tls : {"", "tls"}, host : Maybe, path : Paths, fp : Maybe]

CONSTANTS l1, l2
MCImports == {<<l1>>, <<l1, "broken">>, <<l2, l1>>}
===============================================================================
