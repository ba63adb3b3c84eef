------------------------------- MODULE ProxyLinks -------------------------------
(***************************************************************************)
(* view/homeproxy/node.js: what parseShareLink makes of a share link, and   *)
(* what is left of it when the imported node is opened in its dialog and    *)
(* saved.  A link is its scheme and the parameters that are there; a text   *)
(* is "set" or, when it is missing, "".  Label, address and port are no     *)
(* more than there or not.  sing-box is taken to have QUIC, gRPC and uTLS.  *)
(***************************************************************************)
EXTENDS LuciForm

CONSTANT ShareLinks   \* functions from parts of a link to their texts

Part(l, k) == IF k \in DOMAIN l THEN l[k] ELSE ""
Bit(b) == IF b THEN "1" ELSE "0"
Rejected == <<>>
Unless(bad, config) == IF bad THEN Rejected ELSE config

AnyTls(l) ==
  Unless(Part(l, "user") = "",
    [type |-> "anytls", password |-> l["user"], tls |-> "1", tls_sni |-> Part(l, "sni"),
     tls_insecure |-> Bit(Part(l, "insecure") = "1")])

Http(l) ==
  [type |-> "http", username |-> Part(l, "user"), password |-> Part(l, "pass"),
   tls |-> Bit(l["scheme"] = "https")]

Hysteria(l) ==
  Unless(Part(l, "protocol") \notin {"", "udp"},
    [type |-> "hysteria", hysteria_protocol |-> "udp",
     hysteria_auth_type |-> IF Part(l, "auth") = "" THEN "" ELSE "string",
     hysteria_auth_payload |-> Part(l, "auth"),
     hysteria_obfs_password |-> Part(l, "obfsParam"), hysteria_down_mbps |-> Part(l, "downmbps"), hysteria_up_mbps |-> Part(l, "upmbps"),
     tls |-> "1", tls_sni |-> Part(l, "peer"), tls_insecure |-> Bit(Part(l, "insecure") = "1")])

\* Any value of insecure is taken for yes, "0" too.
Hysteria2(l) ==
  [type |-> "hysteria2", password |-> Part(l, "user"), hysteria_obfs_type |-> Part(l, "obfs"),
   hysteria_obfs_password |-> Part(l, "obfs_password"), tls |-> "1",
   tls_sni |-> Part(l, "sni"), tls_insecure |-> Bit(Part(l, "insecure") # "")]

\* "socsk5" stands where socks5 should: a socks5 link is of no known scheme.
SocksSchemes == {"socks", "socks4", "socks4a", "socsk5", "socks5h"}
Socks(l) ==
  [type |-> "socks", username |-> Part(l, "user"), password |-> Part(l, "pass"),
   socks_version |-> IF l["scheme"] \in {"socks4", "socks4a"} THEN "4" ELSE "5"]

\* A link that cannot be read the new way is read the old one, with any method.
EncryptMethods == {"none", "aes-128-gcm"}
Shadowsocks(l) ==
  IF Part(l, "legacy") = "" THEN
    Unless(Part(l, "method") \notin EncryptMethods,
      [type |-> "shadowsocks", shadowsocks_encrypt_method |-> Part(l, "method"), password |-> Part(l, "pass"),
       shadowsocks_plugin |-> Part(l, "plugin"), shadowsocks_plugin_opts |-> Part(l, "opts")])
  ELSE [type |-> "shadowsocks", shadowsocks_encrypt_method |-> Part(l, "method"), password |-> Part(l, "pass")]

\* The early data behind "?ed=" of a WebSocket path moves to options of its own.
WebSocket(host, path) ==
  [ws_host |-> host, ws_path |-> IF path = "early" THEN "set" ELSE path]
  ++ (IF path = "early" THEN Each({"websocket_early_data", "websocket_early_data_header"}, "set") ELSE <<>>)
NoTcp(t) == IF t = "tcp" THEN "" ELSE t

Trojan(l) ==
  LET t == Part(l, "type") IN
  Unless(Part(l, "user") = "",
    [type |-> "trojan", password |-> Part(l, "user"), transport |-> NoTcp(t), tls |-> "1", tls_sni |-> Part(l, "sni")]
    ++ (CASE t = "grpc" -> [grpc_servicename |-> Part(l, "serviceName")]
          [] t = "ws"   -> WebSocket(Part(l, "host"), Part(l, "path"))
          [] OTHER      -> <<>>))

Tuic(l) ==
  Unless(Part(l, "user") = "",
    [type |-> "tuic", uuid |-> Part(l, "user"), password |-> Part(l, "pass"),
     tuic_congestion_control |-> Part(l, "congestion_control"), tuic_udp_relay_mode |-> Part(l, "udp_relay_mode"),
     tls |-> "1", tls_sni |-> Part(l, "sni"), tls_alpn |-> Part(l, "alpn")])

VlessTransport(l, t) ==
  CASE t = "grpc" -> [grpc_servicename |-> Part(l, "serviceName")]
    [] t = "http" \/ (t = "tcp" /\ Part(l, "headerType") = "http") ->
         [http_host |-> Part(l, "host"), http_path |-> Part(l, "path")]
    [] t = "httpupgrade" -> [httpupgrade_host |-> Part(l, "host"), http_path |-> Part(l, "path")]
    [] t = "ws" -> WebSocket(Part(l, "host"), Part(l, "path"))
    [] OTHER -> <<>>
Vless(l) ==
  LET t == Part(l, "type")  sec == Part(l, "security") IN
  Unless(t \in {"", "kcp"} \/ (t = "quic" /\ Part(l, "quicSecurity") \notin {"", "none"}) \/ Part(l, "user") = "",
    [type |-> "vless", uuid |-> Part(l, "user"), transport |-> NoTcp(t), tls |-> Bit(sec \in {"tls", "xtls", "reality"}),
     tls_sni |-> Part(l, "sni"), tls_alpn |-> Part(l, "alpn"), tls_reality |-> Bit(sec = "reality"),
     tls_reality_public_key |-> Part(l, "pbk"), tls_reality_short_id |-> Part(l, "sid"),
     tls_utls |-> Part(l, "fp"), vless_flow |-> IF sec \in {"tls", "reality"} THEN Part(l, "flow") ELSE ""]
    ++ VlessTransport(l, t))

VmessTransport(l, net) ==
  CASE net = "grpc" -> [grpc_servicename |-> Part(l, "path")]
    [] net = "h2" \/ (net = "tcp" /\ Part(l, "type") = "http") ->
         [transport |-> "http", http_host |-> Part(l, "host"), http_path |-> Part(l, "path")]
    [] net = "httpupgrade" -> [httpupgrade_host |-> Part(l, "host"), http_path |-> Part(l, "path")]
    [] net = "ws" -> WebSocket(Part(l, "host"), Part(l, "path"))
    [] OTHER -> <<>>
Vmess(l) ==
  LET net == Part(l, "net") IN
  Unless(Part(l, "v") # "2" \/ net = "kcp" \/ (net = "quic" /\ Part(l, "type") \notin {"", "none"}),
    VmessTransport(l, net) ++
    [type |-> "vmess", uuid |-> Part(l, "id"), vmess_alterid |-> Part(l, "aid"),
     vmess_encrypt |-> IF Part(l, "scy") = "" THEN "auto" ELSE l["scy"],
     transport |-> NoTcp(net), tls |-> Bit(Part(l, "tls") = "tls"),
     tls_sni |-> IF Part(l, "sni") # "" THEN l["sni"] ELSE Part(l, "host"),
     tls_alpn |-> Part(l, "alpn"), tls_utls |-> Part(l, "fp")])

ParseShareLink(l) ==
  LET s == l["scheme"] IN
  Unless(Part(l, "server") = "",
    CASE s = "anytls" -> AnyTls(l)
      [] s \in {"http", "https"} -> Http(l)
      [] s = "hysteria" -> Hysteria(l)
      [] s \in {"hysteria2", "hy2"} -> Hysteria2(l)
      [] s \in SocksSchemes -> Socks(l)
      [] s = "ss" -> Shadowsocks(l)
      [] s = "trojan" -> Trojan(l)
      [] s = "tuic" -> Tuic(l)
      [] s = "vless" -> Vless(l)
      [] s = "vmess" -> Vmess(l)
      [] OTHER -> Rejected)

\* Import adds what the settings of the subscriptions say.
Imported(l, insecure) ==
  LET c == ParseShareLink(l) IN
  IF c = Rejected THEN Rejected
  ELSE (IF Part(c, "tls") = "1" /\ insecure THEN [tls_insecure |-> "1"] ELSE <<>>)
       ++ (IF c["type"] \in {"vless", "vmess"} THEN [packet_encoding |-> "xudp"] ELSE <<>>) ++ c

-----------------------------------------------------------------------------
(* The dialog of a node.                                                   *)

Forced == {"anytls", "hysteria", "hysteria2", "shadowtls", "tuic"}
Streamed == {"trojan", "vless", "vmess"}
NodeTypes == Forced \cup Streamed \cup {"direct", "http", "shadowsocks", "socks", "ssh", "wireguard"}
Of(T) == {On("type", T)}

AuthTable ==
  [type |-> Always,
   username |-> Of({"http", "socks", "ssh"}),
   password |-> {On("type", {"anytls", "http", "hysteria2", "shadowsocks", "ssh", "trojan", "tuic"}),
                 On2("type", {"shadowtls"}, "shadowtls_version", {"2", "3"}),
                 On2("type", {"socks"}, "socks_version", {"5"})}]
  ++ Each({"address", "port"}, Of(NodeTypes \ {"direct"}))

HysteriaTable ==
  [hysteria_auth_payload |-> {On2("type", {"hysteria"}, "hysteria_auth_type", {"base64", "string"})},
   hysteria_obfs_type |-> Of({"hysteria2"}),
   hysteria_obfs_password |-> {On("type", {"hysteria"}), On2("type", {"hysteria2"}, "hysteria_obfs_type", {"salamander"})},
   hysteria_hop_interval |-> {On2("type", {"hysteria", "hysteria2"}, "hysteria_hopping_port", {"set"})}]
  ++ Each({"hysteria_hopping_port", "hysteria_down_mbps", "hysteria_up_mbps"}, Of({"hysteria", "hysteria2"}))
  ++ Each({"hysteria_protocol", "hysteria_auth_type", "hysteria_recv_window_conn", "hysteria_revc_window",
           "hysteria_disable_mtu_discovery"}, Of({"hysteria"}))

ShadowTable ==
  [shadowtls_version |-> Of({"shadowtls"}), socks_version |-> Of({"socks"}),
   shadowsocks_plugin_opts |-> {On("shadowsocks_plugin", {"obfs-local", "v2ray-plugin"})}]
  ++ Each({"shadowsocks_encrypt_method", "shadowsocks_plugin"}, Of({"shadowsocks"}))
  ++ Each({"ssh_client_version", "ssh_host_key", "ssh_host_key_algo", "ssh_priv_key", "ssh_priv_key_pp"}, Of({"ssh"}))

V2rayTable ==
  [uuid |-> Of({"tuic", "vless", "vmess"}), vless_flow |-> Of({"vless"}),
   tuic_udp_over_stream |-> {On2("type", {"tuic"}, "tuic_udp_relay_mode", {""})}]
  ++ Each({"tuic_congestion_control", "tuic_udp_relay_mode", "tuic_enable_zero_rtt", "tuic_heartbeat"}, Of({"tuic"}))
  ++ Each({"vmess_alterid", "vmess_encrypt", "vmess_global_padding", "vmess_authenticated_length"}, Of({"vmess"}))

Transport(T) == {On("transport", T)}
\* As if the path were an option of plain HTTP alone.
TransportTableNarrow ==
  [transport |-> Of(Streamed), packet_encoding |-> Of({"vless", "vmess"}), httpupgrade_host |-> Transport({"httpupgrade"})]
  ++ Each({"grpc_servicename", "grpc_permit_without_stream"}, Transport({"grpc"}))
  ++ Each({"http_host", "http_path", "http_method", "http_idle_timeout", "http_ping_timeout"}, Transport({"http"}))
  ++ Each({"ws_host", "ws_path", "websocket_early_data", "websocket_early_data_header"}, Transport({"ws"}))
TransportTable ==
  [transport |-> Of(Streamed), packet_encoding |-> Of({"vless", "vmess"}),
   httpupgrade_host |-> Transport({"httpupgrade"}),
   http_path |-> Transport({"http", "httpupgrade"})]
  ++ Each({"grpc_servicename", "grpc_permit_without_stream"}, Transport({"grpc"}))
  ++ Each({"http_host", "http_method"}, Transport({"http"}))
  ++ Each({"http_idle_timeout", "http_ping_timeout"}, {On("transport", {"grpc"}), On2("transport", {"http"}, "tls", {"1"})})
  ++ Each({"ws_host", "ws_path", "websocket_early_data", "websocket_early_data_header"}, Transport({"ws"}))

WireguardTable ==
  Each({"wireguard_local_address", "wireguard_private_key", "wireguard_peer_public_key",
        "wireguard_pre_shared_key", "wireguard_reserved", "wireguard_mtu"}, Of({"wireguard"}))

MuxTable ==
  [multiplex |-> Of({"shadowsocks", "trojan", "vless", "vmess"}),
   udp_over_tcp |-> {On("type", {"socks"}), On2("type", {"shadowsocks"}, "multiplex", {"0"})},
   udp_over_tcp_version |-> {On("udp_over_tcp", {"1"})}]
  ++ Each({"multiplex_protocol", "multiplex_max_connections", "multiplex_padding", "multiplex_brutal"},
          {On("multiplex", {"1"})})
  ++ Each({"multiplex_brutal_down", "multiplex_brutal_up"}, {On("multiplex_brutal", {"1"})})

TlsTable ==
  [tls |-> Of(Forced \cup Streamed \cup {"http"}),
   tls_self_sign |-> {On("tls_insecure", {"0"})}, tls_cert_path |-> {On("tls_self_sign", {"1"})},
   tls_ech_config_path |-> {On("tls_ech", {"1"})},
   tls_utls |-> {On2("tls", {"1"}, "type", NodeTypes \ {"hysteria", "hysteria2", "tuic"})},
   tls_reality |-> {On2("tls", {"1"}, "type", {"anytls", "vless"})}]
  ++ Each({"tls_sni", "tls_alpn", "tls_insecure", "tls_min_version", "tls_max_version", "tls_cipher_suites", "tls_ech"},
          {On("tls", {"1"})})
  ++ Each({"tls_reality_public_key", "tls_reality_short_id"}, {On("tls_reality", {"1"})})

NodeTable ==
  AuthTable ++ HysteriaTable ++ ShadowTable ++ V2rayTable ++ TransportTable ++ WireguardTable ++ MuxTable ++ TlsTable

\* The values of the lists; a list without the value of the node shows its first one.
ListChoices ==
  [transport |-> {"grpc", "http", "httpupgrade", "quic", "ws"}, shadowsocks_plugin |-> {"obfs-local", "v2ray-plugin"},
   hysteria_obfs_type |-> {"salamander"}]
\* The form a node opens with: flags that are not set are "0", TLS is checked for
\* the types that are nothing without it.
Flags == {"tls", "tls_insecure", "tls_reality", "tls_self_sign", "tls_ech", "multiplex", "udp_over_tcp"}
Opened(c) ==
  [o \in DOMAIN NodeTable |->
     CASE o = "tls" /\ c["type"] \in Forced -> "1"
       [] o \in DOMAIN ListChoices -> IF Part(c, o) \in ListChoices[o] THEN c[o] ELSE ""
       [] o \in Flags -> IF Part(c, o) = "1" THEN "1" ELSE "0"
       [] OTHER -> Part(c, o)]

\* The validators of the password, the UUID, the fingerprint, and what may not be empty.
Required(v) ==
  (IF v["type"] \in {"anytls", "shadowsocks", "shadowtls", "trojan"} /\ v["shadowsocks_encrypt_method"] # "none"
   THEN {"password"} ELSE {})
  \cup (IF v["tls_reality"] = "1" THEN {"tls_utls"} ELSE {})
  \cup {"uuid", "hysteria_auth_payload", "tls_reality_public_key"}
CanSave(v) == \A o \in Required(v) \cap Active(NodeTable, v) : v[o] # ""

VARIABLES node, left   \* the imported node, and what its first save leaves of it
linkVars == <<node, left>>
LinkInit == node = Rejected /\ left = Rejected

ImportLink(l, insecure) ==
  /\ node = Rejected
  /\ node' = Imported(l, insecure) /\ UNCHANGED left
SaveNode ==
  /\ node # Rejected /\ left = Rejected
  /\ CanSave(Opened(node))
  /\ left' = Saved(NodeTable, Opened(node))
  /\ UNCHANGED node
LinkNext == SaveNode \/ \E l \in ShareLinks, i \in BOOLEAN : ImportLink(l, i)

-----------------------------------------------------------------------------
(* Properties.                                                             *)

\* Where an import is known to lose something: options that the form only has next to
\* one that is not set, a transport, a plugin or an obfuscation the form does not know,
\* and the plain HTTP of a vless link, whose transport stays empty.
Lost(o) ==
  \/ o = "password" /\ Part(node, "socks_version") = "4"
  \/ o = "hysteria_obfs_password" /\ node["type"] = "hysteria2" /\ node["hysteria_obfs_type"] \notin ListChoices["hysteria_obfs_type"]
  \/ o \in DOMAIN TlsTable /\ node["tls"] # "1"
  \/ o \in {"tls_reality_public_key", "tls_reality_short_id"} /\ node["tls_reality"] # "1"
  \/ o \in DOMAIN ListChoices /\ node[o] \notin ListChoices[o]
  \/ o \in {"http_host", "http_path"} /\ node["type"] = "vless" /\ node["transport"] = ""
  \/ o = "shadowsocks_plugin_opts" /\ node["shadowsocks_plugin"] \notin ListChoices["shadowsocks_plugin"]

\* Opening an imported node and saving it changes nothing that the link said, but for
\* what is known to be lost: parser and form agree on which options go together.
SaveKeepsImport ==
  left # Rejected =>
    \A o \in DOMAIN node : node[o] \notin {"", "0"} /\ ~Lost(o) => left[o] = node[o]
===============================================================================
