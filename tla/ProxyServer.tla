------------------------------ MODULE ProxyServer ------------------------------
(***************************************************************************)
(* view/homeproxy/server.js: the dialog of one homeproxy server, whose      *)
(* options come and go with its type, transport and TLS settings, and the   *)
(* button that generates its password.  A value is abstracted to what some  *)
(* dependency or validator looks at: "set" stands for any text.             *)
(***************************************************************************)
EXTENDS LuciForm

CONSTANT ServerValues   \* the values the dialog may hold when it is saved

\* Every value has the type and the boxes about TLS, and a text is empty or set.
ASSUME ServerAssumption ==
  \A v \in ServerValues :
    /\ {"type", "tls", "tls_acme", "tls_reality", "tls_cert_path", "tls_key_path", "tls_acme_domain",
        "tls_reality_private_key"} \subseteq DOMAIN v
    /\ \A o \in {"tls", "tls_acme", "tls_reality"} : v[o] \in {"0", "1"}
    /\ \A o \in {"tls_cert_path", "tls_key_path", "tls_acme_domain", "tls_reality_private_key"} : v[o] \in {"", "set"}

ServerTypes == {"anytls", "http", "hysteria", "hysteria2", "mixed", "naive", "shadowsocks",
                "socks", "trojan", "tuic", "vless", "vmess"}
Logins == {"http", "mixed", "naive", "socks"}
OfType(T) == On("type", T)

\* The options of the protocols: those with conditions of their own, and those of one
\* protocol or two.
ServerAuth ==
  [type |-> Always,
   username |-> {OfType(Logins)},
   password |-> {OfType({"anytls", "hysteria2", "shadowsocks", "trojan", "tuic"}),
                 On2("type", Logins, "username", {"set"})},
   anytls_padding_scheme |-> {OfType({"anytls"})},
   hysteria_auth_payload |-> {On2("type", {"hysteria"}, "hysteria_auth_type", {"string"})},
   hysteria_obfs_type |-> {OfType({"hysteria2"})},
   hysteria_obfs_password |-> {OfType({"hysteria"}), On2("type", {"hysteria2"}, "hysteria_obfs_type", {"salamander"})},
   hysteria_ignore_client_bandwidth |->
     {[type |-> {"hysteria2"}, hysteria_down_mbps |-> {""}, hysteria_up_mbps |-> {""}]},
   hysteria_masquerade |-> {OfType({"hysteria2"})},
   shadowsocks_encrypt_method |-> {OfType({"shadowsocks"})},
   uuid |-> {OfType({"tuic", "vless", "vmess"})},
   vless_flow |-> {OfType({"vless"})}, vmess_alterid |-> {OfType({"vmess"})}]
ServerProtocol ==
  ServerAuth
  ++ Each({"hysteria_protocol", "hysteria_auth_type", "hysteria_recv_window_conn"}, {OfType({"hysteria"})})
  ++ Each({"hysteria_down_mbps", "hysteria_up_mbps"}, {OfType({"hysteria", "hysteria2"})})
  ++ Each({"tuic_congestion_control", "tuic_auth_timeout", "tuic_heartbeat"}, {OfType({"tuic"})})

ServerTransport ==
  [transport |-> {OfType({"trojan", "vless", "vmess"})},
   grpc_servicename |-> {On("transport", {"grpc"})},
   http_path |-> {On("transport", {"http", "httpupgrade"})},
   httpupgrade_host |-> {On("transport", {"httpupgrade"})},
   http_idle_timeout |-> {On("transport", {"grpc"}), On2("transport", {"http"}, "tls", {"1"})}]
  ++ Each({"http_host", "http_method"}, {On("transport", {"http"})})
  ++ Each({"ws_host", "ws_path", "websocket_early_data"}, {On("transport", {"ws"})})

ServerMux ==
  [multiplex |-> {OfType({"shadowsocks", "trojan", "vless", "vmess"})}]
  ++ Each({"multiplex_padding", "multiplex_brutal"}, {On("multiplex", {"1"})})
  ++ Each({"multiplex_brutal_down", "multiplex_brutal_up"}, {On("multiplex_brutal", {"1"})})

\* Only there if sing-box was built with ACME.
ServerAcme ==
  [tls_acme |-> {On("tls", {"1"})}]
  ++ Each({"tls_acme_domain", "tls_acme_email", "tls_dns01_challenge", "tls_acme_external_account"},
          {On("tls_acme", {"1"})})
  ++ [tls_dns01_provider |-> {On("tls_dns01_challenge", {"1"})},
      tls_dns01_ali_aksec |-> {On("tls_dns01_provider", {"alidns"})},
      tls_dns01_cf_api_token |-> {On("tls_dns01_provider", {"cloudflare"})},
      tls_acme_dhc |-> {On("tls_dns01_challenge", {"0"})},
      tls_acme_ea_keyid |-> {On("tls_acme_external_account", {"1"})}]

NoAcme == {"0", Null}
OwnCertificate == [tls |-> {"1"}, tls_acme |-> NoAcme, tls_reality |-> {"0", Null}]

ServerTls ==
  [tls |-> {OfType(ServerTypes \ {"mixed", "shadowsocks", "socks"})},
   tls_reality |-> {[tls |-> {"1"}, tls_acme |-> NoAcme, type |-> {"anytls", "vless"}]}]
  ++ Each({"tls_sni", "tls_alpn", "tls_min_version", "tls_ech_key", "tls_ech_config"}, {On("tls", {"1"})})
  ++ Each({"tls_reality_private_key", "tls_reality_short_id", "tls_reality_server_addr"},
          {On("tls_reality", {"1"})})
  ++ Each({"tls_cert_path", "tls_key_path"}, {OwnCertificate})

\* The network is asked for of two types only; of the others it is not "udp".
NotNetwork(n) == {On("network", {"tcp", "udp", "", Null} \ {n})}
ServerExtra ==
  [network |-> {OfType({"naive", "shadowsocks"})}]
  ++ Each({"tcp_fast_open", "tcp_multi_path"}, NotNetwork("udp"))
  ++ Each({"udp_fragment", "udp_timeout"}, NotNetwork("tcp"))

ServerTable(acme) ==
  ServerProtocol ++ ServerTransport ++ ServerMux ++ ServerTls ++ ServerExtra
  ++ (IF acme THEN ServerAcme ELSE <<>>)

\* As if the form trusted the checkbox.
ForceTlsNever(v) == v
\* The validator of tls checks the box for the types that run over QUIC.
ForceTls(v) ==
  IF v["type"] \in {"hysteria", "hysteria2", "tuic"} THEN [v EXCEPT !["tls"] = "1"] ELSE v

\* Options without which the dialog is not saved, if they are active.
ServerNeeds ==
  {"type", "uuid", "hysteria_auth_payload", "tls_acme_domain", "tls_acme_email",
   "tls_dns01_provider", "tls_dns01_ali_aksec", "tls_dns01_cf_api_token", "tls_acme_ea_keyid",
   "tls_reality_private_key", "tls_reality_short_id", "tls_reality_server_addr",
   "tls_cert_path", "tls_key_path"}

VARIABLE server   \* the section as it was saved, <<>> before
serverVars == <<server>>

ServerInit == server = <<>>
\* Once: what is saved does not depend on what was saved before.
SaveServer(acme, v) ==
  LET table == ServerTable(acme) checked == ForceTls(v) IN
  /\ server = <<>>
  /\ \A o \in ServerNeeds \cap Active(table, checked) : checked[o] # ""
  /\ server' = Saved(table, checked)
ServerNext == \E acme \in BOOLEAN : \E v \in ServerValues : SaveServer(acme, v)

-----------------------------------------------------------------------------
(* The password and its Generate button.                                   *)

VARIABLES
  password,  \* the password field: how long its text is and what it is made of
  method,    \* shadowsocks_encrypt_method, "" when the type is another one
  generated  \* the password is the one the button made for this method

keyVars == <<password, method, generated>>

EmptyText == [chars |-> 0, of |-> "nothing"]
Methods == {"", "none", "aes-128-gcm", "2022-128", "2022-256"}
KeyBytes == [m \in Methods |-> CASE m = "2022-128" -> 16 [] m = "2022-256" -> 32 [] OTHER -> 0]
Base64(bytes) == [chars |-> 4 * ((bytes + 2) \div 3), of |-> "base64"]
Hex(bytes) == [chars |-> 2 * bytes, of |-> "hex"]

KeyInit == password = EmptyText /\ method = "" /\ generated = FALSE

\* handleGenKey on the password.
GenerateKey ==
  /\ password' = CASE method = "none" -> EmptyText
                   [] KeyBytes[method] > 0 -> Base64(KeyBytes[method])
                   [] OTHER -> Hex(16)
  /\ generated' = TRUE
  /\ UNCHANGED method

ChangeMethod(m) == method' = m /\ generated' = FALSE /\ UNCHANGED password
TypePassword(text) == password' = text /\ generated' = FALSE /\ UNCHANGED method

\* The validator of the password; validateBase64Key has nothing against an empty one.
Accepted ==
  CASE method = "none" -> TRUE
    [] method = "2022-128" -> password.chars = 0 \/ password = Base64(16)
    [] method = "2022-256" -> password.chars = 0 \/ password = Base64(32)
    [] OTHER -> password.chars > 0

KeyNext ==
  \/ GenerateKey
  \/ \E m \in Methods : ChangeMethod(m)
  \/ \E text \in {EmptyText, Base64(16), Base64(32), Hex(16)} : TypePassword(text)

-----------------------------------------------------------------------------
Has(o) == o \in DOMAIN server /\ server[o] \notin {"", "0"}

\* A server with TLS has something to show a client: its own certificate and key, a
\* domain for ACME or a key for REALITY; with and without ACME in sing-box and
\* whatever options of the other kinds were filled in before.
TlsHasIdentity ==
  Has("tls") => \/ Has("tls_cert_path") /\ Has("tls_key_path")
                \/ Has("tls_acme_domain") \/ Has("tls_reality_private_key")

\* The types that run over QUIC are never saved without TLS, whatever the box said.
QuicHasTls == server # <<>> /\ server["type"] \in {"hysteria", "hysteria2", "tuic"} => Has("tls")

\* What the button makes is what the validator of the method asks for.
GeneratedFits == generated => Accepted

\* A server the form has accepted can be started, and a generated key used.
ServerIsUsable == TlsHasIdentity /\ QuicHasTls /\ GeneratedFits
===============================================================================
