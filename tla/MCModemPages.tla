--------------------------- MODULE MCModemPages ---------------------------
(* Values of the constants of ModemPages for TLC.                              *)
EXTENDS ModemPages

\* At most two features are on at once.
MCDisabled == {D \in SUBSET Features : Cardinality(Features \ D) <= 2}
MCEntries == {<<"text">>, <<"bar", "blank">>}

Entry(c, b, v) == [class |-> c, bar |-> b, value |-> v]
MCBase == {<<>>, <<Entry("base", FALSE, TRUE)>>, <<Entry("base", FALSE, FALSE), Entry("other", FALSE, TRUE)>>,
           <<Entry("other", FALSE, TRUE), Entry("base", FALSE, TRUE)>>}
MCCell == {<<>>, <<Entry("cell", FALSE, TRUE)>>, <<Entry("cell", TRUE, TRUE), Entry("other", FALSE, TRUE)>>,
           <<Entry("cell", TRUE, TRUE)>>}
MCSections == <<1, 2>>

\* Every text of up to 6 septets, and those of up to 17 in which one differs from the rest.
Septets == {1, 64, 127}
MCTexts ==
  UNION {[1..n -> Septets] : n \in 0..6}
  \cup {[i \in 1..n |-> IF i = j THEN a ELSE b] : n \in 7..17, j \in 1..17, a \in Septets, b \in Septets}
MCLengths == 0..500

MCMonitor ==
  [monitor_method : {"ping", "curl"}, monitor_ping_type : {"ip", "gateway", "dns"}, monitor_ping_dest : {"host", ""},
   monitor_ping_ip_version : {"4"}, monitor_http_url : {"url", ""}, monitor_action : {"other", "at", "script", "both"},
   at_command : {"AT"}, script : {"s"}]
===============================================================================
