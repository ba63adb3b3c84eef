------------------------------ MODULE ProxyRouting ------------------------------
(***************************************************************************)
(* The routing nodes and the DNS servers of view/homeproxy/client.js and    *)
(* how they refer to one another.  A routing node is edited in its row or   *)
(* in a dialog; rows are only saved together, and every row is validated    *)
(* against what uci held before.  A DNS server's resolver is edited in the  *)
(* dialog alone.                                                            *)
(***************************************************************************)
EXTENDS Naturals, FiniteSets

CONSTANTS
  Sections,    \* names of routing nodes, and of DNS servers
  ProxyNodes,  \* the configured proxy nodes
  Tested,      \* those of them that a URLTest routing node lists
  MaxSaves     \* saves of the page and of dialogs

Direct == "direct"   \* no upstream: the empty value of outbound and address_resolver
Absent == [there |-> FALSE]
\* No section is named like one of the values that stand for none.
ASSUME SectionsAssumption == Sections \cap {Direct, "none", "absent"} = {}
UrlTest == "urltest"
\* A URLTest has no upstream of its own: the option is hidden, and not stored.
Row(on, node, up) ==
  [there |-> TRUE, enabled |-> on, node |-> node,
   outbound |-> IF node = UrlTest THEN Direct ELSE up]

VARIABLES
  routes,     \* routing nodes in uci
  rows,       \* the rows of the table, as the user has changed them
  resolvers,  \* DNS servers in uci: the address_resolver of each
  opened,     \* the section whose dialog is open, "none" without one
  offering,   \* what the open dialog lists as upstreams
  dropped,    \* routing nodes disabled or removed by the last page save
  routeSaves

routeVars == <<routes, rows, resolvers, opened, offering, dropped, routeSaves>>

There(t) == {s \in Sections : t[s].there}
Enabled(t) == {s \in There(t) : t[s].enabled}

\* outbound.load: the enabled routing nodes but the node itself.
Offered(t, s) == Enabled(t) \ {s}
\* As if a list showed a value that it lacks.
ListedAnyway(up, choices) == up
\* A list that lacks the value of uci shows its first entry.
Listed(up, choices) == IF up \in choices THEN up ELSE Direct
Rendered(t) ==
  [s \in Sections |-> IF ~t[s].there THEN Absent
                      ELSE [t[s] EXCEPT !.outbound = Listed(@, Offered(t, s))]]

\* validateUniqueValue on the node, against the other sections of uci.
UniqueNode(t, s, node) == node # UrlTest => \A r \in There(t) \ {s} : t[r].node # node
\* The validator of outbound: the upstream must not go through s itself, nor be a
\* URLTest of the node of s.
NotRecursive(t, s, row) ==
  row.outbound \in There(t) \ {s} =>
    /\ t[row.outbound].outbound # s
    /\ t[row.outbound].node = UrlTest => row.node \notin Tested
RowValid(t, s, row) == UniqueNode(t, s, row.node) /\ NotRecursive(t, s, row)

RouteInit ==
  /\ routes = [s \in Sections |-> Absent]
  /\ rows = routes
  /\ resolvers = [s \in Sections |-> "absent"]
  /\ opened = "none" /\ offering = {} /\ dropped = {} /\ routeSaves = 0

EditRow(s, row) ==
  /\ opened = "none" /\ rows[s].there
  /\ row.outbound \in Offered(routes, s) \cup {Direct}
  /\ rows' = [rows EXCEPT ![s] = row]
  /\ UNCHANGED <<routes, resolvers, opened, offering, dropped, routeSaves>>

\* The page is saved if every row is valid, and shown anew.
SaveRows ==
  /\ opened = "none" /\ routeSaves < MaxSaves
  /\ routeSaves' = routeSaves + 1
  /\ \A s \in There(rows) : RowValid(routes, s, rows[s])
  /\ routes' = rows /\ rows' = Rendered(rows)
  /\ dropped' = Enabled(routes) \ Enabled(rows)
  /\ UNCHANGED <<resolvers, opened, offering>>

\* The section is gone from uci at once; the save of the other rows may fail.
RemoveRoute(s) ==
  /\ opened = "none" /\ routeSaves < MaxSaves /\ routes[s].there
  /\ routeSaves' = routeSaves + 1
  /\ LET left == [routes EXCEPT ![s] = Absent]
         kept == [rows EXCEPT ![s] = Absent]
         valid == \A r \in There(kept) : RowValid(left, r, kept[r])
     IN  /\ routes' = IF valid THEN kept ELSE left
         /\ dropped' = IF valid THEN Enabled(routes) \ Enabled(kept) ELSE dropped \cup {s}
         /\ rows' = Rendered(routes')
  /\ UNCHANGED <<resolvers, opened, offering>>

\* Add and Edit open a dialog, whose lists are loaded then.
OpenRoute(s) ==
  /\ opened = "none" /\ routeSaves < MaxSaves
  /\ opened' = s /\ offering' = Offered(routes, s)
  /\ UNCHANGED <<routes, rows, resolvers, dropped, routeSaves>>

\* The dialog saves its section, then the page is loaded anew: rows that were
\* changed and not saved are as before.
SaveRoute(row) ==
  /\ opened # "none"
  /\ row.outbound \in offering \cup {Direct}
  /\ RowValid(routes, opened, row)
  /\ routes' = [routes EXCEPT ![opened] = row]
  /\ rows' = Rendered(routes')
  /\ dropped' = dropped \cup (Enabled(routes) \ Enabled(routes'))
  /\ opened' = "none" /\ offering' = {} /\ routeSaves' = routeSaves + 1
  /\ UNCHANGED resolvers

CloseDialog ==
  /\ opened # "none" /\ opened' = "none" /\ offering' = {}
  /\ UNCHANGED <<routes, rows, resolvers, dropped, routeSaves>>

RouteNext ==
  \/ SaveRows \/ CloseDialog
  \/ \E s \in Sections : RemoveRoute(s) \/ OpenRoute(s)
  \/ \E on \in BOOLEAN, n \in ProxyNodes \cup {UrlTest}, up \in Sections \cup {Direct} :
       SaveRoute(Row(on, n, up)) \/ \E s \in Sections : EditRow(s, Row(on, n, up))

-----------------------------------------------------------------------------
(* DNS servers: the same references, in dialogs only.                      *)

Servers == {s \in Sections : resolvers[s] # "absent"}

SaveResolver(s, up) ==
  /\ routeSaves < MaxSaves /\ up \in (Servers \ {s}) \cup {Direct}
  /\ up # Direct => resolvers[up] # s
  /\ resolvers' = [resolvers EXCEPT ![s] = up]
  /\ routeSaves' = routeSaves + 1
  /\ UNCHANGED <<routes, rows, opened, offering, dropped>>

RemoveResolver(s) ==
  /\ routeSaves < MaxSaves /\ s \in Servers
  /\ resolvers' = [resolvers EXCEPT ![s] = "absent"]
  /\ routeSaves' = routeSaves + 1
  /\ UNCHANGED <<routes, rows, opened, offering, dropped>>

ResolverNext ==
  \E s \in Sections : RemoveResolver(s) \/ \E up \in Sections \cup {Direct} : SaveResolver(s, up)

-----------------------------------------------------------------------------
(* Properties.                                                             *)

\* No two DNS servers resolve their addresses through one another, in whatever
\* order servers are added, changed, removed and added again.
NotEachOthersResolver ==
  \A s, t \in Servers : s # t => ~(resolvers[s] = t /\ resolvers[t] = s)

\* A routing node refers to one that is not enabled only if that one was disabled or
\* removed by the last save of the page or by a dialog since: every other reference
\* was put right when the page was saved.
ReferencesRepaired ==
  \A s \in There(routes) :
    routes[s].outbound \in Sections \ Enabled(routes) => routes[s].outbound \in dropped
===============================================================================
