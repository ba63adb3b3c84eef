----------------------------- MODULE ProxyNodeList -----------------------------
(***************************************************************************)
(* The list of proxy nodes: the import dialog and the subscription buttons *)
(* of view/homeproxy/node.js, and main() of update_subscriptions.uc, which *)
(* the update button runs.  A node's name is the hash of its label, so two  *)
(* nodes with one label are one section.  Saved changes are taken to be     *)
(* applied, and the routing mode to be another than custom.                 *)
(***************************************************************************)
EXTENDS Naturals, FiniteSets, Sequences

CONSTANTS
  Labels,      \* labels of nodes
  Groups,      \* subscription URLs
  Links,       \* lists of links to import: a label, or "broken" for a link that throws
  MaxUpdates   \* runs of the update script

Ways == {"tcp", "udp"}   \* main_node, main_udp_node
NoNode == "nil"
Nobody == "nobody"
ByUser == "user"
\* No label is spelt like one of the values that are no node, nor a subscription like the user.
ASSUME LabelsAssumption == Labels \cap {NoNode, "urltest", "same"} = {} /\ ByUser \notin Groups

VARIABLES
  owner,     \* of each label: Nobody, ByUser, or the subscription the node is from
  unsaved,   \* nodes an import that threw has added in the browser alone
  picked,    \* the main node of each way: a label, "nil", "urltest", for UDP also "same"
  tested,    \* the nodes a URLTest of each way tests
  excused,   \* nodes removed while picked by hand, or by an update without a main node
  fetched,   \* what the last update got from each subscription that is set, {} without a valid node
  updates

listVars == <<owner, unsaved, picked, tested, excused, fetched, updates>>
Existing(o) == {n \in Labels : o[n] # Nobody}

NodeListInit ==
  /\ owner = [n \in Labels |-> Nobody] /\ unsaved = {}
  /\ picked = [w \in Ways |-> NoNode] /\ tested = [w \in Ways |-> {}]
  /\ excused = {} /\ fetched = <<>> /\ updates = 0

\* Whatever saves the page saves what an import left behind.  An imported section
\* of the name of another one takes its place in the list.
SavedOwner == [n \in Labels |-> IF n \in unsaved /\ owner[n] = Nobody THEN ByUser ELSE owner[n]]
Readable(links) == {links[i] : i \in {j \in DOMAIN links : \A k \in 1..j : links[k] # "broken"}}

\* A link that throws ends the import before it is saved; the dialog stays open.
Import(links) ==
  /\ IF \E i \in DOMAIN links : links[i] = "broken"
     THEN unsaved' = unsaved \cup Readable(links) /\ UNCHANGED owner
     ELSE /\ owner' = [n \in Labels |-> IF n \in Readable(links) /\ SavedOwner[n] = Nobody THEN ByUser ELSE SavedOwner[n]]
          /\ unsaved' = {}
  /\ excused' = excused \ Existing(owner')
  /\ UNCHANGED <<picked, tested, fetched, updates>>

RemoveNode(n) ==
  /\ owner[n] = ByUser
  /\ owner' = [SavedOwner EXCEPT ![n] = Nobody] /\ unsaved' = {}
  /\ excused' = (excused \cup {n}) \ Existing(owner')
  /\ UNCHANGED <<picked, tested, fetched, updates>>

\* Apply in a node's row, and the lists of the client page.
Pick(w, n, nodes) ==
  /\ n \in Existing(owner) \cup {NoNode, "urltest"} \cup (IF w = "udp" THEN {"same"} ELSE {})
  /\ nodes \subseteq Existing(owner) /\ (n = "urltest" <=> nodes # {})
  /\ picked' = [picked EXCEPT ![w] = n] /\ tested' = [tested EXCEPT ![w] = nodes]
  /\ owner' = SavedOwner /\ unsaved' = {}
  /\ excused' = excused \ Existing(owner')
  /\ UNCHANGED <<fetched, updates>>

\* As if the main node of UDP were forgotten.
RemoveSubscriptionsTcp ==
  LET gone == {n \in Labels : owner[n] \in Groups} IN
  /\ gone # {}
  /\ owner' = [n \in Labels |-> IF n \in gone THEN Nobody ELSE SavedOwner[n]] /\ unsaved' = {}
  /\ picked' = [picked EXCEPT !["tcp"] = IF @ \in gone THEN NoNode ELSE @]
  /\ UNCHANGED <<tested, excused, fetched, updates>>

\* All nodes of subscriptions go, and are no longer main nodes; the tests keep them.
RemoveSubscriptions ==
  LET gone == {n \in Labels : owner[n] \in Groups} IN
  /\ gone # {}
  /\ owner' = [n \in Labels |-> IF n \in gone THEN Nobody ELSE SavedOwner[n]] /\ unsaved' = {}
  /\ picked' = [w \in Ways |-> IF picked[w] \in gone THEN NoNode ELSE picked[w]]
  /\ excused' = excused \ Existing(owner')
  /\ UNCHANGED <<tested, fetched, updates>>

\* The nodes of subscriptions that a fetch does not give again go; those of one that
\* gave nothing valid stay, those of one that is no longer set go.
Provides(got, g, n) == g \in DOMAIN got /\ n \in got[g]
Silent(got) == {g \in DOMAIN got : got[g] = {}}
\* As if no answer were an answer without nodes.
KeptOwnerStrict(got) ==
  [n \in Labels |-> IF owner[n] \in Groups /\ ~Provides(got, owner[n], n) THEN Nobody ELSE owner[n]]
KeptOwner(got) ==
  [n \in Labels |->
     IF owner[n] \in Groups \ Silent(got) /\ ~Provides(got, owner[n], n) THEN Nobody ELSE owner[n]]
\* The subscriptions that give a node they did not have: it is theirs then, whoever
\* had one of that label.
Takers(got, n) == {g \in Groups : Provides(got, g, n) /\ owner[n] # g}

Gone(w, o) ==
  IF picked[w] = "urltest" THEN tested[w] \cap Existing(o) = {}
  ELSE picked[w] \notin Existing(o)
\* With no main node nothing is put right, not even the main node of UDP.
Repaired(o, first) ==
  IF picked["tcp"] = NoNode THEN picked
  ELSE IF Existing(o) = {} THEN [w \in Ways |-> NoNode]
  ELSE [w \in Ways |-> IF picked[w] \notin {NoNode, "same"} /\ Gone(w, o) THEN first ELSE picked[w]]

\* The page is loaded anew when the script ends: what was not saved is lost.
Update(got) ==
  /\ updates < MaxUpdates /\ updates' = updates + 1
  /\ fetched' = got /\ unsaved' = {}
  /\ IF Silent(got) = DOMAIN got   \* no valid node found
     THEN UNCHANGED <<owner, picked, tested, excused>>
     ELSE /\ \E taker \in [Labels -> Groups \cup {Nobody}] :
               /\ \A n \in Labels : IF Takers(got, n) = {} THEN taker[n] = Nobody ELSE taker[n] \in Takers(got, n)
               /\ owner' = [n \in Labels |-> IF taker[n] # Nobody THEN taker[n] ELSE KeptOwner(got)[n]]
          /\ \E first \in (IF Existing(owner') = {} THEN {NoNode} ELSE Existing(owner')) :
               picked' = Repaired(owner', first)
          /\ excused' = (excused \cup (IF picked["tcp"] = NoNode THEN Existing(owner) ELSE {})) \ Existing(owner')
          /\ UNCHANGED tested

NodeListNext ==
  \/ RemoveSubscriptions
  \/ \E links \in Links : Import(links)
  \/ \E n \in Labels : RemoveNode(n)
  \/ \E w \in Ways, n \in Labels \cup {NoNode, "urltest", "same"}, nodes \in SUBSET Labels : Pick(w, n, nodes)
  \/ \E set \in SUBSET Groups : \E got \in [set -> SUBSET Labels] : Update(got)

-----------------------------------------------------------------------------
(* Properties.                                                             *)

\* A main node that does not exist was removed by hand, or by an update while TCP had
\* no main node: neither an update nor the removal of all subscriptions leaves one behind.
PickedNodesThere == \A w \in Ways : picked[w] \in Labels => owner[picked[w]] # Nobody \/ picked[w] \in excused

\* An update touches the user's nodes and those of a subscription it could not fetch only
\* where another subscription gives a node of the same label.
UpdateKeepsOthers ==
  [][updates' # updates =>
       \A n \in Labels :
         owner[n] \in {ByUser} \cup Silent(fetched')
           /\ (\A g \in Groups : ~Provides(fetched', g, n))
         => owner'[n] = owner[n]]_listVars
===============================================================================
