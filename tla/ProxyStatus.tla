------------------------------ MODULE ProxyStatus ------------------------------
(***************************************************************************)
(* view/homeproxy/status.js: the versions of the lists, the buttons that    *)
(* update them, and the page's reset after each update, which reads every   *)
(* version again and shows the whole page anew.                             *)
(***************************************************************************)
EXTENDS Naturals, FiniteSets

CONSTANTS
  ResourceKinds,   \* china_ip4, china_ip6, china_list and gfw_list
  MaxChecks        \* clicks on the buttons

VARIABLES
  version,    \* external: of each list, the version on the router
  updating,   \* external: lists that update_resources.sh is updating; it holds a lock
  checks,     \* calls of resources_update under way
  shownVersion, description,   \* of each list, as the page shows it
  busyButtons,   \* buttons disabled until their handler is done
  resets,     \* resets of the page under way, with the versions they have read so far
  checked, token,  \* clicks so far; a GitHub token was typed and not saved
  overtaken   \* a reset began while another was under way

versionVars == <<version, updating, checks, shownVersion, description, busyButtons, resets, checked, token, overtaken>>

StatusInit ==
  /\ version = [k \in ResourceKinds |-> 0] /\ shownVersion = version
  /\ description = [k \in ResourceKinds |-> "none"]
  /\ updating = {} /\ checks = {} /\ busyButtons = {} /\ resets = {}
  /\ checked = 0 /\ token = FALSE /\ overtaken = FALSE

\* The script refuses to run twice for one list.
CheckUpdate(k) ==
  /\ k \notin busyButtons /\ checked < MaxChecks
  /\ checked' = checked + 1 /\ busyButtons' = busyButtons \cup {k}
  /\ checks' = checks \cup {[kind |-> k, n |-> checked', status |-> IF k \in updating THEN "running" ELSE "none"]}
  /\ updating' = updating \cup {k}
  /\ UNCHANGED <<version, shownVersion, description, resets, token, overtaken>>

Updated(c, status) ==
  /\ c.status = "none"
  /\ updating' = updating \ {c.kind}
  /\ checks' = (checks \ {c}) \cup {[c EXCEPT !.status = status]}
  /\ version' = [version EXCEPT ![c.kind] = IF status = "updated" THEN @ + 1 ELSE @]
  /\ UNCHANGED <<shownVersion, description, busyButtons, resets, checked, token, overtaken>>

\* Whatever the outcome, the page is reset.
CheckAnswered(c) ==
  /\ c.status # "none" /\ checks' = checks \ {c}
  /\ description' = [description EXCEPT ![c.kind] = c.status]
  /\ resets' = resets \cup {[n |-> c.n, kind |-> c.kind, read |-> {}]}
  /\ overtaken' = (overtaken \/ resets # {})
  /\ UNCHANGED <<version, updating, shownVersion, busyButtons, checked, token>>

ReadVersion(r, k) ==
  /\ \A v \in r.read : v.kind # k
  /\ resets' = (resets \ {r}) \cup {[r EXCEPT !.read = @ \cup {[kind |-> k, version |-> version[k]]}]}
  /\ UNCHANGED <<version, updating, checks, shownVersion, description, busyButtons, checked, token, overtaken>>

\* Every button is a new one, also that of a list still being updated, and a token
\* that was typed is gone.
ShownAnew(r) ==
  /\ {v.kind : v \in r.read} = ResourceKinds
  /\ shownVersion' = [k \in ResourceKinds |-> (CHOOSE v \in r.read : v.kind = k).version]
  /\ resets' = resets \ {r} /\ busyButtons' = {} /\ token' = FALSE
  /\ UNCHANGED <<version, updating, checks, description, checked, overtaken>>

TypeToken == ~token /\ token' = TRUE /\
  UNCHANGED <<version, updating, checks, shownVersion, description, busyButtons, resets, checked, overtaken>>

StatusNext ==
  \/ TypeToken
  \/ \E k \in ResourceKinds : CheckUpdate(k) \/ \E r \in resets : ReadVersion(r, k)
  \/ \E c \in checks : CheckAnswered(c) \/ \E s \in {"updated", "failed", "latest"} : Updated(c, s)
  \/ \E r \in resets : ShownAnew(r)

\* When all updates and resets are done and none overtook another, the page shows the
\* versions that are on the router, though a reset may have read some of them before
\* an update ended.
VersionIsCurrent == checks = {} /\ resets = {} /\ ~overtaken => shownVersion = version
===============================================================================
