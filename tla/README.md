# zyntawrt-feeds: specifications and proofs

The repository is an OpenWrt package feed that mirrors ten upstream repositories. Its own code is
a pipeline of GitHub workflows and shell scripts that brings upstream commits to `main` and tells
the firmware repository to build; the rest is payload that the pipeline copies. Two parts of the
payload are modelled as well: the C daemon `ubus-at-daemon`, concurrent code that runs on every router with a
modem, and the JavaScript pages of the LuCI applications for the modem and for homeproxy, whose polls, calls and
late answers interleave with what the user does.

## 1. The system

| Component | State it keeps | Operations | Talks to |
|---|---|---|---|
| `.github/workflows/monitor.yml` | `.github/upstream-shas.json` on `main` | poll the HEAD of every upstream, commit and push the SHAs | upstream API; its push starts `sync.yml` |
| `.github/workflows/sync.yml` | a checkout, then a branch and a pull request | checkout, run the scripts, detect changes, commit, push, `gh pr create` | the scripts; the pull request starts `validate.yml` |
| `.github/workflows/validate.yml` | none | check Makefiles and links of the merge preview | its conclusion starts `auto-merge.yml` |
| `.github/workflows/auto-merge.yml` | none | find the open pull request of the branch, squash-merge it, dispatch the firmware build | `main`, the firmware repository |
| `scripts/run-sync-all.sh`, `scripts/sync/sync-*.sh`, `scripts/sync-repo.sh` | the destination directories of a working tree | fetch a tarball, wipe, copy | upstream API |
| `scripts/check-changes.sh`, `scripts/commit-push.sh` | `.changes-detected`, the branch | note whether there are changes, commit and push them | origin |
| `ubus-at-daemon` (`feeds/qmodem/ubus_at_daemon/src`) | ports, one reader thread each, a response in progress | `open`, `sendat`, `list`, `close`; a monitor thread | ubus callers, the modem's tty |
| pages of `luci-app-qmodem-next`, `luci-app-qmodem-monitor`, `luci-app-qmodem-ttlfw4` | widgets, calls under way, values kept beside the widgets | select, load, poll, apply, scan, send, dial, upload, save a form | rpcd and uci on the router, the modem |
| pages of `luci-app-homeproxy`, `update_subscriptions.uc` | forms, node list, references between nodes, rules and servers | edit and save forms, import links, update subscriptions and lists | rpcd, uci, subscriptions |
| pages of `luci-app-3ginfo-lite`, argon theme and its settings | bars and cells, menus, pictures | poll, open dialogs, run commands, slide, upload | `3ginfo.sh`, rpcd |
| other payload | - | - | mirrored, never changed here |

What is hard in it:

* **Concurrency.** No workflow has a `concurrency:` group. The daily cron, the push of the SHA file
  and a manual dispatch start sync runs that overlap; each works on the `main` it checked out and
  on the upstream HEADs it happened to read, and their pull requests merge in any order. Several
  runs of `auto-merge.yml` may act on one pull request. In the daemon the ubus thread and the reader
  thread share the response through several critical sections.
* **Failure.** API calls, scripts, pushes, merges and dispatches fail, and nothing retries most of
  them; a script may be killed between the wipe and the copy. A modem may answer late or never.
* **Pages.** Every call of a page answers later, in any order or with an error. Meanwhile polls run, the user
  selects another modem, opens dialogs and saves, which renders a form anew around answers that still hold the
  old elements. Options hide and delete one another when they are saved.
* **Stale reads.** A pull request is found by the name of its branch after another run checked it;
  a preview is validated that is older than the `main` it is merged into; `.changes-detected`
  outlives the run that wrote it.

What makes each component correct: `main` holds, for each upstream, one commit and never a mix of
two; it moves forward only; it catches up with an upstream at rest; what was noticed or merged is
not forgotten; bad packages stay out; a failing script damages its own destination only; the answer
of an AT command is the answer to that command and every call returns; a page shows what belongs to its selection,
lets nothing be sent twice, ends its spinners and dialogs, and saves what it shows and nothing of an earlier choice. The hazards in
`PROJECT.json` name the lines where each of these could go wrong.

## 2. The modules

| Module | What it is |
|---|---|
| `SyncTree` | destination trees and the operators on them: `Clean`, `Copy` (sync-repo.sh), `Staged` (`git add .`), `Mergeable`, `Merged` (GitHub's three-way merge) |
| `FeedPipeline` | the four workflows with many runs in flight; EXTENDS `SyncTree` |
| `FeedMirror` | the abstract specification: upstream publishes, the mirror advances to a published commit |
| `AutoMerge` | one pull request, pushed to, closed and reopened, with many runs of validate.yml and auto-merge.yml |
| `SyncScripts` | the scripts command by command on a checkout that is kept, with failures and interruptions; EXTENDS `SyncTree` |
| `AtCommand` | one port of the daemon: ubus thread, reader thread, modem |
| `AtPort` | the life of a port of the daemon: ubus thread, monitor thread, reader threads, device |
| `AdvancedPage`, `OverviewPage`, `StatusBox`, `ModemTools` | modem pages: advanced settings, overview, status box, SIM switch and AT console |
| `SmsPages`, `SmsPdu`, `SmsForward` | message pages, the encoder, the settings of forwarding |
| `InitScript`, `MonitorPage`, `DialPage`, `ModemSettings` | services and their control buttons, scripts, dialling, devices |
| `SignalFormat`, `ModemDetail` | 3ginfo-lite: the pure functions, the page |
| `ArgonTheme` | menu, tabs, sidebar, background pictures |
| `Lists` | external: what `filter` and loops that push leave of a list |
| `LuciForm` | external: what LuCI's form.js does with options that depend on others |
| `ProxyServer`, `ProxyClient`, `ProxyLinks` | homeproxy: the forms of a server, of the client page, of a node; share links |
| `ProxyRouting`, `ProxyNodeList`, `ProxyStatus` | references between nodes and servers, the list of nodes with its subscriptions, versions of lists |
| `ModemPages`, `AppPages` | the pages of the modem and the other pages, of which one is open; EXTEND the modules of their pages |
| `MC*` | instances for TLC |
| `SyncTreeProofs` | lemmas about trees, for the proofs about `FeedPipeline` and `SyncScripts` |
| `FeedPipelineProofs`, `SyncScriptsProofs`, `AutoMergeProofs`, `AtCommandProofs`, `AtPortProofs` | the theorems about the module they are named after |
| `ModemPagesProofs`, `AppPagesProofs` | the theorems about the pages: page by page an inductive invariant, at the end the composition |

Three levels of detail meet in the pipeline. `SyncScripts` shows what a sync script does to a tree
step by step; `FeedPipeline` uses the result of a whole script (`SyncRepo`), since a failing script
makes the job fail and its checkout is thrown away; `FeedMirror` sees only which commit `main`
holds. `AutoMerge` opens up what `FeedPipeline` abstracts, namely that a pull request may have several
heads and several runs. The definitions marked "Mutant of ..." or "As if ..." play no part in a specification: they
are the bugs each property was shown to catch, by putting them in place of the definition they name.

### FeedPipeline

A file is what git merges as a unit. Whether a sync decides its content depends on where it sits
(`Exact(r)` = copied, wiped, not ignored): the glob of the wipe misses dot entries, `cp` of visible
subdirectories misses the root, and `.gitignore` hides new files from `git add .`. The properties
are about the exact files.

| Code | Model |
|---|---|
| commit that HEAD of an upstream names | `upstream[r]`, moved by `Publish` |
| destination directories on `main` | `main[r]` |
| `upstream-shas.json` | `recorded` |
| a run of monitor.yml | `monPc`, `seen`, `behind`; `MonitorCheckout`, `MonitorPoll` (one turn of the loop, the failing call yields `Unknown`), `MonitorFails` (a reply that jq cannot parse), `MonitorPush` (rejected when `main` has moved; starts a sync only if made with the PAT) |
| the triggers of sync.yml | `CronSync`, `PushSync`, `ManualSync` (with `force_sync`) |
| run-sync-all.sh | `SyncScript` (one script each), `SyncFails` |
| detect changes, create PR | `NoChanges`, `OpenPR`, `OpenPRFails` |
| validate.yml | `PullRequestEvent` (GitHub prepares the preview, or reports a conflict and starts nothing), `Validate` |
| auto-merge.yml | `MergePR`, `Dispatch` |
| people | `Reopen`, `Abandon` a pull request that got stuck |

A push that starts a sync is counted in `queued`; a chain of a sync run, its pull request and its
merge is an element of `Runs`. `MonitorPush` waits while the bound on queued pushes is reached: runs of
monitor.yml are six hours apart and a queued run starts at once.

### AutoMerge

`runs` is the sequence of chains validate.yml -> auto-merge.yml, one for every event; a run remembers
the head its event named. `FindPR` sees the pull request by its branch, `MergePR` merges whatever the
head is then, is content with a pull request that is merged already and fails on a closed one, as `gh`
does.

### SyncScripts

`at` is the step of the script that runs: `fetch`, `clean`, `copy`; the copy goes file by file, so that
a failure (`Fails`, the script stops under `set -e`) or an interruption (`Interrupt`, the whole run is
killed) may come between any two of them. A script handles one repository, or two as sync-passwall.sh
does. `CheckChanges` and `CommitPush` may be called at any time between runs.

### AtCommand

Each action is what a thread does between two operations on `response_mutex`: `Prepare`, `Write`,
the loop around the timed wait (`Wake`, `TimerFires`, `Expire`); `Read`, `AppendChunk`, `CheckLine`,
`MatchLine` for the reader. `SendOnly` is `send_at_command_only`. The modem is external: it answers
commands in order, as late as it likes, and reports events at any time. A line is the unit that
`read()` delivers. An end flag is matched anywhere in a line, so the data of a `Chatty` command may hold one.
The end flags are the default ones in every command; the unlocked write to them in `parse_end_flags`
is left out for that reason. The port stays open in this module; its life is `AtPort`'s.

### AtPort

One port path of the daemon. `open_at_port`, `close_at_port` and `destroy_port_instance` call one another and are
called by two threads, so a call is the sequence of its steps that another thread can tell apart (`Close`, `Open`,
`Destroy`), and `todo[t]` holds the steps thread t has still to take on the instance `on[t]`. One action stands for
each step, whichever call it is part of.

| Code | Model |
|---|---|
| `g_daemon_ctx.ports`, `create_port_instance`, `free` | `listed`, `made`, `freed` |
| `is_open`, `should_stop`, `fd`, `reader_thread` | `port[p].open`, `.stop`, `.fd` (0 for -1), `.thread` |
| `ports_mutex` | `mutex` |
| `ubus_open_method`, `sendat` on a closed port, `ubus_close_method` | `UbusOpen`, `UbusSendat`, `UbusClose`, `UbusReply` |
| `close_at_port` | `Stop`, `Join`, `Wait` (pthread_join), `Shut` |
| `open_at_port` | the steps of a close, `OpenDevice`, `Mark`, `Spawn`; `GiveUp` when it fails |
| `destroy_port_instance` | `Halt`, `Join`, `Wait`, the steps of a close, `Unlist`, `Free` |
| `port_monitor_thread_func` | `MonitorCheck`, its steps with `ports_mutex` held, `MonitorDone` |
| `reader_thread_func` | `ReaderTest` (should_stop, is_open), `ReaderRead`, and `ReaderCrashes` once its port was freed |
| `uloop_run` returns, "Cleanup", the end of main | `Terminate`, `Cleanup`, `Exit` |
| the device | `Unplug`, `Plug`; `dead` holds the descriptors that the disappearance made useless |

The n-th opening yields descriptor n and reader n, so a descriptor is never used again for something else.
`checked` stands for `check_interval`: a port is checked once in 30 s, and not within 30 s of its creation, which is
longer than a call lasts. `watched` is set at the start and never changes: `start_port_monitor` reports a failing
`pthread_create` and goes on, so a daemon without the monitor is a state the code accepts. What holds only there
names it as a premise, and shows that the monitor alone is to blame for the rest. Undefined behaviour is a choice: to join a thread
twice returns or crashes, and so does a reader that works on freed memory.

### The pages

A page is a set of widgets and a set of calls under way. A call is a record of what its closure holds: the modem it
was made for, the interface or rendering whose widgets its answer changes, and what it read; answering removes it from
the set, and any member of the set may be answered next, by a value or by an error. Calls that change something
on the router have two steps, one in which the router carries them out (external, named `Served`, `Handled`, `ModemServes`...) and
one in which the page handles the answer. A widget that is replaced by a later rendering is not looked at any
more: a call that holds one has a number (`of`, `gen`, `form`) that is no longer the current one. Handlers
that wait for the user (`showModal`) end their action there. A spinner, a disabled button and a modal are state,
since they decide what the user can do next; texts, layout and notifications are not.

| Code | Model |
|---|---|
| `createTabInterface` and the six tabs of config_advanced.js | `pane`, `tabs`, `calls`; one action for each kind of answer |
| `tables_map`, the info container, `localStorage` of overview.js | `ovMaps`, `ovBox`, `ovStore`; `OvAnswered` is one whole answer of `updateModemInfo` |
| the two versions of 11_modem.js | `Rows` and `OldLines`, compared by `VersionsAgree` |
| the three SMS views | `smsView` and one area with its spinner, alert and rows |
| `rcStatusData`, status line and buttons of network_config.js | `rcData`, `rcLine`, `rcButtons`: three copies of one status |
| `createDialCell`, `updateDialControls`, `updateStatusIndicator` | `controls`, `dot` |
| the dialog of the dial log | `logModal`, `logCalls`, `logBoxes` |
| scan and device buttons of settings.js | `configured` (uci), `tabled` (the page), `requests` |
| a form: options with `depends`, `rmempty`, validators | a table for `LuciForm!Saved`, which stores an active option's value and deletes a hidden one |
| `parseShareLink` and `renderNodeSettings` of node.js | `ParseShareLink`, `NodeTable`; `SaveNode` opens the imported node and saves it |
| routing nodes and DNS servers of client.js | `routes` (uci), `rows` (as edited), `resolvers` |
| nodes, subscriptions and `main()` of update_subscriptions.uc | `owner`, `picked`, `tested`; `Update` |
| `csq_bar`..., `formatDuration`, `checkOperatorName`, the BTS search | functions of `SignalFormat`; its states are its inputs |
| `slideDown`, `slideUp`, `stop` of menu-argon.js | `style`, `running` of each submenu |

Form tables give the dependencies of options some option depends on; an option that is always there and that
nothing looks at is left out. Values are abstracted to those that some dependency or validator tells apart, and
"set" stands for any other text. form.js looks at the options again and again until nothing changes; `Active` looks six
times, the length of the longest chain of dependencies in these forms (from the type to the key of an ACME provider).

## 3. What is checked

| Run | Module, bounds | Shows |
|---|---|---|
| `overlap` | `FeedPipeline`: 2 runs, 3 commits, 1 failure, 1 queued push | `OneSnapshot`, `CheckedStayValid`, `NoSilentStaleness`, `NoticedNotForgotten`, `ImplementsMirror` |
| `live` | the same, with fairness and commits that are all good | `Converges`, `RecordsHeads` |
| `unchecked` | 2 feeds, 2 commits, no failure | finding: `EveryFeedValidated` fails |
| `pull_request` | 3 heads (the second good), 4 runs, 1 failure | `SomeHeadPassed`, `BuildsAreOfMerges`, `GoodHeadIsMerged`, `MergeIsBuilt` |
| `stale_approval` | the same | finding: `MergedHeadPassed` fails |
| `scripts` | 3 repositories in 2 scripts, 2 commits, 1 failure | `SuccessMeansWhole`, `PublishedWhole`, `DamageIsContained` |
| `commands` | 2 commands (the first chatty), 1 event, 1 failure, room for 4 lines | `QuietAnswerIsOwn`, `SuccessWasMatched`, `EveryCallReturns` |
| `late_answer` | the same | finding: `AnswerIsOwn` fails |
| `ports` | `AtPort`: 2 instances, 2 openings, 1 disappearance, with and without the monitor | `ListIsAllocated` (always), `LoneReadersEnd`, `ReadsItsOwn`, `CallsReturn` (without the monitor) |
| `port_cleanup` | 2 instances, 2 openings | finding: `Terminates` fails |
| `modem_pages` | `ModemPages`, one page open: 2 modems, 2 or 3 calls under way, 3 interfaces, SMS texts up to 17 septets and lengths up to 500 | see below |
| `app_pages` | `AppPages`, one page open: 2 nodes or sections, 2 subscriptions, 3 submenus and 5 clicks, every combination of the form values | see below |

`SomeHeadPassed`, `PublishedWhole` and `ListIsAllocated` include the type invariant of their module.

The two runs over the pages check the properties of each page, some of them as conjuncts of a definition with a name
of its own:

| Run | Checked | Modules | What it consists of |
|---|---|---|---|
| `modem_pages` | `SettingsSentAsShown` | `AdvancedPage` | `ApplyWhenIdle` (Apply is dead exactly while something of its tab is under way), `BoxesAreDraft` (what is sent of a band class is what its boxes show), `NrRowsOfNr`, `AdvTypeOK` |
| | `OverviewIsLive` | `OverviewPage` | `TablesAreMapped` (no late answer leaves a table nothing can update), `SpinnerHasCall`, `OvTypeOK` |
| | `VersionsAgree` | `StatusBox` | both versions show the same lines in the same order |
| | `ToolsShowModem` | `ModemTools` | `OneSwitchAtATime`, `MarkedIsSlot`, `ResponseIsOfModem` |
| | `SmsPageGoesOn` | `SmsPages` | `SpinnerHasLoad`, `ModalHasCall`, `SendOnce`, `TimesFollowBoxes` |
| | `EncodedWhole` | `SmsPdu` | `PartsFit` (140 octets), `UnpackedIsText` |
| | `ControlsAgree` | `DialPage` | `NoButtonsWhenOff`, `LineAndButtonsAgree`, `LogIsOfModem` |
| | `ShownIsCurrent` | `MonitorPage`, `ModemSettings` | `PageIsCurrent` (at rest the page shows the service and the scripts as they are), `ListIsCurrent` |
| | `NoStaleOptions` | `MonitorPage`, `ModemSettings`, `SmsForward` | `OneTarget`, `NothingLeftBehind`, `ConfigOfOneService` |
| `app_pages` | `FormatsKeepMeaning` | `SignalFormat` | `StrongerLooksStronger`, `DurationIsTime`, `NameKeepsWords`, `MncKeepsValue` |
| | `LastIsShown` | `ModemDetail`, `ProxyStatus` | `DetailIsCurrent` (which consists of `PausedForDialog`, `BarSeenWithValue`, `DownloadIsShown`), `VersionIsCurrent` |
| | `ThemeSettles` | `ArgonTheme` | `MenusSettle`, `TabsInOrder`, `NothingInTmp` |
| | `ServerIsUsable` | `ProxyServer` | `TlsHasIdentity`, `QuicHasTls`, `GeneratedFits` |
| | `SavedMeansChosen` | `ProxyClient` | `RuleIsOfItsAction`, `GroupHasNodes`, `OneLanPolicy` |
| | `SaveKeepsImport` | `ProxyLinks` | opening and saving an imported node loses nothing of the link |
| | `ReferencesHold` | `ProxyRouting`, `ProxyNodeList` | `NotEachOthersResolver`, `ReferencesRepaired`, `PickedNodesThere` |
| | `OthersAreKept` | `ProxyClient`, `ProxyNodeList` | `SaveKeepsList`, `UpdateKeepsOthers` |

The pages share no state the models look at, so an instance has one page open and the others stay in their
initial state; a run explores the sum of the pages' states and not their product.

Why the bounds are enough. Two runs are what it takes for one to merge between any two steps of the
other. Three commits give an older, a newer and a newest snapshot: successive ones that change one
file make their branches conflict, ones that change different files merge without a conflict, one
deletes a file and one is bad. A single failure may hit any step. Repositories do not interact except
through the order of the scripts and the conflict of a whole pull request, and the theorems cover any
number of them. For a pull request a bad head, a good one and a bad one again cover both orders of
approval and push. Two commands are an answer that comes late and the command that meets it; the
buffer has room for an answer and one more line, so that chunks are dropped as well. Two instances of a
port are one that was destroyed and its successor; two openings let an instance be
reopened, or followed by another with a reader of its own; one disappearance may come before, in and after any call.
For a page two modems are the one selected and the one before it, and two calls under way are answered in both
orders; three interfaces are one that is replaced, its successor, and a return to the first modem. Seventeen
septets pack into two groups of eight octets and one more; lengths up to 500 cross every limit of one, two and
three parts. Form values are enumerated completely, so the runs meet every combination a dependency can see. In
`SignalFormat` the inputs are every whole reading of the ranges, the seconds around every change of unit, names of words and
numbers that differ in case or not at all, and numbers of up to three digits. Two
subscriptions and two labels are a node that both give; three clicks more than submenus interrupt every slide in
every stage.

`overlap` and `unchecked` use symmetry in `Runs`; `live` does not, since it checks liveness.
`pull_request`, `stale_approval`, the runs of `AtCommand` and `AtPort` and those of the pages allow deadlock: a pull request is over when
its runs are, the number of commands is bounded, a daemon ends or crashes, and a page whose bounded clicks are used up rests.

### Fairness

* `FeedPipeline`: weak fairness for every job GitHub has started and for the two cron schedules; strong
  fairness for the run of a push event, since its run starts in the end however many others do. No
  fairness for manual dispatches, for people who reopen pull requests or for upstream. Abandoning a stuck
  pull request is part of the fair `RunStep`: a pull request that is left alone for ever has been abandoned.
* `RecordsHeads` excludes forced syncs that are dispatched for ever, because each merge makes git reject
  the push of a monitor run that is under way. `Converges` needs no such premise.
* `AutoMerge`: every job that was started goes on; nobody has to push, close or reopen.
* `AtCommand`: both threads are scheduled and the clock runs; the modem owes nothing. `EveryCallReturns`
  rests on the timed wait alone.
* `AtPort`: both threads and every reader are scheduled. Nobody has to call, to plug the device in or to terminate.
* The pages have no fairness and no liveness: a call of a browser may never be answered. That something ends is stated
  as safety instead: a spinner, a modal or a dead button has a call under way that will end it.

### Findings

1. validate.yml says "All feeds validated" but looks at depth 3 only; `feeds/openclash/Makefile` and all
   of `package/` are merged unchecked (`unchecked`).
2. auto-merge.yml merges a head that was not validated, or failed validation, when the branch is pushed
   to after another head passed (`stale_approval`); `--match-head-commit` would prevent it.
3. The late answer to one AT command is reported as the answer to the next (`late_answer`).
4. The daemon cannot terminate while a port exists: `main` holds `ports_mutex` around `destroy_port_instance`, which
   locks it again (`port_cleanup`).

Met while modelling; the models behave so, and no run is spent on it.

*Pipeline.* "wipe destination before sync" (sync-repo.sh:12) leaves dot
entries of the destination (`Wiped` in `SyncTree`); the branch "PAT not configured" of auto-merge.yml:58-61
cannot be reached, since the merge before it fails without a PAT; `commit-push.sh` never pushes a commit whose
first push failed.

*Daemon.* An AT command that was never sent is reported as timed out
(`OpenFails` and `Write` in `AtCommand`), and the branch of `ubus_sendat_method` for other errors is never taken;
after a failed open, main.c:232-233 reads a response that nobody has initialised. `close` may race with the monitor:
between `close_at_port` and the removal from the list the monitor finds the
port closed and reopens it, and the new reader works on memory that is freed, or the reopening clears
`should_stop` again and the ubus thread waits for ever for that reader (why `LoneReadersEnd` and `CallsReturn` are stated without the monitor).
A reader that fails leaves its descriptor in a port that counts as closed; nothing closes it any more.

*Modem pages.* With two answers of `getDisabledFeatures` under way, the later one decides which modem's tabs are
shown, whichever is selected (config_advanced.js:66). After one failed refresh the overview's tables never come
back (overview.js:465). Only the first part of a long message is sent (sms.js:142), a 7 bit part counts octets where
septets are meant, and part counts wrap at 256. A script list that cannot be read looks empty (monitor.js:32). The answer to
clearing a log closes whichever dialog is open (network_config.js:993); a poll enables Dial again while
the first is under way. A PCIe scan that succeeds does not show what it found (settings.js:139).

*3ginfo-lite, argon.* When the data of the modem dialog does not come, the handler calls a missing method and the polls
stay stopped (3gdetail.js:366); a poll that was under way closes the dialog (549); csq never becomes visible again, and
a bar that had shown text makes every later poll throw; widths exceed 100 %. Three levels of tabs stand in the
order 1, 3, 2 (menu-argon.js:412). The settings page applies before it has saved (argon-config.js:118), and two
windows share one temporary file.

*homeproxy.* An empty password passes for the 2022 methods (homeproxy.js:269). Saving in custom mode empties both domain lists, choosing that
mode saves at once, and a list that could not be read is emptied by the next save (client.js:1489-1502). Rows edited together
are validated against what was saved before, so two may get one node in spite of "unique value", or each other as outbound in
spite of "Recursive outbound detected!" (client.js:488); cycles of three are never seen. A disabled or removed node
leaves references that the next save silently turns into direct. Port ranges are compared as strings
(homeproxy.js:293). `socsk5` (node.js:119) rejects every socks5 link; a vmess link of Shadowrocket throws; any `insecure` value of a
hysteria2 link means yes; a plain HTTP vless link loses host and path. A link that throws ends an import with the earlier ones in
the browser alone. "Node %s is gone, removing from urltest list." is logged, and the list is not written back
(update_subscriptions.uc:601); without a main node nothing is put right for UDP; a label two subscriptions share changes its owner
at every update. Every reset of the status page starts three more polls of logs and loses a typed token (status.js:180).

## 4. What is proved

All theorems hold for every set of repositories, files, runs, modems, devices and nodes, every history of upstream commits,
every number of heads, commands, openings and calls under way, and every bound, under the named assumptions of the modules.
They state what the constants are: numbers, finite sets, sequences of repositories without an empty script, functions into the
set of trees (`TreeAssumption`, `PipelineAssumption`, `ScriptsAssumption`, `AutoMergeAssumption`, `CommandAssumption`,
`PortAssumption`); that there is a modem (`ToolAssumption`, `SmsAssumption`, `AdvAssumption`, `OverviewAssumption`); that the
names of things are not the words the code uses for "none" or "direct" (`SmsAssumption`, `AdvAssumption`,
`SectionsAssumption`, `LabelsAssumption`); what the router and the modem report (`OverviewAssumption`, `BoxAssumption`,
`PduAssumption`, `ReadingsAssumption`, `WordsAssumption`, `SamplesAssumption`); and that a form holds its options, with the two
values of a flag in a flag (`ServerAssumption`, `ClientAssumption`). TLC evaluates each of them in a run.

| Theorem | Statement |
|---|---|
| `FeedPipelineProofs!TypeCorrect` | `Spec => []TypeOK` |
| `FeedPipelineProofs!OneSnapshotHolds` | `NoRevert => (Spec => []OneSnapshot)` |
| `FeedPipelineProofs!PipelineImplementsMirror` | `NoRevert => (Spec => ImplementsMirror)` |
| `FeedPipelineProofs!CheckedStayValidHolds` | `FirstValid => (Spec => []CheckedStayValid)` |
| `FeedPipelineProofs!NoSilentStalenessHolds` | `Spec => []NoSilentStaleness` |
| `FeedPipelineProofs!NoticedNotForgottenHolds` | `NoRevert => (Spec => []NoticedNotForgotten)` |
| `SyncScriptsProofs!SuccessMeansWholeHolds` | `Spec => []SuccessMeansWhole` |
| `SyncScriptsProofs!PublishedWholeHolds` | `Spec => []PublishedWhole` |
| `SyncScriptsProofs!DamageIsContainedHolds` | `Spec => DamageIsContained` |
| `AutoMergeProofs!SomeHeadPassedHolds` | `Spec => []SomeHeadPassed` |
| `AutoMergeProofs!BuildsAreOfMergesHolds` | `Spec => []BuildsAreOfMerges` |
| `AtCommandProofs!TypeCorrect` | `Spec => []TypeOK` |
| `AtCommandProofs!QuietAnswerIsOwnHolds` | `Spec => []QuietAnswerIsOwn` |
| `AtCommandProofs!SuccessWasMatchedHolds` | `Spec => []SuccessWasMatched` |
| `AtPortProofs!ListIsAllocatedHolds` | `Spec => []ListIsAllocated` |
| `AtPortProofs!LoneReadersEndHolds` | `Spec => []LoneReadersEnd` |
| `AtPortProofs!ReadsItsOwnHolds` | `Spec => []ReadsItsOwn` |
| `ModemPagesProofs!SettingsSentAsShownHolds` | `Spec => []SettingsSentAsShown` |
| `ModemPagesProofs!OverviewIsLiveHolds` | `Spec => []OverviewIsLive` |
| `ModemPagesProofs!VersionsAgreeHolds` | `Spec => []VersionsAgree` |
| `ModemPagesProofs!ToolsShowModemHolds` | `Spec => []ToolsShowModem` |
| `ModemPagesProofs!SmsPageGoesOnHolds` | `Spec => []SmsPageGoesOn` |
| `ModemPagesProofs!EncodedWholeHolds` | `Spec => []EncodedWhole` |
| `ModemPagesProofs!ControlsAgreeHolds` | `Spec => []ControlsAgree` |
| `ModemPagesProofs!ShownIsCurrentHolds` | `Spec => []ShownIsCurrent` |
| `ModemPagesProofs!NoStaleOptionsHolds` | `Spec => []NoStaleOptions` |
| `AppPagesProofs!FormatsKeepMeaningHolds` | `Spec => []FormatsKeepMeaning` |
| `AppPagesProofs!LastIsShownHolds` | `Spec => []LastIsShown` |
| `AppPagesProofs!ThemeSettlesHolds` | `Spec => []ThemeSettles` |
| `AppPagesProofs!ServerIsUsableHolds` | `Spec => []ServerIsUsable` |
| `AppPagesProofs!SavedMeansChosenHolds` | `Spec => []SavedMeansChosen` |
| `AppPagesProofs!SaveKeepsImportHolds` | `Spec => []SaveKeepsImport` |
| `AppPagesProofs!ReferencesHoldAlways` | `Spec => []ReferencesHold` |
| `AppPagesProofs!OthersStay` | `Spec => OthersAreKept` |

*One snapshot, forward only.* `OneSnapshot` is not inductive: what a merge does to `main` depends on the
commits that the base and the head of the pull request hold. The invariant `Lineage` says that, for each
repository, there is a published commit i that `main` holds on its exact files, and that every chain in flight
`Descends` from it: its base holds a commit b and its head a commit h with b <= i and b <= h. The key lemma
`MergeAgrees` is about the three-way merge alone: if base, head and main hold commits b <= h and b <= i of a history
in which no file returns to an old content, and git sees no conflict, the result holds the newer of h and i. Conflicts
are what makes it true; without `NoRevert` a revert upstream can make two snapshots merge silently into a mix
of both, so the assumption is needed, and the model checker's histories satisfy it (an `ASSUME` of
`MCFeedPipeline`). The refinement takes as `mirror[r]` the oldest commit that agrees with `main[r]`; `Oldest` exists
because the naturals are well-founded.

*Checked Makefiles.* The preview that validate.yml accepted may be older than the `main` of the merge, but a
Makefile merges as a whole: the merged one is that of the head, which was in the preview, or that of `main`,
which was good before. The invariant `Gate` adds to `CheckedStayValid` that a pull request is approved only with
a good verdict, and that one with a good verdict changes no checked Makefile to a bad one (`ChangesGood`).
`FirstValid` says that the feed starts well and that a missing Makefile is not a bad one.

*Silent staleness.* `NoSilentStaleness` is inductive as it stands, given the type invariant: only a merge
makes `main` differ from `shipped`, and its chain is then at its dispatch.

*Noticed, not forgotten.* The property is content with any run in flight, which is not inductive: the run may be past the
repository that lags, or hold an old head of it. `Notice` says which run will do: one that `Covers` the repository, that is,
has its script still to run, or holds in its work tree a commit not older than the recorded one. `Notes` says that
what monitor.yml records was published, and that a repository it does not poll keeps its first entry. The step that needs `NoRevert` is the
merge: the tree that comes to `main` agrees with the newer of two commits (`MergeAgrees` again), so a merge that was
prepared long ago takes nothing back.

*Sync scripts.* That a run which exits 0 leaves everything whole is not inductive: it says nothing of a run that has
not ended, or of one that starts with what an earlier, interrupted run left. The invariant adds `TornIsAhead` (while
no script of this run has failed, a torn destination is one that this run has still to sync), `TornIsSynced` (whatever
is torn is some script's repository, so a new run may begin with any of them torn), `SourceIsCommit` (the tarball is one
commit), `CopyGoesOn` (what has not to be copied any more is as it is in the tarball) and `PublishedIsWhole`.
That `git add .` keeps a whole tree whole is the lemma `StagedWhole`. Any division of any number of repositories among
scripts is covered.

*Merging.* Of `SomeHeadPassed` a step of `MergePR` needs that its own run passed, and of `BuildsAreOfMerges` a step
of `Dispatch` that its own run saw a merge: `RunsAreHonest` says so of every run, `MergedIsLast` that a merged pull
request is over and holds its last head, and `OneBuildEach` counts the builds by the runs that are done.

*AT commands.* `HeardIsAnswer` describes what the daemon and the tty hold between them: the response, the chunk
that is about to be appended and what is not read yet are, one after the other, the beginning of the answer to this
command, with unsolicited lines in between and nothing else. However `read()` cuts it, an action moves lines along that
sequence or adds the modem's next line at its end. Once the end flag is matched the thread that waited reads the response in a
later critical section, and lines may be appended in between: `MatchIsOwn` says that the answer was whole
then, and `OwnLines` that nothing but unsolicited lines can follow. The buffer may be too small: `dropped` notes it, and
the property makes no claim then.

*Ports.* A call is a sequence of steps, so the invariant speaks of what is left of it: `Calls` says which step may follow
which, `Numbers` that the counters never run ahead of what they count, `MonitorHolds` that the monitor has a port only
while it holds `ports_mutex`, and `FreedIsUnlisted` that a call about to free an instance has taken it off the list.
`LInv`, for a daemon without the monitor, adds that each reader is known to its port or has ended
(`ReadersKnown`), that a descriptor belongs to one port (`OneFdEach`), and how far a close has come with both at each step
(`CallHolds`).

*Pages.* A step of a composition is a step of one page and leaves the variables of the others alone, so it is a step or a stutter
of each page: the lemmas `...Projects` and `...Project` say so, `InitProjects` does for the initial state. Every page then has an
invariant over its own variables, and the last theorems of both modules put them together. Nothing is assumed of how many calls
are under way or in which order they are answered. What the invariants add to the properties:

| Page | Invariant | Adds |
|---|---|---|
| SIM switch, AT console | `SimInv`, `AtInv` | a call of the interface that is shown is about its modem and the only one; its buttons are off exactly while that is a switch; unless switches overlapped, what a call brings is the slot the modem uses (`SimCurrent`) |
| advanced settings | `AdvInv` | an interface that has still to be made has a number no call holds (`IdsApart`); the widgets fit one another (`Fits`); each value has one call under way at most (`OneCallEach`) |
| messages | `SmsInv` | in the conversation one `send` is under way exactly while its button is dead, and no dialog is open (`Conversing`) |
| dialling, its log | `DialInv`, `LogInv` | a failed status call told nothing (`FailureTellsNothing`); each log goes to the element its call was given, and an element is made for one modem |
| monitor, devices | `MonInv`, `SetInv` | unless calls overlapped or were lost: one thing is under way at a time, and what its last step has read is still so |
| forwarding | `FwInv` | the open window is of an instance, a configuration never mixes services |
| overview | `OvInv` | of every `tables_map` ever made, which table of the page stands in it (`TablesOf`), and that two tables of the page are of different classes or refreshes |
| encoder, status box | `PduInv`, `BoxInv` | a half of a section holds entries of its own class |
| 3ginfo-lite | `DetInv`, `DbgInv` | while no two commands crossed, a write under way is of the result that is shown |
| theme | `MenuInv`, `TabInv`, `CfgInv` | one menu is active at most; no slide will restore a height of another one, and a slide goes where the class says (`SubmenuInv`) |
| versions of lists | `StatusInv` | while resets come one after the other, the last one reads what no update changes any more |
| routing, nodes, lists | `RoutingInv`, `NodeInv`, `ListInv` | a row names a node that was offered when the page was shown; what was loaded is on disk, or nothing |
| server, keys, client forms | `ServerInv`, `KeyInv`, `ClientInv` | nothing: a form's outcome is computed in one step |
| share links | `LinkInv` | an imported node is `Sound`: each of its options stands next to those the dialog asks for |

Where the difficulty lies in what one step computes, it is in lemmas about operators:

* *Lists* (`OverviewIsLive`, `VersionsAgree`, `FormatsKeepMeaning`). `Picked(s, K)` takes the elements at every position of K
  once, in their order. That needs a rank for each position of a finite set of numbers, which comes from the cardinalities of its
  initial parts and a surjection between finite sets of the same size. An answer of the overview keeps the saved order of tables and appends
  new ones, a drop moves one: both are shown to be permutations, so no table is lost or doubled.
* *Messages* (`EncodedWhole`). `SlicesAre` gives the limits of the n-th part of a message of any length. The eight septets of
  seven octets return what was packed: `SeptetIs` divides a septet among two octets, and `BitsGoRound` follows its bits there and back.
* *Forms* (`ServerIsUsable`, `SavedMeansChosen`, `NoStaleOptions`). An option is settled by the look that comes after the one that
  settles what it depends on: the type by the first, TLS by the second, ACME by the third, REALITY by the fourth, certificate and
  keys by the fifth. `LookOn` says so of one look, `ActiveOn` and `ActiveOn2` of a chain of dependencies on one option or on two at once;
  the theorems hold for every value of every form.
* *Share links* (`SaveKeepsImport`). What a parser sets and what the dialog shows meet in `Sound`, which names neither: an option
  belongs to the node's type, or stands beside, under TLS or under the transport it needs (`Belongs`, `Beside`, `UnderTls`,
  `UnderTransport`). One lemma per protocol shows that what its parser makes of any link is sound (`AnyTlsSound` to `VmessSound`),
  `ImportedSound` that the settings of the subscriptions keep it so, `NodeShows` what the dialog then shows, and `FormKeeps`
  that nothing else is lost. The dialog's table is joined of eight; `NodeDomains` shows that no option is in two of them.
* *Formats*. The ranges of each bar descend without a gap and overlap at their ends only (`Descend`), so the last that applies never gets better
  as the signal gets worse. A duration is taken apart by its first unit that is not zero.

What the proofs found out about the models: `LuciForm` had a recursive operator, in place of which it looks six times; the
compositions were defined in the modules of TLC's instances; words of an operator's name were strings, so that nothing
could be said of all of them. These were rewritten, with the same behaviour. `SaveKeepsImport` was false for links no instance had: a hysteria2 link with an obfuscation
other than salamander loses its obfuscation password with it, since the dialog's list knows salamander alone. `Lost` names that
case now, and the instance has such links. No other property had to be changed.

Only model-checked:

* all liveness properties (`Converges`, `RecordsHeads`, `GoodHeadIsMerged`, `MergeIsBuilt`, `EveryCallReturns`, `CallsReturn`), since
  temporal reasoning with fairness is outside what the proof system checks.

## 5. What is not modelled

* `notify.yml` (a no-op) and the dead code of the daemon (`event_callback.c`, `config_loader.c`).
* The check for broken symbolic links is a failure of `Validate`; symbolic links are not part of a tree.
* A change of the layout of an upstream repository, to which sync-qmodem.sh reacts by emptying the feed.
* In `AtPort`: the line settings, more than one path, and the monitor's reopening of an invalid descriptor.
* Bytes: line buffers and their overflow in the daemon, the text of SHAs, messages and logs.
* LuCI itself, rpcd, uci, the modem and the browser: external, by what the pages rely on.
* Of the modem pages: the decoding of received messages and of addresses, and options nothing depends on.
* Of homeproxy: the generators of the sing-box configuration, the fetching and decoding of a subscription, the polls of
  connection status and logs, validators of ports and texts that look at one value alone.
* `3gconfig.js` (a form of independent options), the options of the argon theme.
* openclash, passwall, passwall2, AdGuard Home, the shell services and drivers of qmodem, and vendored editors and dashboards: mirrored, never changed here.

## 6. Plan

1. `AtDaemon`: `AtPort` composed with `AtCommand`, so that a command meets a port that closes under it; several paths,
   which the monitor checks in turn under one lock, and its branch for an invalid descriptor (EBADF).
2. That a run of `SyncScripts` without failures implements the `SyncScript` steps of `FeedPipeline`.
3. Of the payload: the scan, dial and monitor scripts of qmodem with their hotplug events behind `DialPage` and `MonitorPage`, the
   SMS forwarders, the generators of the sing-box configuration behind `ProxyClient`, and the lock and switch scripts of passwall.
