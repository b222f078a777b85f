# wifigateway-server: TLA+ models, checks and proofs

The repository is a free-access Internet gateway: a Qt daemon keeps one session
per client address, admits and cuts off clients by running shell scripts that
edit iptables chains, and is driven by D-Bus calls, by quota lines in the kernel
log and by a one-second tick. This directory models the daemon, its start and
end, its scripts, its log watcher and the web page that keeps a session alive in
TLA+, checks them with TLC and proves theorems about each of them with TLAPS.

Run a check with `tlc -config reentrancy.cfg MCController`, the proofs with
`tlapm` on each of the modules whose name ends in `Proofs` and on
`ControllerSteps`. `PROJECT.json` lists every run, the source lines
behind every definition, and for every checked property a mutant of the code
that violates it.

## 1. The system

| Component | State it keeps | Operations | Talks to |
|---|---|---|---|
| `Controller` (controller.cpp) | session records by address, defaults for new ones | 14 D-Bus operations that change state, `updateQuotaRemaining`, `tick`, `cleanup` | runs scripts through RunCommand; called by the adaptor, QuotaBeacon and its timer |
| `RunCommand` (runcommand.cpp) | one QProcess, one QEventLoop, one timer, the connected slots | `runCommandExec`, `runCommand`, `runCommandWait`, four callbacks | blocks its caller in a nested event loop, in which other handlers run |
| gateway scripts (gw_functions.sh) | three iptables chains with one rule per host each, in the kernel | `gw_init`, `gw_add_host`, `gw_remove_host`, `gw_clean_up` | killed by RunCommand after 5 s; their rules outlive the daemon |
| `main`, signal handling (main.cpp, handle_signals.c) | the signal mask, whether a terminal signal was seen | start, `handler`, `sig_clean_up`, exit | `qApp->quit()` exits every event loop |
| `ControllerDBusAdaptor` | none after its constructor | registration with retries, forwards calls | D-Bus clients (the web server) |
| `FileWatcher` (filewatcher.cpp) | size and inode it saw last | two slots, `scan` | QFileSystemWatcher, the kernel log |
| `QuotaBeacon` (quotabeacon.cpp) | none | `newLine` | signals `quotaEvent(ip)` to the controller |
| web frontend (Gateway.php, sessionpanel.js) | the panel's state, an update timer of 15 s | start, update, pause, play, end, poll | HTTP to the web server, which makes one D-Bus call for each |
| shells, packaging, init script, tests | – | – | – |

What is hard in it:

- **Re-entrancy.** There is one thread, yet a handler that runs a script sits in
  `el.exec()` (runcommand.cpp:117) while ticks, quota events and D-Bus calls are
  dispatched to the same object. They may change or delete the very records the
  suspended handler has checked, and holds pointers to.
- **Refused scripts.** A nested handler's script is refused at once, because the
  one process is busy. Some callers report that, some ignore it, and the tick
  has to try again later.
- **Two copies of the truth.** The record says whether a host has access, the
  firewall decides it. They change in different steps, the script may fail
  between them, and the firewall outlives crashes.
- **Stopping.** A signal exits the nested loop of a suspended handler as if its
  script had succeeded.
- **Scripts** add and remove a host by three commands, delete by a position found
  in another chain, and can be killed in between.
- **Log rotation.** The watcher's signals come late, in either order.
- **The child and its timer.** Either may end a call, killing the child ends it
  once more, and a child that could not be started never ends.
- **The web.** Calls and answers are delayed, lost and reordered between a page
  that polls and a watchdog that ends sessions nobody updates; a call may be
  carried out when the page that made it is gone.

The full list, line by line, is under `hazards` in `PROJECT.json`.

What makes each component correct: the controller admits a host only while its
session is started and cuts it off otherwise, a session that ran out or whose
client is gone does not stay started, and what was spent is not refunded;
RunCommand answers every caller once and with the status of its own child; the
page that updates its session keeps it, and one that is gone does not; the scripts behave as one atomic command
each; the watcher sends each line once, in order, and misses none; the beacon
charges a line once; the process comes down when told to, and cleans up.

## 2. Modules

| Module | Models | Notes |
|---|---|---|
| `RunCommand` | `runCommandExec()` as its callers see it | variables `proc`, `loop`, `code` |
| `CommandRunner` | runcommand.cpp in full: slots, timer, kill, three kinds of call | each of its steps is one of `RunCommand`'s (`SeenAsRunCommand`) |
| `Firewall` | what each script does to a host's rules, as one step | variable `rules` |
| `Controller` | controller.cpp, the adaptor's methods, main.cpp | EXTENDS `RunCommand` and `Firewall`: the composed daemon |
| `Gate` | an abstract promise of `Controller`: who has access | no timers, scripts, loops or answers |
| `SessionView` | another: one session as its client sees it | no event loops, rules, limits or other clients (`ClientsView`) |
| `Portal` | the session panel, the web server and the network between them | EXTENDS `SessionView`, the daemon it talks to |
| `Lifecycle` | main.cpp, handle_signals.c, constructors and destructors | what handlers do to sessions is left to `Controller` |
| `ControllerProofs` | its inductive invariant: types, the stack, what is suspended | TLAPS |
| `ControllerSteps` | theorems that compare a state with the next one | EXTENDS `ControllerProofs` |
| `GateProofs` | `Controller` implements `Gate`; where access and state part | EXTENDS `ControllerSteps` |
| `CommandRunnerProofs` | `CommandRunner`'s invariants; it implements `RunCommand` | TLAPS |
| `HostRulesProofs` | the chains; the scripts implement `Firewall` | TLAPS |
| `LifecycleProofs`, `QuotaBeaconProofs`, `PortalProofs` | the same for `Lifecycle`, `FileWatcher` with `QuotaBeacon`, `Portal` | TLAPS |
| `HostRules` | gw_functions.sh, one iptables command per step | in a run without faults each script has the effect of `Firewall`'s command, in one step (`ScriptsAtomic`) |
| `FileWatcher` | filewatcher.cpp against a changing file | |
| `QuotaBeacon` | quotabeacon.cpp on top of it | EXTENDS `FileWatcher` |
| `MCController`, `MCHostRules`, `MCQuotaBeacon` | instances for TLC | |

### Controller

State: `sessions` maps an address to its record or to `NoSession`; `defaults`
are the limits of new records; `rules` is the kernel's side; `frame` is the one
handler that may be suspended (which function waits, for which record, on whose
behalf, which records a tick has still to visit, which of its pointers were
freed); `reply` is the answer given by the last step, so that properties can
speak of answers; `daemon` and `signalled` are the life of the process.

One action per handler. Each D-Bus method is an action with the name of the
method. If it runs a script from the main loop it ends in `ExecSuspends`, and a
`Resume...` action continues it when the loop returns; from a nested loop its
script is refused and the whole handler is one step (`Perform` has both). At
most one handler is suspended, for a nested handler never gets a process. `tick`
visits records in separate steps (`TickVisit`), because it may be suspended at
each; a QTimer does not fire recursively, so no tick runs inside a tick, and
during another handler's suspension a tick is one step (`NestedTick`).

Points of the code that are easy to get wrong and are in the model:

- Between `el.exit()` and the return of `el.exec()` more events may be
  dispatched. The process is free then and the loop is not: the script is
  started, `exec()` refuses to recurse, -1 is returned, and the child runs with
  nobody waiting (hazard "late", `ExecRefused`).
- `qApp->quit()` exits the nested loop with code 0, so the suspended handler
  takes its script for finished while it still runs. `cleanup()` is then refused.
  After a `quit()` before `app.exec()` every `el.exec()` returns -1 at once
  (`quitNow`, `ExecAborted`), until `app.exec()` begins and forgets it: a clean-up
  after a refused registration (phase "failing") is then started and not waited
  for. A second signal ends in `_exit()`.
- A record that is deleted while `startSession()` waits is written after it was
  freed. The write is lost, or hits a new record at the same address (hazard
  "reuse"); the visit of a freed record by `tick` has no effect, removes by its
  address a record that was created there meanwhile, or kills the process
  (`TickStale`, `Crash`).
- A timeout may hit before or after the script changed the rules ("fail",
  "dirty"). When the process dies its child has done its work or not.
- A session that is exhausted within a tick, and whose update timer is at 0 when
  the exhausting script returns, is ended in the same tick (`ResumeExhaust`).
- An ended record is thawed with the timers it had; no timer but the update
  watchdog is armed again by a start.
- The D-Bus method `setTime` calls `Controller::setQuota`.

Abstracted: exit statuses are 0 or not; -1 stands for every negative limit;
bandwidths are compared for equality only. Left out, because nothing reads them
to effect: `sessionTime`, `activityTimeRemaining` (set and never counted down),
the warning signals, the getters. The records of a tick are visited in any
order; the code takes the order of the keys.

### CommandRunner

Calls are numbered, and the exit status of the child of call n stands as n, so
that an answer shows whose child it came from. `slots` are the two pairs of
connected slots in the order in which they were connected: when the timer fires
and both pairs are there, the first slot kills the child and waits for it, and
the `finished(int)` this emits reaches the second pair with the child's status
and not with -1 (`HeardAtTimeout`). Hazards: events dispatched before `el.exec()`
returns ("late"), `quit()`, a child that cannot be started ("nofork": the process
is free again at once, nothing is ever emitted and the timer goes on), a child
that is killed by someone (Qt reports exit code 0). `main` is where the
application is, before, in or after `app.exec()`; `quitNow` is Qt's flag of that
name, set by a `quit()` and cleared when `app.exec()` begins and when it returns:
while it is set no event loop starts, and `runCommandExec()` answers -1 with its
child running (`quitted` is the history of a `quit()`).

### Lifecycle

`phase` is where `main()` is, from the signal mask to the return; `chains` says
whether the gateway's chains are in the kernel; `script` is the child that runs,
which goes on when nobody waits for it. `continued` is the handler's static
variable, `quitNow` Qt's flag: a signal before `app.exec()` makes the
`el.exec()` of `gw_init` or of a clean-up return at once, and is otherwise forgotten
(`ExecForgets`). `happened` is a history of what befell this life of the daemon, by
which the properties name their exceptions. A registration that succeeds at the
last round of its loop is reported as failed (controllerdbusadaptor.cpp:42); the
exception that the adaptor then throws unwinds the controller, whose destructor
cleans up, while an exception of the controller's own constructor does not.

### SessionView, Portal

`SessionView` is the daemon as one client sees it: the state of its record, the
update timer, the function whose script runs, and the answers. Whether a script
is refused or fails is left open, and so are quota and time. `Controller` implements it
(`ClientsView`, with the mapping in `View(ip)`): whatever other handlers are
dispatched meanwhile, a client sees its session move in these steps only. There is
one exception, `Overwritten`: a handler that goes on with a pointer to a deleted
record may hit another client's new one. The mapping leaves out a daemon that goes
down.

`Portal` puts a browser in front of it. `net` is a set of calls under way, heard
or not by the page that made them, and of answers; any of them may be carried
out or delivered next, and `Lose` turns a call, or an answer to one that was
carried out, into the error that `ajax_call.error` makes of it. One tick stands
for the panel's 15 s, so the update timer is 4 ticks. `Timely` says what a
working network and browser do between two ticks: the interval fires, and its
update reaches the daemon or is lost. `kept` is a history variable: the last
update of this page was served. The click handlers, callbacks and `set_state` are
those of sessionpanel.js; what is only displayed is left out, and the buttons
count as shown from the state that shows them (sessionpanel.js:168 does not show
the play button again once it was hidden). `comm_error_event_cb`, which the error
path triggers too, only displays.

### HostRules

`script` is the script that runs, with the command that comes next. The three
chains are sequences; `Matched` says which address finds which when used as a
`grep` pattern; `Rejected` are limits that iptables refuses (zero, or too many
per second); `Kill` is the timeout, between two commands. Only one script runs at a time, which RunCommand
sees to.

### FileWatcher, QuotaBeacon

The file is an inode number with numbered lines; sizes count half lines, so that
a read may meet half a line. QFileSystemWatcher is modelled by how the slots use
it: two pending signals that may each stand for several changes and are
delivered in either order, an inotify watch on an inode, and the list of watched
paths from which Qt takes a path when its file is gone. `charged` counts the
`quotaEvent()` signals of each line. A new, empty file may be created at an empty
path (`Create`), another one with a line in it be moved there or over the file
(`Replace`), and the file that was renamed away last may come back (`Return`), over
a newer file or not, `MaxReturns` times; `aside` keeps it and `returns` counts.
`happened` records "overtaken": a file came to the path before the signal of the old
one's going was over. A line says in which half the beacon's pattern is contained.
Left out: lines longer than 1023 bytes, sizes beyond 32 bits, an unlink by someone
while the logger holds the file open, and writes to a file that is away.

## 3. Runs

The runs of `Controller` use small timers (1 tick): a timer's length only
adds ticks in which nothing else differs. `portal` has the code's own ratio. `limits`
has an update timer of 2, so that a session can be exhausted for a while before it
ends. Two clients are enough for every interaction in the code, which is between a suspended handler's record and
one other; symmetry in the clients is used where no liveness property is
checked. The two runs with two clients use four methods: `deleteSession` ends the
session as `endSession` does before it removes it, and `setQuota` pauses and plays.
More were checked by hand: the two safety properties of `gate` with eight methods,
`ClientsView` with seven (170,427 states), `reentrancy` with `endSession`; the
theorems of section 4 are about any set of them, and `limits` has them all.
`MaxQuota` and `MaxTime` bound the limits that clients set: 0 is exhausted, 1 is one
step before it, -1 is unlimited.

| Run | Properties | Bounds | Shows |
|---|---|---|---|
| `reentrancy` | `TypeOK`, `SuspendedStateHeld`, `NestedMovesNothing`, `StaleOnlyByDelete`, `StartAnswerTrue`, `PartedByFailureOnly`, `ClientsView` | 2 clients, 4 methods, failures before and after the effect, late events, reused addresses | nested handlers do not disturb a suspended one, except by deleting the record that `startSession` waits for; `startSession` tells the truth but for that; rules and state part in three ways only: a script that failed after its effect, a child that nobody waits for, a record deleted under its handler; each client sees what `SessionView` says, whatever the other one does, but for a record that is hit through the pointer of a deleted one |
| `gate` | `AccessAgrees`, `GateSpec`, `HandlersReturn`, `EndedForgotten`, `QuitStops` | 2 clients, 4 methods, failures, a refused registration, signals, crashes, fair | the daemon implements `Gate`: a host's access changes only while it is the one being changed, and its state agrees with it otherwise; nothing hangs; ended records go; a signal brings the daemon down |
| `limits` | `UnrefreshedEnds`, `ExhaustedStops`, `SpentNotRefunded`, `PausedRestarts` | 1 client, every method, quota and time up to 1, reused addresses, fair | silent sessions end; exhausted sessions stop; paused sessions with quota and time restart; nothing refunds what was spent |
| `scripts` | `TypeOK`, `ChainsAligned`, `ScriptsAtomic`, `AllowedOnce`, `RemovedIsCutOff` | 3 hosts, 2 good bandwidths and a refused one, 1 fault (`MaxFaults`) | without faults scripts are, step by step, the atomic commands that `Controller` assumes; after a killed script or a refused limit the chains are misaligned, and still a removal that succeeded cut its host off |
| `log` | `LinesOnceInOrder`, `KeepsWatching`, `ListedMissesNothing`, `ChargedOnce`, `AllCharged` | 2 lines, 3 inodes, torn lines, truncation, renaming, replacement, a file that is moved back once | lines are sent and charged once, in order, but for a file that was moved back or overtaken; the file stays watched, none of its lines is missed and each is charged |
| `exec` | `TypeOK`, `ChildrenWatched`, `AnsweredOnce`, `AnswersOwnStatus`, `EveryCallAnswered`, `SeenAsRunCommand` | 3 calls of any kind, before, in and after the main loop, every hazard, fair | no child runs unwatched, each accepted call is answered once and with its own child's status, but for the exceptions below |
| `startup` | `LeavesNothing`, `GivesUpLate`, `StartEnds`, `SignalsTerminal` | the code's 5 retries, every hazard, any number of lives, fair | the start ends; a daemon that goes down in order leaves no chains; a signal that was heard brings it down |
| `portal` | `PortalTypeOK`, `KeptAlive`, `PanelCorrected`, `AbandonedEnds` | 1 message under way for longer than a tick (beside those of the moment), any number of pages, fair | updates that arrive keep the session; a panel does not go on showing a session that is over; a session without a page goes down |

The properties of `scripts` and `log` that faults are known to break say so:
`faults` and `happened` are history variables, and a property that needs a script
to run undisturbed, or a file not to be overtaken or moved back, has that as its
condition. `log` was also checked, by hand, with a third line and nothing that
comes back, with a third line and two inodes, and with two inodes and two returns.
One fault is enough to misalign the chains, and everything that scripts do on
misaligned chains follows it; with two hosts three faults were also checked, by
hand, with the same result.

`UnrefreshedEnds` is about the timer, not about silence since the session began:
`startSession` arms the update timer of an exhausted session too, so a client
that keeps giving quota and restarting is kept, without ever calling
`updateSession`. Exhausted sessions stop whatever the client does
(`ExhaustedStops`). The first was also checked by hand with two clients, scripts
that are refused because of the other client, and signals
(`UnrefreshedEnds`: 823,382 states).

Three calls are enough for `exec`: one child that fails to start, one that
inherits its timer, and one more that is refused or comes late (four calls were
checked too). `portal` lets one message at a time be older than 15 s; messages
of the same 15 s are bounded only in that a click waits for the others.

**Fairness.** Scripts take effect and end, and the kernel reports it (weak
fairness of `ScriptEffect`, `ScriptExits`; RunCommand's timer bounds them). The
thread keeps running (weak fairness of the resumed handlers, the steps of a
tick, start, clean-up and exit). The main loop dispatches the tick (strong
fairness of `tick`): a tick that falls due in a nested loop is dispatched there,
so the main loop has it enabled again and again but not for ever. Calls, quota
events, signals and failures are never owed. In `CommandRunner` the timer fires
and suspended callers go on; no child ever has to end, which is what the timer
is for. In `Lifecycle` `main()` goes on and scripts end; neither a signal nor a
successful registration is owed. In `Portal` the browser's timer fires, a
redirect that is due happens, messages are served and heard (weakly), the panel's
polls and their answers are not lost for ever (strongly), scripts return and do
not fail for ever, and a tick gets to end a session whose update timer is at 0 (strongly;
that it is not refused for ever is `UnrefreshedEnds` of `Controller`). No click
and no page is owed, and a paused session may never restart: without quota
it does not.

### Where the code does not do what it says

Each of these runs checks one sentence of the repository's comments and finds it
violated; `findings` in `PROJECT.json` quotes the sentence and the code.

| Run | Property | Finding |
|---|---|---|
| `bandwidth` | `BandwidthInForce` | `setBandwidth` while the session's first start waits for its script never reaches the firewall |
| `shutdown` | `CleansUp` | a signal during a script leaves hosts admitted |
| `log_moved` | `NoLineTwice` | a log that is moved away and back is sent again in full |
| `prefix_address` | `RemovesItsHost` | removing 10.1.3.3 may remove 10.1.3.32 |

More behaviour of this kind is in the models, and the properties that hold name
it as their exceptions:

- `startSession` answers 0 for a record that was deleted while its script ran:
  the host is admitted without a session, although controller.cpp:85 says that
  the record changes its state (`StartAnswerTrue`).
- A paused session without quota or time stays paused for ever, controller.cpp:133
  notwithstanding: `playSession` fails at each period (`PausedRestarts`).
- A script that timed out after its effect counts as failed, and nothing repairs
  what it did until the session's next transition (`PartedByFailureOnly`).
- A file that comes to the log's path before the signal of the old one's going is
  over is read twice (`LinesOnceInOrder`), and its quota lines are charged twice
  (`ChargedOnce`); if the directory's signal comes first it is not watched any more
  (`KeepsWatching`). A quota line that is read half written is never charged
  (`AllCharged`). A log that is moved back is sent and charged again (`log_moved`).
- `runCommandExec` may return something else than runcommand.cpp:101 says
  (`AnswersOwnStatus`): 0 for a child that a signal killed, so that a script which was
  killed counts as done; 0 when `quit()` ends the wait, and -1 at once when it came
  before; and the status of a later child when its own could not be started.
- A call dispatched between `el.exit()` and the return of `el.exec()` starts a
  child that nobody waits for (its timer does, `ChildrenWatched`).
- A signal between `gw_init` and the main loop is forgotten by `app.exec()`, so that
  "always terminal" (handle_signals.c:15) is true of the others only
  (`SignalsTerminal`), and the next signal ends the daemon without a clean-up. If
  the registration fails after it, the clean-up of the destructor is not waited for
  and its script is killed; and a signal before `gw_init` makes the constructor throw
  while that script runs. Either may leave the chains, although controller.cpp:50 says
  "Do our best to tidy up our mess" (`LeavesNothing`, excuses "unheard" and "unbuilt").
- A page that is opened on a running session is told 0 at once, without the
  update timer being armed: the watchdog may end the session before the page's
  first update (`KeptAlive`). An update accepted while the script that ends the
  session runs does not prevent the end; the panel is corrected after it
  (`PanelCorrected`).

And some has no property: `pauseSession` answers 0 while the session is being
played and the host has access; `pauseSession` does not arm its timer, so that a
second pause gets only the rest of the first one's period; the D-Bus method `setTime` sets the quota
(controllerdbusadaptor.cpp:172); a refused bandwidth rule, or the removal of an
absent host, ends with status 0; a record whose first start failed stays
UNINITIALIZED until its client comes back, for no tick looks at it; the panel polls
although its start failed (sessionpanel.js:38 says it must not).

## 4. Proofs

29 theorems, of which 28 state properties that the runs check; a run shows a
property on its small instance, the theorem for every value of the constants
that satisfies the module's assumptions, which TLC evaluates on the runs. They
are what the source demands (timers are positive, bounds are natural numbers,
limits that mean "none" are none of the others) and no more; a condition beyond
them is a hypothesis of the theorem and named below.

Every inductive invariant was checked by TLC on the component's run before it
was proved, with the number of states given below.

### The daemon: `ControllerProofs`, `ControllerSteps`, `GateProofs`

For every set of addresses, limits, timers, calls and hazards:

| Theorem | States |
|---|---|
| `TypeCorrect` | `Spec => []TypeOK` |
| `ReentrancySafe` | `Spec => []SuspendedStateHeld` |
| `TickPointersSafe` | `Spec => []TickPointersHeld`: a tick's pointers are good unless their record was deleted meanwhile |
| `OneTransitionAtATime` | `Spec => NestedMovesNothing` |
| `StartAnswersTruly` | `Spec => StartAnswerTrue` |
| `StalePointers` | `Spec => StaleOnlyByDelete` |
| `NothingRefunded` | `Spec => SpentNotRefunded` |
| `PartedOnlyByFailure` | `Spec => PartedByFailureOnly` |
| `AccessFollowsState` | `Spec => []AccessAgrees`, if `Orderly` |
| `ImplementsGate` | `Spec => GateSpec`, if `Orderly` |

The invariant `IInv` is type correctness, `FrameOK`, and the two safety
properties together. None is inductive alone. What a resumed handler writes is a
record only if its own record is still there (`SuspendedStateHeld`), and that is
kept by nested handlers only because the frame belongs to the handler that owns
the nested loop (`FrameOK`: the loop is idle exactly when no script is waited
for, and fresh records are records) and because they are `Harmless`: they add
records, change limits and timers, and remove ended ones. `Harmless` is the
lemma of the proof: `CallInv`, `QuotaEventInv` and `NestedTickInv` show it per
handler, `TrackKeeps` that a harmless change keeps the frame's facts, and
`NextInv` collects one lemma per action.

`ControllerSteps` says once what a handler may hand over (`CallRecords`,
`CallShape`, `TrackFields`), adds to the invariant what the stack holds in each
phase of the daemon (`LifeOK`, giving `LInv`), and goes through the actions for
each property of a step.

`GateProofs` adds whose child runs while a handler is suspended, and what the
script has done to its host when it has succeeded (`ChildOK`), and that the address
of a freed record has no record since, or one that was not started (`FreedOK`; of
any freed record if addresses are not reused, else of the suspended handler's). This `GInv` holds with every hazard, and is enough to
name all the ways in which access and state part (checked on `reentrancy`:
402,958 states). `Orderly` says that no hazard is "dirty" (a script that fails
after its effect), "late" (a handler that is dispatched between `el.exit()` and
the return of `el.exec()`) or "reuse" (a record at the address of a freed one);
scripts may still fail, registrations be refused, signals and crashes come at any
time. Each of the
three parts access and state, by `PartedOnlyByFailure`'s very exceptions, so
`GateSpec` does not hold with them. Then `AInv` says for every host but the pending
one that they agree, and for the pending one that they do as long as its script had no
effect (checked with the hazards of `gate` and eight
methods: 326,373 states); each action is one of `Gate`'s or
a stutter under the mapping of `Controller`'s `Promise`.

### The runner: `CommandRunnerProofs`

For any number of calls of the three kinds and every hazard: `RunnerTypes`,
`NoChildForgotten` (`ChildrenWatched`), `NobodyToldTwice` (`AnsweredOnce`), `OwnAnswers`
(`AnswersOwnStatus`) and `ImplementsRunCommand` (`SeenAsRunCommand`), by which
`Controller`'s `RunCommand` is what runcommand.cpp does to a program that calls
`runCommandExec()` alone and can start its children. `AnsweredOnce` follows from who is
connected: the invariant `RInv` (checked on `exec`: 108,074 states) says that the slots
are those of the calls that have not heard yet, that the child in the process
is that of whoever expects a result unless a child could not be started
(`ProcessOK`), and that two kinds of slot are connected only after such a
failure (`SlotsOK`). The two slots that one event may reach are `DeliveredInv`.

### The scripts: `HostRulesProofs`

For any finite set of hosts, any limits and number of faults, and any relation of
addresses that match each other: `HostTypes` and `OneRuleEach` (`AllowedOnce`).
If no address matches another but itself (`AddressesDistinct`; the code fails
without it, see `prefix_address`): `RemovalWorks` (`RemovedIsCutOff`),
`PlacesAgree` (`ChainsAligned`) and `ScriptsAreCommands` (`ScriptsAtomic`), by which
`Firewall`'s commands are what the scripts do. `RemovedIsCutOff` with misaligned
chains rests on the position coming from `gw_hosts_allowed` itself (`RemovedOK`), and
`ChainsAligned` on how far the running script has come: the chains it has still to
change are the old ones, and the others are as its command makes them (`AlignedOK`;
checked on `scripts`: 485,741 states).

### Start and end: `LifecycleProofs`

For any number of retries, hazards and lives: `CleansAfterItself`
(`LeavesNothing`: a life that ends in `~Controller`, whose scripts did not fail and
which got no signal while it started up, while a script ran or while it cleaned
up, leaves no chains) and `RetriesCounted` (`GivesUpLate`). `Orderly` says, of a life that
nothing befell, which script may run in each phase and from where on the
chains are gone; `Quiet`, which holds of a disturbed life too, that no script runs
before the constructor's, so none outlives the life that started it.

### The log: `QuotaBeaconProofs`

For any number of lines, inodes, kinds of line and hosts: `SentInOrder`
(`LinesOnceInOrder`), `WatchKept` (`KeepsWatching`), `NothingMissed`
(`ListedMissesNothing`), `NobodyChargedTwice` (`ChargedOnce`), `EverythingCharged`
(`AllCharged`). Files may be renamed, created, replaced and moved back at will; the
properties exempt what the code does not survive: nothing is sent or charged twice
unless a file was moved back or overtaken, and the watch is kept unless one was
overtaken. The invariant `BInv` (checked on `log`: 2,418,474 states, and with
three lines: 4,872,924) says which signal
is still due while a slot does not know the file that is there (`Known`), and
that what would be read next was not sent before, but for the first half of the
line at which reading stopped (`InOrder`); `ChargedOnce` needs in addition that the
two halves of a line are of its one kind, whose pattern is in at most one of them. The proof of a scan
(`ScanStep`) is done once, for each place from which a slot may read.

### The page: `PortalProofs`

For any number of messages under way: `PortalTypes` (`PortalTypeOK`), and, if the
update timer is longer than one interval of the panel (`UPDATE_TIME > 1`; the
code's is four), `UpdatesKeepAlive` (`KeptAlive`). `Fresh` says that the timer lacks
at most the one tick for which an update is due or under way; it is not
inductive without `StartOnce`: an answer to `startSession` that came late would
set the interval again, with an old update counting as the last one, if there
were two (checked on `portal`: 162,971 states).

### Model-checked only

- Liveness under fairness, and what needs ENABLED: out of the prover's reach
  (`HandlersReturn`, `EndedForgotten`, `QuitStops`, `UnrefreshedEnds`,
  `ExhaustedStops`, `PausedRestarts`, `EveryCallAnswered`, `StartEnds`,
  `SignalsTerminal`, `PanelCorrected`, `AbandonedEnds`).
- `ClientsView`, that `Controller` implements `SessionView`: within reach, not done.
- What happens outside a theorem's hypotheses is what the runs show: matching
  addresses in `prefix_address`, the hazards that `Orderly` excludes in
  `reentrancy`.
- Induction over data is out of reach too, and the models proved about use no
  recursion: the position of a rule is a least element, which `HostRulesProofs`
  takes from a well-founded order, and `QuotaBeacon` counts the signals of a step
  by a set (`Hits`).

## 5. Not modelled

D-Bus and PHP marshalling and the getters (they change nothing), the output of
commands, the syslog message handler and `set_sig_handler` (no caller), system
calls that fail in `handle_signals`, the firewall reset functions, index.html and
what pages only display, a second page on the same address at the same time, the
shells (each makes one call), packaging and generated build files. The signal
handler's calls into Qt are undefined at a level below these models: a signal
arrives between steps of the program or ends it.

## 6. Plan

Done: the core and its abstract promises, the command runner in full, the start
and end of the process, the scripts, the log watcher, the web panel, and the
safety properties of each for every value of the constants, with the refinements
of `Gate`, `RunCommand` and `Firewall`. To come, in this order:

1. `ClientsView` as a theorem, which would carry `KeptAlive` over to the daemon.
2. The quota path composed: `QuotaBeacon`'s charges as the only quota events of a
   session, that is what a log line costs end to end.
