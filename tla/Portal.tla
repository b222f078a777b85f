------------------------------- MODULE Portal -------------------------------
(***************************************************************************)
(* The session panel in a client's browser (webroot/js/sessionpanel.js and *)
(* gateway.js) and its daemon: the page's calls go through the web server  *)
(* (Gateway.php), which makes one D-Bus call of each and turns a result    *)
(* other than 0 into an error.  They are served, answered and lost in any  *)
(* order; a call may be served when the page that made it is gone.         *)
(*                                                                         *)
(* The daemon is what the client sees of it, module SessionView.  A tick   *)
(* stands for the 15 s between two updates of the panel here, so the 60 s  *)
(* of the update timer are UPDATE_TIME = 4 ticks.                          *)
(***************************************************************************)
EXTENDS SessionView, FiniteSets

CONSTANT MaxNet         \* bound: messages under way from one tick to the next, or when
                        \*   a click adds one

ASSUME PortalAssumption == MaxNet \in Nat

Ops == {"startSession", "updateSession", "pauseSession", "playSession", "endSession", "getSession"}
PanelStates == {"starting", "uninitialized", "started", "paused", "ended"}

VARIABLES
  page,                 \* "closed", "open", or "leaving": a redirect is due
  panel,                \* var state
  interval,             \* updateTimerId runs
  due,                  \* a tick has passed since the interval last fired
  kept,                 \* history: the last update of this page was served
  net,                  \* messages: calls, and answers to this page
  awaited               \* the page that made the suspended call is still there

panelVars == <<page, panel, interval, due>>
portalVars == <<viewVars, panelVars, kept, net, awaited>>

\* heard: the page that made the call is still there.  (Two calls of a kind that
\* are under way together are one.)
Request(op) == [to |-> "daemon", op |-> op, heard |-> TRUE]
Reply(op, error, shown) == [to |-> "page", op |-> op, error |-> error, state |-> shown]
NoState == "none"

States == {"UNINITIALIZED", "STARTED", "PAUSED", "EXHAUSTED", "ENDED"}

\* The types; and nothing runs or is heard for a page that is closed.
PortalTypeOK ==
  /\ state \in States \cup {"none"} /\ left \in 0 .. UPDATE_TIME
  /\ doing \in {"none", "start", "pause", "end", "exhaust", "lost"}
  /\ by \in Operations \cup {"none", "tick"}
  /\ answer \in [op : Operations \cup {"none"}, ret : {0, Failed}]
  /\ page \in {"closed", "open", "leaving"} /\ panel \in PanelStates
  /\ interval \in BOOLEAN /\ due \in BOOLEAN /\ kept \in BOOLEAN /\ awaited \in BOOLEAN
  /\ net \subseteq [to : {"daemon"}, op : Ops, heard : BOOLEAN]
                   \cup [to : {"page"}, op : Ops, error : BOOLEAN, state : States \cup {NoState}]
  /\ page = "closed" => ~interval /\ ~awaited /\ \A m \in net : m.to = "daemon" /\ ~m.heard

PortalInit ==
  /\ ViewInit
  /\ page = "closed" /\ panel = "starting"
  /\ interval = FALSE /\ due = FALSE /\ kept = FALSE
  /\ net = {} /\ awaited = FALSE

-----------------------------------------------------------------------------
(* The panel *)

Send(op) == net' = net \cup {Request(op)}
Few == Cardinality(net) <= MaxNet

\* $(document).ready()
Load ==
  /\ page = "closed" /\ page' = "open"
  /\ panel' = "starting"
  /\ interval' = FALSE /\ due' = FALSE /\ kept' = FALSE
  /\ Few /\ Send("startSession")
  /\ Others
  /\ UNCHANGED awaited

\* (mutant) A page that still hears the answers to the one before it.
CloseHearing ==
  /\ page # "closed" /\ page' = "closed"
  /\ interval' = FALSE /\ due' = FALSE /\ kept' = FALSE
  /\ panel' = "starting"
  /\ Others
  /\ UNCHANGED <<net, awaited>>

\* The redirect, or the user leaves: calls go on, nobody hears their answers.
Close ==
  /\ page # "closed" /\ page' = "closed"
  /\ interval' = FALSE /\ due' = FALSE /\ kept' = FALSE
  /\ net' = {[m EXCEPT !.heard = FALSE] : m \in {n \in net : n.to = "daemon" /\ n.op # "getSession"}}
  /\ awaited' = FALSE
  /\ panel' = "starting"
  /\ Others

\* The buttons that the panel shows.
Click ==
  /\ page # "closed"
  /\ \E op \in CASE panel = "started" -> {"pauseSession", "endSession"}
                 [] panel = "paused"  -> {"playSession", "endSession"}
                 [] OTHER             -> {} :
       Cardinality(net) < MaxNet /\ Request(op) \notin net /\ Send(op)
  /\ Others
  /\ UNCHANGED <<panelVars, kept, awaited>>

IntervalFires ==
  /\ interval /\ due
  /\ due' = FALSE
  /\ Send("updateSession")
  /\ Others
  /\ UNCHANGED <<page, panel, interval, kept, awaited>>

\* set_state(): the panel shows new, an exhausted session as an ended one, and
\* leaves for index.html when the session is over.
set_state(new) ==
  LET shown == IF new = "exhausted" THEN "ended" ELSE new IN
  /\ panel' = shown
  /\ interval' = (interval /\ (shown # "ended" \/ panel = "ended"))
  /\ page' = IF shown # panel /\ shown \in {"uninitialized", "ended"} THEN "leaving" ELSE page
  /\ UNCHANGED due

state_code_to_string(code) ==
  CASE code = "UNINITIALIZED" -> "uninitialized"
    [] code = "STARTED"       -> "started"
    [] code = "PAUSED"        -> "paused"
    [] code = "EXHAUSTED"     -> "exhausted"
    [] code = "ENDED"         -> "ended"

\* (mutant) The interval is set before the session was started, and not after.
start_without_interval(error) ==
  /\ page' = IF error THEN "leaving" ELSE page
  /\ UNCHANGED <<panel, interval, due>>

start_session_cb(error) ==
  /\ page' = IF error THEN "leaving" ELSE page
  /\ interval' = (interval \/ ~error)
  /\ UNCHANGED <<panel, due>>

update_session_cb(error) ==
  /\ page' = IF error THEN "leaving" ELSE page
  /\ UNCHANGED <<panel, interval, due>>

get_session_stats_cb(error, code) ==
  IF error THEN UNCHANGED panelVars ELSE set_state(state_code_to_string(code))

\* The callback of an answer.  All but that of the statistics ask for them.
Deliver(m) ==
  /\ m.to = "page"
  /\ CASE m.op = "startSession"  -> start_session_cb(m.error)
       [] m.op = "updateSession" -> update_session_cb(m.error)
       [] m.op = "getSession"    -> get_session_stats_cb(m.error, m.state)
       [] OTHER                  -> UNCHANGED panelVars
  /\ net' = (net \ {m}) \cup (IF m.op = "getSession" THEN {} ELSE {Request("getSession")})
  /\ Others
  /\ UNCHANGED <<kept, awaited>>

-----------------------------------------------------------------------------
(* The way to the daemon and back *)

\* The answer that a step of the daemon gives.
Answered(heard) ==
  IF heard /\ answer' # NoAnswer THEN {Reply(answer'.op, answer'.ret # 0, NoState)} ELSE {}

\* A call reaches the daemon, which answers at once or when its script is over.
Serve(m) ==
  /\ m.to = "daemon" /\ m.op # "getSession"
  /\ Call(m.op)
  /\ net' = (net \ {m}) \cup Answered(m.heard)
  /\ awaited' = IF answer' = NoAnswer THEN m.heard ELSE awaited
  /\ kept' = (kept \/ (m.op = "updateSession" /\ m.heard /\ answer'.ret = 0))
  /\ UNCHANGED panelVars

\* getSession() makes up a record for a client that has none.
ServeStats(m) ==
  /\ m.to = "daemon" /\ m.op = "getSession"
  /\ net' = (net \ {m}) \cup
       (IF ~m.heard THEN {}
        ELSE {Reply("getSession", FALSE, IF Recorded THEN state ELSE "UNINITIALIZED")})
  /\ Others
  /\ UNCHANGED <<panelVars, kept, awaited>>

\* A call or its answer is lost: ajax_call.error.
Lose(m) ==
  /\ m.to = "daemon" => m.heard
  /\ net' = (net \ {m}) \cup {Reply(m.op, TRUE, NoState)}
  /\ net' # net
  /\ kept' = (kept /\ m.op # "updateSession")
  /\ Others
  /\ UNCHANGED <<panelVars, awaited>>

\* The network and the browser keep up with the clock: between two ticks the
\* interval fires, and the update it sends is served.  (Bound: MaxNet messages are
\* under way for longer.)
Timely ==
  /\ ~(interval /\ due) /\ Request("updateSession") \notin net
  /\ Few

Tick ==
  /\ Timely
  /\ Ticks \/ TickBegins \/ TickForgets
  /\ due' = interval
  /\ UNCHANGED <<page, panel, interval, kept, net, awaited>>

\* A suspended function ends, which answers the call it was part of, or goes on.
DaemonEnds(success) ==
  /\ Ends(success)
  /\ net' = net \cup Answered(awaited)
  /\ awaited' = FALSE
  /\ UNCHANGED <<panelVars, kept>>

DaemonGoesOn == GoesOn /\ UNCHANGED <<panelVars, kept, net, awaited>>

PortalNext ==
  \/ Load \/ Close \/ Click \/ IntervalFires
  \/ \E m \in net : Deliver(m) \/ Serve(m) \/ ServeStats(m) \/ Lose(m)
  \/ Tick
  \/ DaemonGoesOn \/ \E success \in BOOLEAN : DaemonEnds(success)

(***************************************************************************)
(* Fairness.  The browser's timer fires and a redirect that is due         *)
(* happens; messages are served and answered, and the panel's questions    *)
(* for the state are not lost for ever; scripts return, and do not fail    *)
(* for ever; and a tick gets to end a session whose update timer is at 0   *)
(* (Controller's UnrefreshedEnds: it is not refused for ever).  Nobody     *)
(* owes a click or a page, and a paused session may never restart.         *)
(***************************************************************************)
Served(op) == \E m \in net : m.op = op /\ (Serve(m) \/ ServeStats(m))
Heard(op) == \E m \in net : m.op = op /\ Deliver(m)
HeardRight(op) == \E m \in net : m.op = op /\ m.to = "page" /\ ~m.error /\ Deliver(m)
PortalFairness ==
  /\ WF_portalVars(IntervalFires) /\ WF_portalVars(page = "leaving" /\ Close)
  /\ WF_portalVars(\E op \in Ops : Served(op) \/ Heard(op))
  /\ WF_portalVars(Served("updateSession")) /\ WF_portalVars(Heard("updateSession"))
  /\ SF_portalVars(Served("getSession")) /\ SF_portalVars(HeardRight("getSession"))
  /\ WF_portalVars(DaemonGoesOn \/ \E success \in BOOLEAN : DaemonEnds(success))
  /\ SF_portalVars(DaemonEnds(TRUE))
  /\ SF_portalVars(Tick) /\ SF_portalVars(Tick /\ doing' = "end")

PortalSpec == PortalInit /\ [][PortalNext]_portalVars /\ PortalFairness
-----------------------------------------------------------------------------
(* Properties *)

\* sessionpanel.js:50 against controller.h: the watchdog (controller.cpp:391) does not
\* turn on a client whose page is there and reached the daemon with its last update.
\* (Before the first one it may: a page that is opened on a running session is told at
\* once that it started, and has what is left of the last page's 60 s.)
WatchdogBites == doing = "end" /\ by = "tick"
KeptAlive ==
  [][page = "open" /\ kept /\ interval /\ ~WatchdogBites => ~WatchdogBites']_portalVars

\* A panel does not go on showing a session that has ended or is forgotten, in
\* whatever order its answers come and whichever are lost.
ShowsLive == page = "open" /\ panel \in {"started", "paused"}
Over == state \in {"none", "ENDED"}
PanelCorrected == (ShowsLive /\ Over) ~> ~(ShowsLive /\ Over)

\* A client who goes away does not stay online: no call that is still under way, and
\* no restart of a paused session, keeps its session up when no page looks at it.
AbandonedEnds == <>[](page = "closed") => <>[](state \notin {"STARTED", "EXHAUSTED"})
=============================================================================
