---------------------------- MODULE PortalProofs ----------------------------
(***************************************************************************)
(* The page and its daemon (Portal), for any number of messages under way  *)
(* and any length of the update timer: types, and that a page which keeps  *)
(* updating its session keeps it.                                          *)
(*                                                                         *)
(* The argument: while the last update was served, the timer lacks at most *)
(* the tick for which the next update is due or under way; and the page's  *)
(* interval starts once, for it has one startSession under way, in one     *)
(* place.                                                                  *)
(***************************************************************************)
EXTENDS Portal, TLAPS

Calls == Ops \ {"getSession"}
Requests == [to : {"daemon"}, op : Ops, heard : BOOLEAN]
Replies == [to : {"page"}, op : Ops, error : BOOLEAN, state : States \cup {NoState}]
Update == Request("updateSession")

\* Whose functions run: one of the panel's calls, or the tick.
CallersOK ==
  /\ by \in Calls \cup {"none", "tick"}
  /\ (doing = "none") <=> (by = "none")
  /\ doing = "exhaust" => state = "STARTED"

\* What the daemon told of a session is one of its states.
StatsOK == \A m \in net :
  m.to = "page" /\ m.op = "getSession" /\ m.error = FALSE => m.state \in States

\* The page's startSession is under way, as a call, in the daemon or as an answer.
StartIn(m) == m.op = "startSession" /\ (m.to = "page" \/ m.heard = TRUE)
StartWaits == awaited = TRUE /\ by = "startSession"
Starting == StartWaits \/ \E m \in net : StartIn(m)

\* There is one, and before its answer no update was sent.
StartOnce ==
  /\ \A m, n \in net : StartIn(m) /\ StartIn(n) => m = n
  /\ StartWaits => \A m \in net : ~StartIn(m)
  /\ Starting => interval = FALSE /\ kept = FALSE /\ Update \notin net

\* The timer runs down by one between two updates that are served.
Fresh ==
  kept = TRUE /\ interval = TRUE /\ state \in {"STARTED", "EXHAUSTED"} =>
    /\ left >= UPDATE_TIME - 1
    /\ (due = FALSE /\ Update \notin net) => left = UPDATE_TIME

PInv == PortalTypeOK /\ CallersOK /\ StatsOK /\ StartOnce /\ Fresh

-----------------------------------------------------------------------------
(* Messages and calls *)

LEMMA NetIs ==
  ASSUME PortalTypeOK, NEW m \in net
  PROVE  /\ m.op \in Ops
         /\ (m.to = "daemon" /\ m \in Requests) \/ (m.to = "page" /\ m \in Replies)
<1>1. m \in Requests \/ m \in Replies
  BY DEF PortalTypeOK, Requests, Replies
<1>2. m \in Requests => m.to = "daemon" /\ m.op \in Ops
  BY DEF Requests
<1>3. m \in Replies => m.to = "page" /\ m.op \in Ops
  BY DEF Replies
<1> QED BY <1>1, <1>2, <1>3

\* A call that is heard is the page's request.
LEMMA RequestIs ==
  ASSUME NEW m \in Requests, m.heard = TRUE
  PROVE  m = Request(m.op)
<1>1. m = [to |-> m.to, op |-> m.op, heard |-> m.heard]
  BY DEF Requests
<1>2. m.to = "daemon"
  BY DEF Requests
<1> QED BY <1>1, <1>2 DEF Request

\* What a call of the panel does to the session that its client sees.
LEMMA CallIs ==
  ASSUME PortalTypeOK, CallersOK, NEW op \in Calls, Call(op)
  PROVE  /\ \/ state' = state
            \/ state = "none" /\ state' = "UNINITIALIZED"
         /\ left' \in {left, UPDATE_TIME}
         /\ \/ /\ answer' = NoAnswer
               /\ op # "updateSession"
               /\ doing = "none" /\ doing' \in {"start", "pause", "end"} /\ by' = op
            \/ /\ \/ answer' = [op |-> op, ret |-> 0]
                       /\ (op = "updateSession" => left' = UPDATE_TIME)
                  \/ answer' = [op |-> op, ret |-> Failed]
                       /\ (op = "updateSession" => state' = "none")
               /\ doing' = doing /\ by' = by
<1>1. CASE Done(op) /\ Acts(op)
  <2>1. CASE op = "updateSession"
    BY <1>1, <2>1 DEF Acts, Answers
  <2>2. CASE op # "updateSession"
    BY <1>1, <2>2 DEF Acts, Answers, Creates, Calls, Ops, Recorded
  <2> QED BY <2>1, <2>2
<1>2. CASE ~Done(op) /\ Refuses(op)
  <2>1. CASE op = "updateSession"
    BY <1>2, <2>1 DEF Refuses, Answers, Creates, Done, Recorded
  <2>2. CASE op # "updateSession"
    BY <1>2, <2>2 DEF Refuses, Answers, Creates, Recorded
  <2> QED BY <2>1, <2>2
<1>3. CASE Begins(op)
  <2>1. doing' \in {"start", "pause", "end"} /\ op # "updateSession"
    BY <1>3 DEF Begins, Needs, Calls, Ops, Setters
  <2> QED BY <1>3, <2>1 DEF Begins, Silent, Creates, Recorded
<1> QED BY <1>1, <1>2, <1>3 DEF Call

\* The daemon's own steps: how a function's end changes the session.
LEMMA EntersIs ==
  ASSUME PortalTypeOK, CallersOK, NEW success \in BOOLEAN, Enters(success), doing # "none"
  PROVE  /\ state' \in States \cup {"none"} /\ left' \in 0 .. UPDATE_TIME
         /\ (state' = state /\ left' = left)
              \/ (state' = "STARTED" /\ left' = UPDATE_TIME)
              \/ (state' = "EXHAUSTED" /\ state = "STARTED" /\ left' = left)
              \/ state' \notin {"STARTED", "EXHAUSTED"}
<1>1. Entered \in States \cup {"none"}
  BY DEF Entered, PortalTypeOK, States
<1>2. Entered = "EXHAUSTED" => doing = "exhaust"
  BY DEF Entered, PortalTypeOK
<1>3. UPDATE_TIME \in 0 .. UPDATE_TIME
  BY ViewAssumption
<1>4. CASE state' = state /\ left' = left
  BY <1>4 DEF PortalTypeOK
<1>5. CASE /\ state' = Entered
           /\ left' = CASE Entered = "STARTED" -> UPDATE_TIME
                        [] Entered = "none" -> 0 [] OTHER -> left
  <2>1. left' \in 0 .. UPDATE_TIME
    BY <1>3, <1>5 DEF PortalTypeOK
  <2> QED BY <1>1, <1>2, <1>5, <2>1 DEF CallersOK
<1> QED BY <1>4, <1>5 DEF Enters

\* A reply is one that the page takes, and says what it is about.
LEMMA ReplyIs ==
  ASSUME NEW op \in Ops, NEW error \in BOOLEAN, NEW shown \in States \cup {NoState}
  PROVE  /\ Reply(op, error, shown) \in Replies
         /\ Reply(op, error, shown).to = "page" /\ Reply(op, error, shown).op = op
         /\ Reply(op, error, shown).error = error /\ Reply(op, error, shown).state = shown
BY DEF Reply, Replies

LEMMA SentIs ==
  ASSUME NEW op \in Ops
  PROVE  /\ Request(op) \in Requests /\ Request(op).op = op
         /\ Request(op).to = "daemon" /\ Request(op).heard = TRUE
         /\ Request(op) = Update => op = "updateSession"
<1>1. Request(op).op = op /\ Update.op = "updateSession"
  BY DEF Request, Update
<1> QED BY <1>1 DEF Request, Requests

\* The types, as the lemmas use them.
LEMMA TypesAre ==
  PortalTypeOK <=>
    /\ state \in States \cup {"none"} /\ left \in 0 .. UPDATE_TIME
    /\ doing \in {"none", "start", "pause", "end", "exhaust", "lost"}
    /\ by \in Operations \cup {"none", "tick"}
    /\ answer \in [op : Operations \cup {"none"}, ret : {0, Failed}]
    /\ page \in {"closed", "open", "leaving"} /\ panel \in PanelStates
    /\ interval \in BOOLEAN /\ due \in BOOLEAN /\ kept \in BOOLEAN /\ awaited \in BOOLEAN
    /\ net \subseteq Requests \cup Replies
    /\ page = "closed" => ~interval /\ ~awaited /\ \A m \in net : m.to = "daemon" /\ ~m.heard
BY DEF PortalTypeOK, Requests, Replies

LEMMA TypesNext ==
  ASSUME state' \in States \cup {"none"}, left' \in 0 .. UPDATE_TIME,
         doing' \in {"none", "start", "pause", "end", "exhaust", "lost"},
         by' \in Operations \cup {"none", "tick"},
         answer' \in [op : Operations \cup {"none"}, ret : {0, Failed}],
         page' \in {"closed", "open", "leaving"}, panel' \in PanelStates,
         interval' \in BOOLEAN, due' \in BOOLEAN, kept' \in BOOLEAN, awaited' \in BOOLEAN,
         net' \subseteq Requests \cup Replies,
         page' = "closed" =>
           interval' = FALSE /\ awaited' = FALSE /\ \A m \in net' : m.to = "daemon" /\ m.heard = FALSE
  PROVE  PortalTypeOK'
BY DEF PortalTypeOK, Requests, Replies

\* The step's answer is to one call, in one message, which is heard.
LEMMA AnsweredIs ==
  ASSUME NEW op \in Calls, NEW ret \in {0, Failed}, NEW heard \in BOOLEAN,
         answer' = [op |-> op, ret |-> ret]
  PROVE  /\ answer' # NoAnswer
         /\ heard = FALSE => Answered(heard) = {}
         /\ heard = TRUE => \E r \in Replies : Answered(heard) = {r} /\ r.op = op /\ r.to = "page"
<1>1. op # "none" /\ op \in Ops
  BY DEF Calls, Ops
<1>2. answer' # NoAnswer /\ answer'.op = op /\ answer'.ret = ret
  BY <1>1 DEF NoAnswer
<1>3. PICK error \in BOOLEAN : error = (ret # 0)
  OBVIOUS
<1>4. heard = TRUE => Answered(heard) = {Reply(op, error, NoState)}
  BY <1>2, <1>3 DEF Answered
<1>5. heard = FALSE => Answered(heard) = {}
  BY DEF Answered
<1> QED BY <1>1, <1>2, <1>4, <1>5, ReplyIs

LEMMA NotAnswered ==
  ASSUME answer' = NoAnswer, NEW heard \in BOOLEAN
  PROVE  Answered(heard) = {}
BY DEF Answered

LEMMA ClosedIs ==
  ASSUME PortalTypeOK, page = "closed"
  PROVE  /\ interval = FALSE /\ awaited = FALSE
         /\ \A m \in net : m.to = "daemon" /\ m.heard = FALSE /\ ~StartIn(m) /\ m # Update
<1>1. interval = FALSE /\ awaited = FALSE
  BY DEF PortalTypeOK
<1>2. ASSUME NEW m \in net
      PROVE  m.to = "daemon" /\ m.heard = FALSE
  <2>1. m.to = "daemon" /\ ~m.heard
    BY <1>2 DEF PortalTypeOK
  <2>2. m \in Requests
    BY <1>2, <2>1, NetIs
  <2> QED BY <2>1, <2>2 DEF Requests
<1>3. Update.heard = TRUE
  BY DEF Update, Request
<1> QED BY <1>1, <1>2, <1>3 DEF StartIn

\* Steps in which the daemon does nothing.
LEMMA OthersKeep ==
  ASSUME PInv, Others
  PROVE  /\ CallersOK' /\ state' \in States \cup {"none"} /\ left' \in 0 .. UPDATE_TIME
         /\ doing' \in {"none", "start", "pause", "end", "exhaust", "lost"}
         /\ by' \in Operations \cup {"none", "tick"}
         /\ answer' \in [op : Operations \cup {"none"}, ret : {0, Failed}]
<1>1. UNCHANGED <<state, left, doing, by>> /\ answer' = NoAnswer
  BY DEF Others, Silent
<1>2. answer' \in [op : Operations \cup {"none"}, ret : {0, Failed}]
  BY <1>1 DEF NoAnswer
<1>3. CallersOK'
  BY <1>1 DEF PInv, CallersOK
<1> QED BY <1>1, <1>2, <1>3, TypesAre DEF PInv

-----------------------------------------------------------------------------
(* The panel's steps *)

LEMMA LoadInv ==
  ASSUME PInv, Load
  PROVE  PInv'
<1>1. /\ page = "closed" /\ page' = "open" /\ panel' = "starting"
      /\ interval' = FALSE /\ due' = FALSE /\ kept' = FALSE /\ awaited' = FALSE
      /\ net' = net \cup {Request("startSession")}
      /\ Others /\ net \subseteq Requests \cup Replies
  BY ClosedIs, TypesAre DEF Load, Send, PInv
<1>2. "startSession" \in Ops
  BY DEF Ops
<1>3. Request("startSession") \in Requests /\ Request("startSession").to = "daemon"
      /\ Request("startSession") # Update
  BY <1>2, SentIs
<1>4. PortalTypeOK'
  BY <1>1, <1>3, OthersKeep, TypesAre, TypesNext DEF PanelStates
<1>5. StatsOK'
  BY <1>1, <1>3 DEF PInv, StatsOK
<1>6. StartOnce'
  <2>1. \A m \in net : ~StartIn(m) /\ m # Update
    BY <1>1, ClosedIs DEF PInv
  <2>2. \A m \in net' : StartIn(m) => m = Request("startSession")
    BY <1>1, <2>1
  <2>3. Update \notin net'
    BY <1>1, <1>3, <2>1
  <2> QED BY <1>1, <2>2, <2>3 DEF StartOnce, Starting, StartWaits, StartIn
<1>7. Fresh'
  BY <1>1 DEF Fresh
<1> QED BY <1>1, <1>4, <1>5, <1>6, <1>7, OthersKeep DEF PInv

LEMMA CloseInv ==
  ASSUME PInv, Close
  PROVE  PInv'
<1>1. /\ page' = "closed" /\ panel' = "starting"
      /\ interval' = FALSE /\ due' = FALSE /\ kept' = FALSE /\ awaited' = FALSE
      /\ Others
  BY DEF Close
<1>2. ASSUME NEW m \in net'
      PROVE  m \in Requests /\ m.to = "daemon" /\ m.heard = FALSE
  <2>1. PICK n \in net : n.to = "daemon" /\ m = [n EXCEPT !.heard = FALSE]
    BY <1>2 DEF Close
  <2>2. n \in Requests
    BY <2>1, NetIs DEF PInv
  <2> QED BY <2>1, <2>2 DEF Requests
<1>3. PortalTypeOK'
  BY <1>1, <1>2, OthersKeep, TypesAre, TypesNext DEF PanelStates
<1>4. StatsOK'
  BY <1>2 DEF StatsOK
<1>5. StartOnce'
  <2>1. Update.heard = TRUE
    BY DEF Update, Request
  <2> QED BY <1>1, <1>2, <2>1 DEF StartOnce, StartIn, StartWaits
<1>6. Fresh'
  BY <1>1 DEF Fresh
<1> QED BY <1>1, <1>3, <1>4, <1>5, <1>6, OthersKeep DEF PInv

\* The page sends a call that is not its first.
LEMMA SendInv ==
  ASSUME PInv, Others, NEW op \in Calls \ {"startSession"}, Send(op), page # "closed",
         UNCHANGED <<page, panel, interval, kept, awaited>>,
         due' \in BOOLEAN, op = "updateSession" => interval = TRUE,
         due' # due => op = "updateSession"
  PROVE  PInv'
<1>1. /\ op \in Ops /\ net' = net \cup {Request(op)} /\ net \subseteq Requests \cup Replies
      /\ Request(op) \in Requests /\ Request(op).op = op /\ Request(op).to = "daemon"
      /\ Request(op) = Update => op = "updateSession"
  BY SentIs, TypesAre DEF Send, Calls, PInv
<1>2. PortalTypeOK'
  BY <1>1, OthersKeep, TypesAre, TypesNext DEF PInv
<1>3. StatsOK'
  BY <1>1 DEF PInv, StatsOK
<1>4. by' = by /\ state' = state /\ left' = left
  BY DEF Others
<1>5. StartOnce'
  <2>1. ~StartIn(Request(op))
    BY <1>1 DEF StartIn
  <2>2. Starting' => Starting
    BY <1>1, <1>4, <2>1 DEF Starting, StartWaits
  <2>3. Update \in net' => Update \in net \/ interval = TRUE
    BY <1>1
  <2>4. (\A m, n \in net : StartIn(m) /\ StartIn(n) => m = n)
        /\ (StartWaits => \A m \in net : ~StartIn(m))
    BY DEF PInv, StartOnce
  <2>5. (\A m, n \in net' : StartIn(m) /\ StartIn(n) => m = n)
        /\ (StartWaits' => \A m \in net' : ~StartIn(m))
    BY <1>1, <1>4, <2>1, <2>4 DEF StartWaits
  <2> QED BY <2>2, <2>3, <2>5 DEF PInv, StartOnce
<1>6. Fresh'
  <2>1. op = "updateSession" => Update \in net'
    BY <1>1 DEF Update
  <2> QED BY <1>1, <1>4, <2>1 DEF PInv, Fresh
<1> QED BY <1>2, <1>3, <1>5, <1>6, OthersKeep DEF PInv

LEMMA ClickInv ==
  ASSUME PInv, Click
  PROVE  PInv'
<1>1. PICK op \in {"pauseSession", "endSession", "playSession"} : Send(op)
  <2> DEFINE Shown == CASE panel = "started" -> {"pauseSession", "endSession"}
                        [] panel = "paused"  -> {"playSession", "endSession"}
                        [] OTHER             -> {}
  <2>1. PICK op \in Shown : Send(op)
    BY DEF Click
  <2>2. Shown \subseteq {"pauseSession", "endSession", "playSession"}
    OBVIOUS
  <2> QED BY <2>1, <2>2
<1>2. op \in Calls \ {"startSession"} /\ op # "updateSession"
  BY DEF Calls, Ops
<1>3. Others /\ page # "closed" /\ UNCHANGED <<page, panel, interval, due, kept, awaited>>
  BY DEF Click, panelVars
<1>4. due' \in BOOLEAN
  BY <1>3, TypesAre DEF PInv
<1> QED BY <1>1, <1>2, <1>3, <1>4, SendInv

LEMMA IntervalInv ==
  ASSUME PInv, IntervalFires
  PROVE  PInv'
<1>1. "updateSession" \in Calls \ {"startSession"}
  BY DEF Calls, Ops
<1>2. interval = TRUE
  BY DEF IntervalFires, PInv, PortalTypeOK
<1>3. page # "closed"
  BY <1>2, ClosedIs DEF PInv
<1> QED BY <1>1, <1>2, <1>3, SendInv DEF IntervalFires

\* What a callback does to the panel: only that of startSession sets the interval.
LEMMA CallbackIs ==
  ASSUME PInv, NEW m \in net, Deliver(m)
  PROVE  /\ m \in Replies /\ m.to = "page" /\ page # "closed"
         /\ page' \in {page, "leaving"} /\ panel' \in PanelStates /\ due' = due
         /\ interval' \in BOOLEAN
         /\ interval' = TRUE /\ interval = FALSE => m.op = "startSession"
<1>1. m.to = "page" /\ m \in Replies /\ m.op \in Ops /\ m.error \in BOOLEAN
  BY NetIs DEF Deliver, PInv, Replies
<1>2. page # "closed"
  BY <1>1, ClosedIs DEF PInv
<1>3. panel \in PanelStates /\ interval \in BOOLEAN
  BY TypesAre DEF PInv
<1>4. CASE m.op = "startSession"
  BY <1>1, <1>2, <1>3, <1>4 DEF Deliver, start_session_cb
<1>5. CASE m.op = "updateSession"
  BY <1>1, <1>2, <1>3, <1>5 DEF Deliver, update_session_cb
<1>6. CASE m.op = "getSession"
  <2>1. get_session_stats_cb(m.error, m.state)
    BY <1>6 DEF Deliver
  <2>2. CASE m.error = TRUE
    BY <1>1, <1>2, <1>3, <2>1, <2>2 DEF get_session_stats_cb, panelVars
  <2>3. CASE m.error = FALSE
    <3>1. m.state \in States
      BY <1>1, <1>6, <2>3 DEF PInv, StatsOK
    <3>2. PICK new \in {"uninitialized", "started", "paused", "exhausted", "ended"} : set_state(new)
      BY <2>1, <2>3, <3>1 DEF get_session_stats_cb, state_code_to_string, States
    <3>3. PICK shown \in {"uninitialized", "started", "paused", "ended"} :
            /\ panel' = shown
            /\ interval' = (interval /\ (shown # "ended" \/ panel = "ended"))
            /\ page' \in {page, "leaving"} /\ due' = due
      BY <3>2 DEF set_state
    <3> QED BY <1>1, <1>2, <1>3, <3>3 DEF PanelStates
  <2> QED BY <1>1, <2>2, <2>3
<1>7. CASE m.op \notin {"startSession", "updateSession", "getSession"}
  BY <1>1, <1>2, <1>3, <1>7 DEF Deliver, panelVars
<1> QED BY <1>4, <1>5, <1>6, <1>7

LEMMA DeliverInv ==
  ASSUME PInv, NEW m \in net, Deliver(m)
  PROVE  PInv'
<1>1. /\ m \in Replies /\ m.to = "page" /\ page # "closed"
      /\ page' \in {page, "leaving"} /\ panel' \in PanelStates /\ due' = due
      /\ interval' \in BOOLEAN /\ (interval' = TRUE /\ interval = FALSE => m.op = "startSession")
      /\ Others /\ kept' = kept /\ awaited' = awaited
      /\ by' = by /\ state' = state /\ left' = left
  BY CallbackIs DEF Deliver, Others
<1>2. /\ "getSession" \in Ops /\ Request("getSession") \in Requests
      /\ Request("getSession") # Update /\ Request("getSession").to = "daemon"
      /\ ~StartIn(Request("getSession")) /\ m # Update /\ Update.to = "daemon"
  <2>1. "getSession" \in Ops /\ "updateSession" \in Ops
    BY DEF Ops
  <2> QED BY <1>1, <2>1, SentIs DEF StartIn, Update
<1>3. net' = net \ {m} \/ net' = (net \ {m}) \cup {Request("getSession")}
  BY DEF Deliver
<1>4. PortalTypeOK'
  BY <1>1, <1>2, <1>3, OthersKeep, TypesAre, TypesNext DEF PInv
<1>5. StatsOK'
  BY <1>2, <1>3 DEF PInv, StatsOK
<1>6. /\ \A k \in net' : StartIn(k) => k \in net /\ k # m
      /\ Update \in net' <=> Update \in net
  BY <1>2, <1>3
<1>7. StartWaits' <=> StartWaits
  BY <1>1 DEF StartWaits
<1>8. CASE interval' = TRUE /\ interval = FALSE
  <2>1. StartIn(m)
    BY <1>1, <1>8 DEF StartIn
  <2>2. kept = FALSE /\ ~StartWaits /\ \A k \in net : StartIn(k) => k = m
    BY <2>1 DEF PInv, StartOnce, Starting
  <2>3. StartOnce'
    BY <1>6, <1>7, <2>2 DEF StartOnce, Starting, StartIn
  <2>4. Fresh'
    BY <1>1, <2>2 DEF Fresh
  <2> QED BY <1>1, <1>4, <1>5, <2>3, <2>4, OthersKeep DEF PInv
<1>9. CASE ~(interval' = TRUE /\ interval = FALSE)
  <2>1. interval' = TRUE => interval = TRUE
    BY <1>9, TypesAre DEF PInv
  <2>2. StartOnce'
    <3>1. \A k, n \in net' : StartIn(k) /\ StartIn(n) => k = n
      BY <1>6 DEF PInv, StartOnce
    <3>2. StartWaits' => \A k \in net' : ~StartIn(k)
      BY <1>6, <1>7 DEF PInv, StartOnce
    <3>3. Starting' => Starting
      BY <1>6, <1>7 DEF Starting, StartIn
    <3>4. Starting' => interval' = FALSE /\ kept' = FALSE /\ Update \notin net'
      BY <1>1, <1>6, <2>1, <3>3 DEF PInv, StartOnce
    <3> QED BY <3>1, <3>2, <3>4 DEF StartOnce, StartIn
  <2>3. Fresh'
    BY <1>1, <1>6, <2>1 DEF PInv, Fresh, Update, Request
  <2> QED BY <1>1, <1>4, <1>5, <2>2, <2>3, OthersKeep DEF PInv
<1> QED BY <1>8, <1>9

\* A message is taken out of the net, and at most one of the same call put in.
LEMMA PassesOn ==
  ASSUME PInv, NEW m \in net, NEW N \in SUBSET Replies, net' = (net \ {m}) \cup N,
         \A r, q \in N : r = q,
         \A r \in N : r.op = m.op /\ (m.op = "startSession" => StartIn(m)),
         \/ by' = by /\ awaited' = awaited
         \/ by = "none" /\ N = {} /\ by' = m.op /\ (awaited' = TRUE => m.heard = TRUE),
         m.to = "page" \/ m.to = "daemon",
         interval' = interval, kept' \in BOOLEAN, kept' = TRUE => kept = TRUE \/ m = Update
  PROVE  /\ StartOnce'
         /\ Update \in net' <=> Update \in net /\ m # Update
<1>1. \A r \in N : r.to = "page"
  BY DEF Replies
<1>2. Update.to = "daemon" /\ Update.op = "updateSession"
  BY DEF Update, Request
<1>3. Update \in net' <=> Update \in net /\ m # Update
  BY <1>1, <1>2
<1>4. /\ \A k, n \in net : StartIn(k) /\ StartIn(n) => k = n
      /\ StartWaits => \A k \in net : ~StartIn(k)
      /\ Starting => interval = FALSE /\ kept = FALSE /\ Update \notin net
  BY DEF PInv, StartOnce
<1>5. \A r \in N : StartIn(r) => StartIn(m)
  BY <1>1 DEF StartIn
<1>6. StartWaits' => StartWaits \/ StartIn(m)
  BY DEF StartWaits, StartIn
<1>7. Starting' => Starting
  BY <1>5, <1>6 DEF Starting, StartIn
<1>8. \A k, n \in net' : StartIn(k) /\ StartIn(n) => k = n
  <2>1. SUFFICES ASSUME NEW k \in net', NEW n \in net', StartIn(k), StartIn(n)
                 PROVE  k = n
    OBVIOUS
  <2>2. CASE k \in net \ {m} /\ n \in net \ {m}
    BY <1>4, <2>1, <2>2
  <2>3. CASE k \in N /\ n \in N
    BY <2>3
  <2>4. CASE (k \in net \ {m} /\ n \in N) \/ (k \in N /\ n \in net \ {m})
    BY <1>4, <1>5, <2>1, <2>4
  <2> QED BY <2>1, <2>2, <2>3, <2>4
<1>9. StartWaits' => \A k \in net' : ~StartIn(k)
  <2>1. CASE by' = by /\ awaited' = awaited
    <3>1. StartWaits' => StartWaits
      BY <2>1 DEF StartWaits
    <3> QED BY <1>4, <1>5, <3>1
  <2>2. CASE N = {} /\ ~(by' = by /\ awaited' = awaited)
    <3>1. StartWaits' => StartIn(m)
      BY <2>2 DEF StartWaits, StartIn
    <3> QED BY <1>4, <2>2, <3>1
  <2> QED BY <2>1, <2>2
<1>10. Starting' => interval' = FALSE /\ kept' = FALSE /\ Update \notin net'
  BY <1>3, <1>4, <1>7
<1> QED BY <1>3, <1>8, <1>9, <1>10 DEF StartOnce, StartIn

\* A call or an answer that is lost comes back to the page as an error.
LEMMA LoseInv ==
  ASSUME PInv, NEW m \in net, Lose(m)
  PROVE  PInv'
<1>1. /\ (m.to = "daemon" /\ m.heard = TRUE /\ m \in Requests) \/ (m.to = "page" /\ m \in Replies)
      /\ m.op \in Ops
      /\ (m.op = "startSession" => StartIn(m)) /\ page # "closed"
  <2>1. (m.to = "daemon" /\ m \in Requests) \/ (m.to = "page" /\ m \in Replies)
    BY NetIs DEF PInv
  <2>2. m.to = "daemon" => m.heard = TRUE
    BY <2>1 DEF Lose, Requests
  <2>3. m.op \in Ops
    BY NetIs DEF PInv
  <2>4. page # "closed"
    BY <2>1, <2>2, ClosedIs DEF PInv
  <2> QED BY <2>1, <2>2, <2>3, <2>4 DEF StartIn
<1>2. PICK r \in Replies : net' = (net \ {m}) \cup {r} /\ r.to = "page" /\ r.op = m.op /\ r.error = TRUE
  BY <1>1, ReplyIs DEF Lose, States, NoState
<1>3. /\ Others /\ UNCHANGED <<page, panel, interval, due, awaited>>
      /\ by' = by /\ state' = state /\ left' = left
      /\ kept' = (kept /\ m.op # "updateSession")
  BY DEF Lose, Others, panelVars
<1>4. kept' \in BOOLEAN /\ (kept' = TRUE => kept = TRUE /\ m.op # "updateSession")
  BY <1>3, TypesAre DEF PInv
<1>5. PortalTypeOK'
  BY <1>1, <1>2, <1>3, <1>4, OthersKeep, TypesAre, TypesNext DEF PInv
<1>6. StatsOK'
  BY <1>2 DEF PInv, StatsOK
<1>7. StartOnce' /\ (Update \in net' <=> Update \in net /\ m # Update)
  <2>1. {r} \in SUBSET Replies
    OBVIOUS
  <2>2. \A q \in {r} : q.op = m.op /\ (m.op = "startSession" => StartIn(m))
    BY <1>1, <1>2
  <2> QED BY <1>1, <1>2, <1>3, <1>4, <2>1, <2>2, PassesOn
<1>8. Fresh'
  <2>1. m = Update => m.op = "updateSession"
    BY DEF Update, Request
  <2> QED BY <1>3, <1>4, <1>7, <2>1 DEF PInv, Fresh
<1> QED BY <1>3, <1>5, <1>6, <1>7, <1>8, OthersKeep DEF PInv

-----------------------------------------------------------------------------
(* The daemon's steps *)

LEMMA ServeStatsInv ==
  ASSUME PInv, NEW m \in net, ServeStats(m)
  PROVE  PInv'
<1>1. m.to = "daemon" /\ m.op = "getSession" /\ m \in Requests /\ m.heard \in BOOLEAN /\ "getSession" \in Ops
  BY NetIs DEF ServeStats, PInv, Requests, Ops
<1>2. PICK shown \in States : shown = IF Recorded THEN state ELSE "UNINITIALIZED"
  BY TypesAre DEF PInv, Recorded, States
<1>3. PICK r \in Replies : /\ r = Reply("getSession", FALSE, shown)
                           /\ r.to = "page" /\ r.op = "getSession" /\ r.state = shown
  <2>1. shown \in States \cup {NoState}
    OBVIOUS
  <2>2. /\ Reply("getSession", FALSE, shown) \in Replies
        /\ Reply("getSession", FALSE, shown).to = "page"
        /\ Reply("getSession", FALSE, shown).op = "getSession"
        /\ Reply("getSession", FALSE, shown).state = shown
    BY <1>1, <2>1 DEF Reply, Replies
  <2> QED BY <2>2
<1>4. PICK N \in SUBSET Replies : /\ net' = (net \ {m}) \cup N /\ N \subseteq {r}
                                  /\ m.heard = FALSE => N = {}
  BY <1>1, <1>2, <1>3 DEF ServeStats
<1>5. /\ Others /\ UNCHANGED <<page, panel, interval, due, kept, awaited>>
      /\ by' = by /\ state' = state /\ left' = left
  BY DEF ServeStats, Others, panelVars
<1>6. PortalTypeOK'
  <2>1. page' = "closed" => interval' = FALSE /\ awaited' = FALSE
                              /\ \A k \in net' : k.to = "daemon" /\ k.heard = FALSE
    BY <1>4, <1>5, ClosedIs DEF PInv
  <2>2. net' \subseteq Requests \cup Replies
    BY <1>4, TypesAre DEF PInv
  <2> QED BY <1>5, <2>1, <2>2, OthersKeep, TypesAre, TypesNext DEF PInv
<1>7. StatsOK'
  BY <1>3, <1>4 DEF PInv, StatsOK
<1>8. StartOnce' /\ (Update \in net' <=> Update \in net /\ m # Update)
  <2>1. kept' \in BOOLEAN
    BY <1>5, TypesAre DEF PInv
  <2>2. \A q \in N : q.op = m.op /\ (m.op = "startSession" => StartIn(m))
    BY <1>1, <1>3, <1>4
  <2>3. \A q, k \in N : q = k
    BY <1>4
  <2> QED BY <1>1, <1>4, <1>5, <2>1, <2>2, <2>3, PassesOn
<1>9. m # Update
  BY <1>1 DEF Update, Request
<1>10. Fresh'
  BY <1>5, <1>8, <1>9 DEF PInv, Fresh
<1> QED BY <1>5, <1>6, <1>7, <1>8, <1>10, OthersKeep DEF PInv

LEMMA ServeInv ==
  ASSUME PInv, NEW m \in net, Serve(m)
  PROVE  PInv'
<1>1. /\ m.to = "daemon" /\ m \in Requests /\ m.heard \in BOOLEAN /\ m.op \in Calls /\ Call(m.op)
      /\ UNCHANGED <<page, panel, interval, due>>
      /\ net' = (net \ {m}) \cup Answered(m.heard)
  BY NetIs DEF Serve, PInv, Requests, Calls, panelVars
<1>2. /\ state' = state \/ (state = "none" /\ state' = "UNINITIALIZED")
      /\ left' \in {left, UPDATE_TIME}
      /\ \/ /\ answer' = NoAnswer
            /\ m.op # "updateSession"
            /\ doing = "none" /\ doing' \in {"start", "pause", "end"} /\ by' = m.op
         \/ /\ \/ answer' = [op |-> m.op, ret |-> 0]
                    /\ (m.op = "updateSession" => left' = UPDATE_TIME)
               \/ answer' = [op |-> m.op, ret |-> Failed]
                    /\ (m.op = "updateSession" => state' = "none")
            /\ doing' = doing /\ by' = by
  BY <1>1, CallIs DEF PInv
<1>3. m.op \in Operations /\ m.op # "none" /\ m.op # "tick"
  BY <1>1 DEF Calls, Ops, Operations
<1>4. kept' \in BOOLEAN /\ (kept' = TRUE => kept = TRUE \/ (m = Update /\ m.op = "updateSession"))
  <2>1. kept' = (kept \/ (m.op = "updateSession" /\ m.heard /\ answer'.ret = 0))
    BY DEF Serve
  <2>2. m.op = "updateSession" /\ m.heard = TRUE => m = Update
    BY <1>1, RequestIs DEF Update
  <2> QED BY <2>1, <2>2, TypesAre DEF PInv
<1>5. PICK N \in SUBSET Replies :
        /\ net' = (net \ {m}) \cup N
        /\ \A r, q \in N : r = q
        /\ \A r \in N : r.op = m.op /\ r.to = "page" /\ m.heard = TRUE
        /\ \/ answer' # NoAnswer /\ awaited' = awaited
           \/ answer' = NoAnswer /\ awaited' = m.heard /\ N = {}
  <2>1. CASE answer' = NoAnswer
    <3>1. Answered(m.heard) = {}
      BY <1>1, <2>1, NotAnswered
    <3> QED BY <1>1, <2>1, <3>1 DEF Serve
  <2>2. CASE answer' # NoAnswer
    <3>1. PICK ret \in {0, Failed} : answer' = [op |-> m.op, ret |-> ret]
      BY <1>2, <2>2
    <3>2. /\ m.heard = FALSE => Answered(m.heard) = {}
          /\ m.heard = TRUE => \E r \in Replies : Answered(m.heard) = {r} /\ r.op = m.op /\ r.to = "page"
      BY <1>1, <3>1, AnsweredIs
    <3>3. awaited' = awaited
      BY <2>2 DEF Serve
    <3>4. Answered(m.heard) \in SUBSET Replies
      BY <1>1, <3>2
    <3> QED BY <1>1, <2>2, <3>2, <3>3, <3>4
  <2> QED BY <2>1, <2>2
<1>6. answer' # NoAnswer => by' = by /\ doing' = doing
  BY <1>2
<1>7. answer' = NoAnswer => by = "none" /\ by' = m.op
  <2>1. NoAnswer.op = "none"
    BY DEF NoAnswer
  <2>2. \A ret : [op |-> m.op, ret |-> ret] # NoAnswer
    BY <1>3, <2>1
  <2> QED BY <1>2, <2>2 DEF PInv, CallersOK
<1>8. PortalTypeOK'
  <2>1. page' = "closed" => interval' = FALSE /\ awaited' = FALSE
                              /\ \A k \in net' : k.to = "daemon" /\ k.heard = FALSE
    <3>1. SUFFICES ASSUME page = "closed"
                   PROVE  interval' = FALSE /\ awaited' = FALSE
                            /\ \A k \in net' : k.to = "daemon" /\ k.heard = FALSE
      BY <1>1
    <3>2. /\ interval = FALSE /\ awaited = FALSE
          /\ \A k \in net : k.to = "daemon" /\ k.heard = FALSE
      BY <3>1, ClosedIs DEF PInv
    <3>3. m.heard = FALSE /\ N = {}
      BY <1>5, <3>2
    <3> QED BY <1>1, <1>5, <3>2, <3>3
  <2>2. net' \subseteq Requests \cup Replies
    BY <1>5, TypesAre DEF PInv
  <2>3. state' \in States \cup {"none"} /\ left' \in 0 .. UPDATE_TIME
    BY <1>2, TypesAre, ViewAssumption DEF PInv, States
  <2>4. answer' \in [op : Operations \cup {"none"}, ret : {0, Failed}]
    BY <1>2, <1>3 DEF NoAnswer
  <2>5. /\ doing' \in {"none", "start", "pause", "end", "exhaust", "lost"}
        /\ by' \in Operations \cup {"none", "tick"}
    BY <1>2, <1>3, TypesAre DEF PInv
  <2>6. awaited' \in BOOLEAN
    BY <1>1, <1>5, TypesAre DEF PInv
  <2> QED BY <1>1, <1>4, <2>1, <2>2, <2>3, <2>4, <2>5, <2>6, TypesAre, TypesNext DEF PInv
<1>9. CallersOK'
  BY <1>1, <1>2, <1>3 DEF PInv, CallersOK
<1>10. StatsOK'
  BY <1>1, <1>5 DEF PInv, StatsOK, Calls
<1>11. StartOnce' /\ (Update \in net' <=> Update \in net /\ m # Update)
  <2>1. \A r \in N : r.op = m.op /\ (m.op = "startSession" => StartIn(m))
    BY <1>5 DEF StartIn
  <2>2. \/ by' = by /\ awaited' = awaited
        \/ by = "none" /\ N = {} /\ by' = m.op /\ (awaited' = TRUE => m.heard = TRUE)
    BY <1>5, <1>6, <1>7
  <2> QED BY <1>1, <1>4, <1>5, <2>1, <2>2, PassesOn
<1>12. Fresh'
  <2>1. SUFFICES ASSUME kept' = TRUE, interval' = TRUE, state' \in {"STARTED", "EXHAUSTED"}
                 PROVE  /\ left' >= UPDATE_TIME - 1
                        /\ (due' = FALSE /\ Update \notin net') => left' = UPDATE_TIME
    BY DEF Fresh
  <2>2. CASE m.op = "updateSession"
    BY <1>2, <2>1, <2>2, ViewAssumption
  <2>3. CASE m.op # "updateSession"
    <3>1. m # Update /\ kept = TRUE /\ state = state'
      BY <1>2, <1>4, <2>1, <2>3 DEF Update, Request
    <3>2. /\ left >= UPDATE_TIME - 1
          /\ (due = FALSE /\ Update \notin net) => left = UPDATE_TIME
      BY <1>1, <2>1, <3>1 DEF PInv, Fresh
    <3> QED BY <1>1, <1>2, <1>11, <3>1, <3>2, ViewAssumption
  <2> QED BY <2>2, <2>3
<1> QED BY <1>8, <1>9, <1>10, <1>11, <1>12 DEF PInv

\* What a tick does to a session: it counts, begins a transition or forgets the record.
LEMMA TicksAre ==
  ASSUME PInv, Ticks \/ TickBegins \/ TickForgets
  PROVE  /\ \/ state' = state
                 /\ left' = IF state \in {"STARTED", "EXHAUSTED"} THEN Dec(left) ELSE left
            \/ state' = "none" /\ left' = 0 /\ doing # "exhaust"
         /\ left' \in 0 .. UPDATE_TIME /\ answer' = NoAnswer
         /\ \/ by' = by /\ doing' = doing
            \/ by' = by /\ doing = "start" /\ doing' = "lost"
            \/ /\ doing = "none" /\ by' = "tick" /\ state' = state
               /\ \/ doing' = "start"
                  \/ doing' = "exhaust" /\ state = "STARTED"
                  \/ doing' = "end" /\ state \in {"STARTED", "EXHAUSTED"} /\ Dec(left) = 0
<1>1. left \in 0 .. UPDATE_TIME /\ Dec(left) \in 0 .. UPDATE_TIME
  BY TypesAre, ViewAssumption DEF PInv, Dec
<1>2. 0 \in 0 .. UPDATE_TIME
  BY ViewAssumption
<1>3. CASE Ticks
  BY <1>1, <1>3 DEF Ticks, Counts, Silent
<1>4. CASE TickBegins
  BY <1>1, <1>4 DEF TickBegins, Counts, Silent
<1>5. CASE TickForgets
  <2>1. doing # "exhaust"
    BY <1>5 DEF TickForgets, PInv, CallersOK
  <2> QED BY <1>2, <1>5, <2>1 DEF TickForgets, Silent
<1> QED BY <1>3, <1>4, <1>5

\* Between two ticks the last update was served, or was lost.
LEMMA FreshAtTick ==
  ASSUME PInv, Timely, kept = TRUE, interval = TRUE, state \in {"STARTED", "EXHAUSTED"}
  PROVE  left = UPDATE_TIME
<1>1. due = FALSE /\ Update \notin net
  BY TypesAre DEF Timely, PInv, Update
<1> QED BY <1>1 DEF PInv, Fresh

LEMMA TickInv ==
  ASSUME PInv, Tick
  PROVE  PInv'
<1>1. /\ Timely /\ (Ticks \/ TickBegins \/ TickForgets)
      /\ due' = interval /\ UNCHANGED <<page, panel, interval, kept, net, awaited>>
  BY DEF Tick
<1>2. NoAnswer \in [op : Operations \cup {"none"}, ret : {0, Failed}]
  BY DEF NoAnswer
<1>3. CallersOK'
  BY <1>1, TicksAre DEF PInv, CallersOK
<1>4. PortalTypeOK'
  <2>1. page' = "closed" => interval' = FALSE /\ awaited' = FALSE
                              /\ \A k \in net' : k.to = "daemon" /\ k.heard = FALSE
    BY <1>1, ClosedIs DEF PInv
  <2>2. state' \in States \cup {"none"} /\ left' \in 0 .. UPDATE_TIME
    BY <1>1, TicksAre, TypesAre DEF PInv
  <2>3. /\ doing' \in {"none", "start", "pause", "end", "exhaust", "lost"}
        /\ by' \in Operations \cup {"none", "tick"}
    BY <1>1, TicksAre, TypesAre DEF PInv
  <2>4. answer' \in [op : Operations \cup {"none"}, ret : {0, Failed}]
    BY <1>1, <1>2, TicksAre
  <2> QED BY <1>1, <2>1, <2>2, <2>3, <2>4, TypesAre, TypesNext DEF PInv
<1>5. StatsOK'
  BY <1>1 DEF PInv, StatsOK
<1>6. StartOnce'
  <2>1. StartWaits' => StartWaits
    BY <1>1, TicksAre DEF StartWaits
  <2>2. Starting' => Starting
    BY <1>1, <2>1 DEF Starting, StartIn
  <2>3. Starting' => interval' = FALSE /\ kept' = FALSE /\ Update \notin net'
    BY <1>1, <2>2 DEF PInv, StartOnce
  <2>4. \A m, n \in net' : StartIn(m) /\ StartIn(n) => m = n
    BY <1>1 DEF PInv, StartOnce
  <2>5. StartWaits' => \A m \in net' : ~StartIn(m)
    BY <1>1, <2>1 DEF PInv, StartOnce
  <2> QED BY <2>3, <2>4, <2>5 DEF StartOnce, StartIn
<1>7. Fresh'
  <2>1. SUFFICES ASSUME kept' = TRUE, interval' = TRUE, state' \in {"STARTED", "EXHAUSTED"}
                 PROVE  left' >= UPDATE_TIME - 1 /\ due' = TRUE
    BY DEF Fresh
  <2>2. state = state' /\ left' = Dec(left)
    BY <1>1, <2>1, TicksAre
  <2>3. left = UPDATE_TIME
    BY <1>1, <2>1, <2>2, FreshAtTick
  <2> QED BY <1>1, <2>1, <2>2, <2>3, ViewAssumption DEF Dec
<1> QED BY <1>3, <1>4, <1>5, <1>6, <1>7 DEF PInv

\* What a function that ends, or goes on, does to the session leaves it fresh.
LEMMA EntersFresh ==
  ASSUME PInv, NEW success \in BOOLEAN, Enters(success), doing # "none",
         UNCHANGED <<interval, due, kept>>, Update \in net' <=> Update \in net
  PROVE  Fresh'
<1>1. PortalTypeOK /\ CallersOK /\ Fresh
  BY DEF PInv
<1>2. \/ state' = state /\ left' = left
      \/ state' = "STARTED" /\ left' = UPDATE_TIME
      \/ state' = "EXHAUSTED" /\ state = "STARTED" /\ left' = left
      \/ state' \notin {"STARTED", "EXHAUSTED"}
  BY <1>1, EntersIs
<1>3. CASE state' = "STARTED" /\ left' = UPDATE_TIME
  BY <1>3, ViewAssumption DEF Fresh
<1>4. CASE state' \notin {"STARTED", "EXHAUSTED"}
  BY <1>4 DEF Fresh
<1>5. CASE left' = left /\ (state' \in {"STARTED", "EXHAUSTED"} => state \in {"STARTED", "EXHAUSTED"})
  BY <1>1, <1>5 DEF Fresh
<1> QED BY <1>2, <1>3, <1>4, <1>5

LEMMA EndsInv ==
  ASSUME PInv, NEW success \in BOOLEAN, DaemonEnds(success)
  PROVE  PInv'
<1>1. /\ doing # "none" /\ Enters(success) /\ doing' = "none" /\ by' = "none"
      /\ net' = net \cup Answered(awaited) /\ awaited' = FALSE
      /\ UNCHANGED <<page, panel, interval, due, kept>>
      /\ awaited \in BOOLEAN
  BY TypesAre DEF DaemonEnds, Ends, panelVars, PInv
<1>2. by \in Calls \cup {"tick"}
  BY <1>1 DEF PInv, CallersOK
<1>3. PICK N \in SUBSET Replies :
        /\ net' = net \cup N
        /\ \A r, q \in N : r = q
        /\ \A r \in N : r.op = by /\ r.to = "page" /\ awaited = TRUE /\ by \in Calls
  <2>1. CASE by = "tick"
    <3>1. Answered(awaited) = {}
      BY <1>1, <2>1, NotAnswered DEF DaemonEnds, Ends, Silent
    <3> QED BY <1>1, <3>1
  <2>2. CASE by \in Calls
    <3>1. by # "tick"
      BY <2>2 DEF Calls, Ops
    <3>2. PICK ret \in {0, Failed} : answer' = [op |-> by, ret |-> ret]
      BY <3>1 DEF DaemonEnds, Ends, Answers
    <3>3. /\ awaited = FALSE => Answered(awaited) = {}
          /\ awaited = TRUE => \E r \in Replies : Answered(awaited) = {r} /\ r.op = by /\ r.to = "page"
      BY <1>1, <2>2, <3>2, AnsweredIs
    <3>4. Answered(awaited) \in SUBSET Replies
      BY <1>1, <3>3
    <3> QED BY <1>1, <2>2, <3>3, <3>4
  <2> QED BY <1>2, <2>1, <2>2
<1>4. answer' \in [op : Operations \cup {"none"}, ret : {0, Failed}]
  <2>1. CASE by = "tick"
    BY <2>1 DEF DaemonEnds, Ends, Silent, NoAnswer
  <2>2. CASE by # "tick"
    <3>1. PICK ret \in {0, Failed} : answer' = [op |-> by, ret |-> ret]
      BY <2>2 DEF DaemonEnds, Ends, Answers
    <3>2. by \in Operations
      BY <1>2, <2>2 DEF Calls, Ops, Operations
    <3> QED BY <3>1, <3>2
  <2> QED BY <2>1, <2>2
<1>5. state' \in States \cup {"none"} /\ left' \in 0 .. UPDATE_TIME
  BY <1>1, EntersIs DEF PInv
<1>6. PortalTypeOK'
  <2>1. page' = "closed" => interval' = FALSE /\ awaited' = FALSE
                              /\ \A k \in net' : k.to = "daemon" /\ k.heard = FALSE
    BY <1>1, <1>3, ClosedIs DEF PInv
  <2>2. net' \subseteq Requests \cup Replies
    BY <1>3, TypesAre DEF PInv
  <2> QED BY <1>1, <1>4, <1>5, <2>1, <2>2, TypesAre, TypesNext DEF PInv
<1>7. CallersOK'
  BY <1>1 DEF CallersOK
<1>8. StatsOK'
  BY <1>3 DEF PInv, StatsOK, Calls
<1>9. Update \in net' <=> Update \in net
  BY <1>3 DEF Update, Request
<1>10. StartOnce'
  <2>1. \A r \in N : StartIn(r) => StartWaits
    BY <1>3 DEF StartIn, StartWaits
  <2>2. ~StartWaits'
    BY <1>1 DEF StartWaits
  <2>3. Starting' => Starting
    BY <1>3, <2>1, <2>2 DEF Starting, StartIn
  <2>4. \A m, n \in net' : StartIn(m) /\ StartIn(n) => m = n
    BY <1>3, <2>1 DEF PInv, StartOnce
  <2>5. Starting' => interval' = FALSE /\ kept' = FALSE /\ Update \notin net'
    BY <1>1, <1>9, <2>3 DEF PInv, StartOnce
  <2> QED BY <2>2, <2>4, <2>5 DEF StartOnce, StartIn
<1>11. Fresh'
  BY <1>1, <1>9, EntersFresh
<1> QED BY <1>6, <1>7, <1>8, <1>10, <1>11 DEF PInv

\* Only a tick goes on here, for the panel calls no setter.
LEMMA GoesOnIs ==
  ASSUME PInv, GoesOn
  PROVE  /\ doing = "exhaust" /\ left = 0 /\ doing' = "end" /\ by' = by /\ answer' = NoAnswer
         /\ \E success \in BOOLEAN : Enters(success)
<1>1. by \notin Setters
  BY DEF PInv, CallersOK, Calls, Ops, Setters
<1> QED BY <1>1 DEF GoesOn, Silent

LEMMA GoesOnInv ==
  ASSUME PInv, DaemonGoesOn
  PROVE  PInv'
<1>1. /\ doing = "exhaust" /\ doing' = "end" /\ by' = by /\ answer' = NoAnswer
      /\ UNCHANGED <<page, panel, interval, due, kept, net, awaited>>
  BY GoesOnIs DEF DaemonGoesOn, panelVars
<1>2. PICK success \in BOOLEAN : Enters(success)
  BY GoesOnIs DEF DaemonGoesOn
<1>3. state' \in States \cup {"none"} /\ left' \in 0 .. UPDATE_TIME
  BY <1>1, <1>2, EntersIs DEF PInv
<1>4. answer' \in [op : Operations \cup {"none"}, ret : {0, Failed}]
  BY <1>1 DEF NoAnswer
<1>5. PortalTypeOK'
  <2>1. page' = "closed" => interval' = FALSE /\ awaited' = FALSE
                              /\ \A k \in net' : k.to = "daemon" /\ k.heard = FALSE
    BY <1>1, ClosedIs DEF PInv
  <2> QED BY <1>1, <1>3, <1>4, <2>1, TypesAre, TypesNext DEF PInv
<1>6. CallersOK'
  BY <1>1 DEF PInv, CallersOK
<1>7. StatsOK'
  BY <1>1 DEF PInv, StatsOK
<1>8. StartOnce'
  BY <1>1 DEF PInv, StartOnce, Starting, StartWaits, StartIn
<1>9. Fresh'
  BY <1>1, <1>2, EntersFresh
<1> QED BY <1>5, <1>6, <1>7, <1>8, <1>9 DEF PInv

-----------------------------------------------------------------------------
(* Theorems *)

LEMMA FirstInv == PortalInit => PInv
<1>1. SUFFICES ASSUME PortalInit
               PROVE  PInv
  OBVIOUS
<1>2. /\ state = "none" /\ left = 0 /\ doing = "none" /\ by = "none" /\ answer = NoAnswer
      /\ page = "closed" /\ panel = "starting" /\ interval = FALSE /\ due = FALSE /\ kept = FALSE
      /\ net = {} /\ awaited = FALSE
  BY <1>1 DEF PortalInit, ViewInit
<1>3. PortalTypeOK
  <2>1. answer \in [op : Operations \cup {"none"}, ret : {0, Failed}]
    BY <1>2 DEF NoAnswer
  <2>2. 0 \in 0 .. UPDATE_TIME
    BY ViewAssumption
  <2> QED BY <1>2, <2>1, <2>2, TypesAre DEF PanelStates
<1>4. CallersOK /\ StatsOK /\ Fresh
  BY <1>2 DEF CallersOK, StatsOK, Fresh
<1>5. StartOnce
  BY <1>2 DEF StartOnce, Starting, StartWaits
<1> QED BY <1>3, <1>4, <1>5 DEF PInv

LEMMA NextInv == PInv /\ [PortalNext]_portalVars => PInv'
<1>1. SUFFICES ASSUME PInv, [PortalNext]_portalVars
               PROVE  PInv'
  OBVIOUS
<1>2. CASE UNCHANGED portalVars
  BY <1>1, <1>2
     DEF portalVars, viewVars, panelVars, PInv, PortalTypeOK, CallersOK, StatsOK, StartOnce,
         Starting, StartWaits, StartIn, Fresh
<1>3. CASE PortalNext
  <2>1. CASE Load \/ Close \/ Click \/ IntervalFires
    BY <1>1, <2>1, LoadInv, CloseInv, ClickInv, IntervalInv
  <2>2. CASE \E m \in net : Deliver(m) \/ Serve(m) \/ ServeStats(m) \/ Lose(m)
    BY <1>1, <2>2, DeliverInv, ServeInv, ServeStatsInv, LoseInv
  <2>3. CASE Tick
    BY <1>1, <2>3, TickInv
  <2>4. CASE DaemonGoesOn \/ \E success \in BOOLEAN : DaemonEnds(success)
    BY <1>1, <2>4, GoesOnInv, EndsInv
  <2> QED BY <1>3, <2>1, <2>2, <2>3, <2>4 DEF PortalNext
<1> QED BY <1>1, <1>2, <1>3

LEMMA PortalInvariant == PortalSpec => []PInv
BY FirstInv, NextInv, PTL DEF PortalSpec

\* Types, and that nothing is set or heard for a page that is closed, with any number
\* of messages under way and for any length of the update timer.
THEOREM PortalTypes == PortalSpec => []PortalTypeOK
<1>1. PInv => PortalTypeOK
  BY DEF PInv
<1> QED BY <1>1, PortalInvariant, PTL

\* sessionpanel.js:50 and controller.h: as long as the update timer is longer than the
\* panel's interval (60 s and 15 s are), the watchdog does not end the session of a
\* page whose last update was served, whatever is delayed, reordered or lost.
THEOREM UpdatesKeepAlive ==
  ASSUME UPDATE_TIME > 1
  PROVE  PortalSpec => KeptAlive
<1> DEFINE Kept == page = "open" /\ kept /\ interval /\ ~WatchdogBites => ~WatchdogBites'
<1>1. PInv /\ [PortalNext]_portalVars => [Kept]_portalVars
  <2>1. SUFFICES ASSUME PInv, PortalNext, kept = TRUE, interval = TRUE,
                        ~WatchdogBites, WatchdogBites'
                 PROVE  FALSE
    <3>1. PInv => kept \in BOOLEAN /\ interval \in BOOLEAN
      BY TypesAre DEF PInv
    <3> QED BY <3>1
  <2>2. ~(UNCHANGED <<doing, by>>) /\ doing' = "end" /\ by' = "tick"
    BY <2>1 DEF WatchdogBites
  <2>3. ~(Load \/ Close \/ Click \/ IntervalFires)
    BY <2>2 DEF Load, Close, Click, IntervalFires, Others
  <2>4. ~\E m \in net : Deliver(m) \/ Serve(m) \/ ServeStats(m) \/ Lose(m)
    <3>1. ~\E m \in net : Deliver(m) \/ ServeStats(m) \/ Lose(m)
      BY <2>2 DEF Deliver, ServeStats, Lose, Others
    <3>2. ASSUME NEW m \in net, Serve(m)
          PROVE  FALSE
      <4>1. m.op \in Calls /\ Call(m.op) /\ m.op # "tick"
        BY <2>1, <3>2, NetIs DEF Serve, PInv, Calls, Ops
      <4>2. by' = m.op \/ (by' = by /\ doing' = doing)
        BY <2>1, <4>1, CallIs DEF PInv
      <4> QED BY <2>2, <4>1, <4>2
    <3> QED BY <3>1, <3>2
  <2>5. ~\E success \in BOOLEAN : DaemonEnds(success)
    BY <2>2 DEF DaemonEnds, Ends
  <2>6. CASE DaemonGoesOn
    <3>1. left = 0 /\ state = "STARTED"
      BY <2>1, <2>6, GoesOnIs DEF DaemonGoesOn, PInv, CallersOK
    <3>2. left >= UPDATE_TIME - 1
      BY <2>1, <3>1 DEF PInv, Fresh
    <3> QED BY <3>1, <3>2, ViewAssumption
  <2>7. CASE Tick
    <3>1. state \in {"STARTED", "EXHAUSTED"} /\ Dec(left) = 0
      BY <2>1, <2>2, <2>7, TicksAre DEF Tick
    <3>2. left = UPDATE_TIME
      BY <2>1, <2>7, <3>1, FreshAtTick DEF Tick
    <3> QED BY <3>1, <3>2, ViewAssumption DEF Dec
  <2> QED BY <2>1, <2>3, <2>4, <2>5, <2>6, <2>7 DEF PortalNext
<1> QED BY <1>1, PortalInvariant, PTL DEF PortalSpec, KeptAlive
=============================================================================
