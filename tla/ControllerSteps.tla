--------------------------- MODULE ControllerSteps ---------------------------
(***************************************************************************)
(* What the steps of Controller do to the records, the stack and the       *)
(* answers, stated once for the proofs that compare a state with the next  *)
(* one, and the first theorems about such steps.                           *)
(***************************************************************************)
EXTENDS ControllerProofs

\* The records that call op for ip hands over: one more, one less that had ended,
\* or one whose limits or update timer it set.
CallRecords(op, ip, S) ==
  \/ S = sessions
  \/ /\ ip \in IPs \ Records /\ op \in {"newSession", "startSession"}
     /\ S = [sessions EXCEPT ![ip] = initSession]
  \/ /\ ip \in Records /\ op = "deleteSession" /\ sessions[ip].state = "ENDED"
     /\ S = removeSession(sessions, ip)
  \/ /\ ip \in Records
     /\ \E s \in Session :
          /\ S = [sessions EXCEPT ![ip] = s]
          /\ s.state = sessions[ip].state /\ s.timeRemaining = sessions[ip].timeRemaining
          /\ s.quotaRemaining = sessions[ip].quotaRemaining \/ op \in Setters

\* The call waits for its script, or answers at once.
Suspends(op, ip) ==
  /\ ip \in IPs /\ sessions'[ip] # NoSession
  /\ frame = NoFrame /\ ~Busy
  /\ \E fn \in {"start", "pause", "end"} :
       /\ Wants(fn, sessions'[ip])
       /\ op = "startSession" => fn = "start"
       /\ frame' = NewFrame(fn, ip, op)
       /\ proc' = Script(fn, ip, sessions')
  /\ loop' = "exec" /\ code' = code
  /\ reply' = NoReply

Answers(op, ip) ==
  /\ frame' = Track(sessions')
  /\ UNCHANGED <<loop, code>>
  /\ \/ proc' = proc
     \/ ~Busy /\ loop # "idle" /\ proc'.name # "gw_clean_up"
  /\ \E ret \in {0, Failed} :
       /\ reply' = [op |-> op, ip |-> ip, ret |-> ret]
       /\ op = "startSession" /\ ret = 0 => ip \in Records /\ sessions'[ip].state = "STARTED"

-----------------------------------------------------------------------------
(* Calls *)

\* Nothing to track on the same records.
LEMMA TrackSame ==
  ASSUME IInv
  PROVE  Track(sessions) = frame
<1>1. frame \in Frames /\ frame.fresh \subseteq Records
  BY DEF IInv, TypeOK, FrameOK
<1>2. frame.freed \cup {ip \in Held : sessions[ip] # NoSession /\ sessions[ip] = NoSession}
        = frame.freed
  OBVIOUS
<1>3. {ip \in frame.fresh : sessions[ip] # NoSession}
        \cup {ip \in IPs : frame.freed # {} /\ sessions[ip] = NoSession /\ sessions[ip] # NoSession}
        = frame.fresh
  BY <1>1 DEF Records
<1>4. Track(sessions) = [frame EXCEPT !.freed = frame.freed, !.fresh = frame.fresh]
  BY <1>2, <1>3 DEF Track
<1> QED BY <1>1, <1>4 DEF Frames

LEMMA ScriptName ==
  ASSUME NEW fn, NEW ip, NEW S
  PROVE  Script(fn, ip, S).name \in {"gw_add_host", "gw_remove_host"}
BY DEF Script, add_host, remove_host, Command

LEMMA ReturnShape ==
  ASSUME NEW op \in Methods, NEW ip \in IPs \cup {NoIP}, NEW ret \in {0, Failed}, NEW S,
         op # "startSession", Return(op, ip, ret, S)
  PROVE  sessions' = S /\ Answers(op, ip)
BY DEF Return, Answer, Answers, runVars

LEMMA PerformShape ==
  ASSUME IInv, NEW op \in Methods, NEW ip \in IPs, NEW fn \in {"start", "pause", "end"},
         NEW S \in Maps, S[ip] # NoSession, op = "startSession" => fn = "start",
         S[ip].state = "STARTED" => ip \in Records, Perform(fn, ip, op, S)
  PROVE  sessions' = S /\ (Suspends(op, ip) \/ Answers(op, ip))
<1>1. "startSession" \notin Setters
  BY DEF Setters
<1>2. CASE ~Wants(fn, S[ip])
  <2>1. /\ sessions' = S /\ frame' = Track(S) /\ UNCHANGED <<proc, loop, code>>
        /\ reply' = [op |-> op, ip |-> ip,
                     ret |-> IF op \in Setters THEN 0 ELSE EarlyReturn(fn, S[ip])]
    BY <1>2 DEF Perform, Return, Answer, runVars
  <2>2. EarlyReturn(fn, S[ip]) \in {0, Failed}
    BY DEF EarlyReturn
  <2>3. fn = "start" /\ EarlyReturn(fn, S[ip]) = 0 => S[ip].state = "STARTED"
    BY DEF EarlyReturn, Failed
  <2> QED BY <1>1, <2>1, <2>2, <2>3 DEF Answers
<1>3. CASE Wants(fn, S[ip]) /\ frame = NoFrame /\ ~Busy
  BY <1>3 DEF Perform, ExecSuspends, Suspends
<1>4. CASE Wants(fn, S[ip]) /\ ~(frame = NoFrame /\ ~Busy)
  <2>1. /\ sessions' = S /\ frame' = Track(S) /\ UNCHANGED <<loop, code>>
        /\ proc' = proc \/ (~Busy /\ loop # "idle" /\ proc' = Script(fn, ip, S))
        /\ reply' = [op |-> op, ip |-> ip, ret |-> IF op \in Setters THEN 0 ELSE Failed]
    BY <1>4 DEF Perform, ExecRefused, Answer
  <2>2. Script(fn, ip, S).name # "gw_clean_up"
    BY ScriptName
  <2> QED BY <1>1, <2>1, <2>2 DEF Answers, Failed
<1> QED BY <1>2, <1>3, <1>4

LEMMA PauseAndPlayShape ==
  ASSUME IInv, NEW op \in Setters, NEW ip \in Records, NEW S \in Maps, S[ip] # NoSession,
         PauseAndPlay(op, ip, S)
  PROVE  sessions' = S /\ (Suspends(op, ip) \/ Answers(op, ip))
<1>1. op \in Methods /\ op # "startSession" /\ ip \in IPs
  BY DEF Setters, Methods, Records
<1>2. CASE S[ip].state = "STARTED"
  <2>1. Perform("pause", ip, op, S)
    BY <1>2 DEF PauseAndPlay
  <2> QED BY <1>1, <2>1, PerformShape
<1>3. CASE S[ip].state = "PAUSED"
  <2>1. Perform("start", ip, op, S)
    BY <1>3 DEF PauseAndPlay
  <2> QED BY <1>1, <2>1, PerformShape
<1>4. CASE S[ip].state \notin {"STARTED", "PAUSED"}
  <2>1. Return(op, ip, 0, S)
    BY <1>4 DEF PauseAndPlay
  <2> QED BY <1>1, <2>1, ReturnShape
<1> QED BY <1>2, <1>3, <1>4

\* A setter, or updateSession(), on a record that exists.
LEMMA SetRecords ==
  ASSUME IInv, NEW op \in Methods, NEW ip \in Records, NEW s \in Session,
         s.state = sessions[ip].state, s.timeRemaining = sessions[ip].timeRemaining,
         s.quotaRemaining = sessions[ip].quotaRemaining \/ op \in Setters
  PROVE  LET S == [sessions EXCEPT ![ip] = s] IN
           S \in Maps /\ S[ip] # NoSession /\ CallRecords(op, ip, S)
BY NoRecordAssumption DEF IInv, TypeOK, Maps, Records, CallRecords

LEMMA SetterShape ==
  ASSUME IInv, NEW op \in Setters, NEW ip \in IPs, NEW s,
         IF ip \in Records
         THEN /\ s \in Session
              /\ s.state = sessions[ip].state /\ s.timeRemaining = sessions[ip].timeRemaining
              /\ PauseAndPlay(op, ip, [sessions EXCEPT ![ip] = s])
         ELSE NoSuchRecord(op, ip)
  PROVE  sessions' \in Maps /\ CallRecords(op, ip, sessions')
         /\ (Suspends(op, ip) \/ Answers(op, ip))
<1>1. op \in Methods /\ op # "startSession"
  BY DEF Setters, Methods
<1>2. CASE ip \in Records
  <2> DEFINE S == [sessions EXCEPT ![ip] = s]
  <2>1. S \in Maps /\ S[ip] # NoSession /\ CallRecords(op, ip, S)
    BY <1>1, <1>2, SetRecords
  <2>2. PauseAndPlay(op, ip, S)
    BY <1>2
  <2> HIDE DEF S
  <2>3. sessions' = S /\ (Suspends(op, ip) \/ Answers(op, ip))
    BY <1>2, <2>1, <2>2, PauseAndPlayShape
  <2> QED BY <2>1, <2>3
<1>3. CASE ip \notin Records
  <2>1. /\ sessions' = sessions /\ frame' = frame /\ UNCHANGED <<proc, loop, code>>
        /\ reply' = [op |-> op, ip |-> ip, ret |-> Failed]
    BY <1>3 DEF NoSuchRecord, runVars
  <2> QED BY <1>1, <2>1, TrackSame, SameHarmless DEF IInv, CallRecords, Answers
<1> QED BY <1>2, <1>3
\* What a D-Bus call does before its script returns, from the main loop or nested.
CallDone ==
  /\ EventsDispatched
  /\ UNCHANGED <<daemon, signalled, rules>>
  /\ sessions' \in Maps
  /\ \E op \in Methods, ip \in IPs \cup {NoIP} :
       CallRecords(op, ip, sessions') /\ (Suspends(op, ip) \/ Answers(op, ip))

LEMMA RecordCallShape ==
  ASSUME IInv, NEW ip \in IPs,
         \/ newSession(ip) \/ startSession(ip) \/ pauseSession(ip) \/ playSession(ip)
         \/ endSession(ip) \/ deleteSession(ip) \/ updateSession(ip)
  PROVE  CallDone
<1>1. TypeOK /\ sessions \in Maps
  BY SameHarmless DEF IInv
<1>2. {"newSession", "startSession", "pauseSession", "playSession", "endSession",
       "deleteSession", "updateSession"} \subseteq Methods
  BY DEF Methods
<1>3. EventsDispatched /\ UNCHANGED <<daemon, signalled, rules>>
  BY DEF newSession, startSession, pauseSession, playSession, endSession, deleteSession,
     updateSession, Called
<1>4. SUFFICES \E op \in Methods : /\ sessions' \in Maps /\ CallRecords(op, ip, sessions')
                                   /\ Suspends(op, ip) \/ Answers(op, ip)
  BY <1>3 DEF CallDone
<1>5. Failed \in {0, Failed} /\ 0 \in {0, Failed}
  OBVIOUS
<1>6. WithRecord(ip) \in Maps /\ WithRecord(ip)[ip] # NoSession
      /\ (ip \notin Records => WithRecord(ip) = [sessions EXCEPT ![ip] = initSession])
      /\ (ip \in Records => WithRecord(ip) = sessions)
  BY <1>1, WithRecordHarmless DEF WithRecord, Records
<1>7. \A op : CallRecords(op, ip, sessions)
  BY DEF CallRecords
<1>8. CASE newSession(ip)
  <2>1. Return("newSession", ip, 0, WithRecord(ip))
    BY <1>8 DEF newSession
  <2>2. sessions' = WithRecord(ip) /\ Answers("newSession", ip)
    BY <1>2, <1>5, <2>1, ReturnShape
  <2> QED BY <1>2, <1>6, <1>7, <2>2 DEF CallRecords
<1>9. CASE startSession(ip)
  <2>1. Perform("start", ip, "startSession", WithRecord(ip))
    BY <1>9 DEF startSession
  <2>2. WithRecord(ip)[ip].state = "STARTED" => ip \in Records
    BY <1>1, <1>6 DEF initSession, Maps
  <2>3. sessions' = WithRecord(ip) /\ (Suspends("startSession", ip) \/ Answers("startSession", ip))
    BY <1>2, <1>6, <2>1, <2>2, PerformShape
  <2> QED BY <1>2, <1>6, <1>7, <2>3 DEF CallRecords
<1>10. ASSUME NEW op \in Methods, op # "startSession", NEW fn \in {"start", "pause", "end"},
              Perform(fn, ip, op, sessions), ip \in Records
       PROVE  sessions' \in Maps /\ CallRecords(op, ip, sessions')
              /\ (Suspends(op, ip) \/ Answers(op, ip))
  BY <1>1, <1>7, <1>10, PerformShape DEF Records
<1>11. ASSUME NEW op \in Methods, op # "startSession", NEW ret \in {0, Failed},
              Return(op, ip, ret, sessions)
       PROVE  sessions' \in Maps /\ CallRecords(op, ip, sessions') /\ Answers(op, ip)
  BY <1>1, <1>7, <1>11, ReturnShape
<1>12. CASE pauseSession(ip)
  BY <1>2, <1>5, <1>10, <1>11, <1>12 DEF pauseSession
<1>13. CASE playSession(ip)
  BY <1>2, <1>5, <1>10, <1>11, <1>13 DEF playSession
<1>14. CASE endSession(ip)
  BY <1>2, <1>5, <1>10, <1>11, <1>14 DEF endSession
<1>15. CASE deleteSession(ip)
  <2>1. CASE ip \in Records /\ sessions[ip].state = "ENDED"
    <3>1. Return("deleteSession", ip, 0, removeSession(sessions, ip))
      BY <1>15, <2>1 DEF deleteSession
    <3>2. sessions' = removeSession(sessions, ip) /\ Answers("deleteSession", ip)
      BY <1>2, <1>5, <3>1, ReturnShape
    <3> QED BY <1>1, <1>2, <2>1, <3>2, RemovedHarmless DEF CallRecords
  <2>2. CASE ip \in Records /\ sessions[ip].state # "ENDED"
    BY <1>2, <1>10, <1>15, <2>2 DEF deleteSession
  <2>3. CASE ip \notin Records
    BY <1>2, <1>5, <1>11, <1>15, <2>3 DEF deleteSession
  <2> QED BY <2>1, <2>2, <2>3
<1>16. CASE updateSession(ip)
  <2>1. CASE ip \in Records
    <3> DEFINE s == [sessions[ip] EXCEPT !.updateTimeRemaining = UPDATE_TIME]
               S == [sessions EXCEPT ![ip] = s]
    <3>1. s \in Session /\ s.state = sessions[ip].state
          /\ s.timeRemaining = sessions[ip].timeRemaining
          /\ s.quotaRemaining = sessions[ip].quotaRemaining
      BY <1>1, <2>1, TimersAssumption DEF TypeOK, Session, Records
    <3>2. Return("updateSession", ip, 0, S)
      BY <1>16, <2>1 DEF updateSession
    <3>3. S \in Maps /\ CallRecords("updateSession", ip, S)
      BY <1>2, <2>1, <3>1, SetRecords
    <3> HIDE DEF S
    <3>4. sessions' = S /\ Answers("updateSession", ip)
      BY <1>2, <1>5, <3>2, ReturnShape
    <3> QED BY <1>2, <3>3, <3>4
  <2>2. CASE ip \notin Records
    BY <1>2, <1>5, <1>11, <1>16, <2>2 DEF updateSession
  <2> QED BY <2>1, <2>2
<1> QED BY <1>8, <1>9, <1>12, <1>13, <1>14, <1>15, <1>16

LEMMA CallShape ==
  ASSUME IInv, Call
  PROVE  CallDone
<1>1. TypeOK /\ sessions \in Maps
  BY SameHarmless DEF IInv
<1>2. Setters \subseteq Methods
  BY DEF Setters, Methods
<1>3. \A op : Called(op) => EventsDispatched /\ UNCHANGED <<daemon, signalled, rules>>
  BY DEF Called
<1>4. ASSUME NEW ip \in Records
      PROVE  /\ sessions[ip] \in Session
             /\ \A bw \in Bandwidths :
                  LET s == [sessions[ip] EXCEPT !.bandwidth = bw] IN
                    s \in Session /\ s.state = sessions[ip].state
                      /\ s.timeRemaining = sessions[ip].timeRemaining
             /\ \A q \in Quotas :
                  LET s == [sessions[ip] EXCEPT !.quotaRemaining = q] IN
                    s \in Session /\ s.state = sessions[ip].state
                      /\ s.timeRemaining = sessions[ip].timeRemaining
  BY <1>1 DEF TypeOK, Records, Session
<1>5. ASSUME NEW ip \in IPs, NEW bw \in Bandwidths, setBandwidth(ip, bw)
      PROVE  CallDone
  <2> DEFINE s == [sessions[ip] EXCEPT !.bandwidth = bw]
  <2>1. IF ip \in Records THEN PauseAndPlay("setBandwidth", ip, [sessions EXCEPT ![ip] = s])
        ELSE NoSuchRecord("setBandwidth", ip)
    BY <1>5 DEF setBandwidth
  <2>2. "setBandwidth" \in Setters /\ Called("setBandwidth")
    BY <1>5 DEF Setters, setBandwidth
  <2> QED BY <1>2, <1>3, <1>4, <2>1, <2>2, SetterShape DEF CallDone
<1>6. ASSUME NEW ip \in IPs, NEW q \in Quotas, NEW op \in {"setQuota", "setTime"}, Called(op),
             IF ip \in Records
             THEN PauseAndPlay(op, ip, [sessions EXCEPT ![ip].quotaRemaining = q])
             ELSE NoSuchRecord(op, ip)
      PROVE  CallDone
  <2> DEFINE s == [sessions[ip] EXCEPT !.quotaRemaining = q]
  <2>1. IF ip \in Records THEN PauseAndPlay(op, ip, [sessions EXCEPT ![ip] = s])
        ELSE NoSuchRecord(op, ip)
    BY <1>6
  <2>2. op \in Setters
    BY DEF Setters
  <2> QED BY <1>2, <1>3, <1>4, <1>6, <2>1, <2>2, SetterShape DEF CallDone
<1>7. ASSUME NEW op \in Methods \ (Setters \cup {"startSession"}), NEW d, SetDefaults(op, d)
      PROVE  CallDone
  <2>1. Return(op, NoIP, 0, sessions) /\ Called(op)
    BY <1>7 DEF SetDefaults
  <2>2. sessions' = sessions /\ Answers(op, NoIP)
    BY <2>1, ReturnShape
  <2> QED BY <1>1, <1>3, <2>1, <2>2 DEF CallDone, CallRecords
<1>8. {"setDefaultBandWidth", "setDefaultQuota", "setDefaultTime", "setDefaultSession"}
        \subseteq Methods \ (Setters \cup {"startSession"})
  BY DEF Methods, Setters
<1>9. ASSUME NEW ip \in IPs, \/ \E q \in Quotas : setQuota(ip, q)
                             \/ \E t \in Times \cap Quotas : setTime(ip, t)
      PROVE  CallDone
  BY <1>6, <1>9 DEF setQuota, setTime
<1>10. ASSUME \/ \E bw \in Bandwidths : setDefaultBandWidth(bw)
              \/ \E q \in Quotas : setDefaultQuota(q)
              \/ \E t \in Times : setDefaultTime(t)
              \/ \E d \in Defaults : setDefaultSession(d)
       PROVE  CallDone
  BY <1>7, <1>8, <1>10
     DEF setDefaultBandWidth, setDefaultQuota, setDefaultTime, setDefaultSession
<1> QED BY <1>5, <1>9, <1>10, RecordCallShape DEF Call
-----------------------------------------------------------------------------
(* The daemon's life and the stack *)

\* What the stack may hold in each phase of the daemon, and which function a call
\* of startSession() waits for.
LifeOK ==
  /\ frame.fn = "init" <=> daemon = "starting"
  /\ frame.fn = "cleanup" => daemon \in {"quitting", "exiting", "failing"}
  /\ frame.fn \in {"none", "tick"} => frame.ip = NoIP
  /\ daemon = "down" => frame = NoFrame
  /\ daemon \in {"down", "starting"} => sessions = NoSessions
  /\ daemon = "starting" /\ Busy => proc.name = "gw_init"
  /\ frame.caller = "startSession" => frame.fn = "start"

LInv == IInv /\ LifeOK

\* The fields of a frame that was tracked, and of those that a step makes.
LEMMA TrackFields ==
  ASSUME IInv, NEW S
  PROVE  /\ Track(S).fn = frame.fn /\ Track(S).ip = frame.ip
         /\ Track(S).caller = frame.caller /\ Track(S).todo = frame.todo
         /\ Track(S).freed =
              frame.freed \cup {ip \in Held : sessions[ip] # NoSession /\ S[ip] = NoSession}
BY DEF IInv, TypeOK, Frames, Track

LEMMA NewFrameFields ==
  ASSUME NEW fn, NEW ip, NEW caller
  PROVE  /\ NewFrame(fn, ip, caller).fn = fn /\ NewFrame(fn, ip, caller).ip = ip
         /\ NewFrame(fn, ip, caller).caller = caller
         /\ NewFrame(fn, ip, caller).todo = {} /\ NewFrame(fn, ip, caller).freed = {}
         /\ NewFrame(fn, ip, caller).fresh = {}
BY DEF NewFrame

LEMMA NoFrameFields ==
  NoFrame.fn = "none" /\ NoFrame.ip = NoIP /\ NoFrame.caller = "none" /\ NoFrame.freed = {}
BY NewFrameFields DEF NoFrame

LEMMA TickFields ==
  ASSUME NEW R
  PROVE  LET f == [NewFrame("tick", NoIP, "tick") EXCEPT !.todo = R] IN
           f.fn = "tick" /\ f.ip = NoIP /\ f.caller = "tick" /\ f.freed = {}
BY DEF NewFrame

\* A step that leaves the daemon as it is while events are dispatched.
LEMMA DispatchedLife ==
  ASSUME LInv, EventsDispatched, daemon' = daemon,
         \/ frame'.fn = frame.fn /\ frame'.ip = frame.ip /\ frame'.caller = frame.caller
         \/ /\ frame'.fn \in ScriptFns
            /\ frame'.caller = "startSession" => frame'.fn = "start"
  PROVE  LifeOK'
BY DEF LInv, LifeOK, EventsDispatched, ScriptFns

LEMMA CallLife ==
  ASSUME LInv, Call
  PROVE  LifeOK'
<1>1. IInv /\ EventsDispatched /\ daemon' = daemon
      /\ \E op, ip : Suspends(op, ip) \/ Answers(op, ip)
  BY CallShape DEF LInv, CallDone
<1>2. PICK op, ip : Suspends(op, ip) \/ Answers(op, ip)
  BY <1>1
<1>3. CASE Suspends(op, ip)
  <2>1. frame'.fn \in ScriptFns /\ (frame'.caller = "startSession" => frame'.fn = "start")
    BY <1>3, NewFrameFields DEF Suspends, ScriptFns
  <2> QED BY <1>1, <2>1, DispatchedLife
<1>4. CASE Answers(op, ip)
  BY <1>1, <1>4, TrackFields, DispatchedLife DEF Answers
<1> QED BY <1>2, <1>3, <1>4

LEMMA TickLife ==
  ASSUME LInv, tick \/ NestedTick \/ TickStep
  PROVE  LifeOK'
<1>1. daemon' = daemon /\ IInv
  BY DEF tick, NestedTick, TickStep, TickVisit, TickStale, TickDone, LInv
<1>2. CASE tick
  BY <1>1, <1>2, TickFields DEF tick, LInv, LifeOK
<1>3. CASE NestedTick
  BY <1>1, <1>3, TrackFields, DispatchedLife DEF NestedTick
<1>4. CASE TickStep
  <2>1. daemon \notin {"down", "starting"} /\ frame.caller = "tick" /\ frame \in Frames
        /\ frame.fn = "tick"
    BY <1>4, NoFrameFields DEF TickStep, TickVisit, TickStale, TickDone, LInv, LifeOK,
       IInv, FrameOK, TypeOK
  <2>2. CASE TickDone
    BY <1>1, <2>1, <2>2, NoFrameFields DEF TickDone, LifeOK
  <2>3. ASSUME NEW ip \in IPs, TickVisit(ip) \/ TickStale(ip)
        PROVE  LifeOK'
    <3>1. \/ frame' = [frame EXCEPT !.todo = @ \ {ip}]
          \/ \E fn \in ScriptFns : frame' = [frame EXCEPT !.fn = fn, !.ip = ip, !.todo = @ \ {ip}]
          \/ \E F : frame' = [frame EXCEPT !.todo = @ \ {ip}, !.fresh = F]
      BY <2>3, TickCallFits DEF TickVisit, TickStale, ScriptFns
    <3>2. /\ frame'.caller = "tick"
          /\ (frame'.fn = "tick" /\ frame'.ip = frame.ip) \/ frame'.fn \in ScriptFns
      BY <2>1, <3>1 DEF Frames
    <3> QED BY <1>1, <2>1, <3>2 DEF LInv, LifeOK, ScriptFns
  <2> QED BY <1>4, <2>2, <2>3 DEF TickStep
<1> QED BY <1>2, <1>3, <1>4

\* A handler that returns or goes on.
LEMMA HandsFields ==
  ASSUME IInv, frame.fn \in ScriptFns, NEW ret, Hands(ret)
  PROVE  \/ /\ frame.caller = "tick"
            /\ frame'.fn = "tick" /\ frame'.ip = NoIP /\ frame'.caller = "tick"
            /\ frame'.freed = frame.freed /\ reply' = NoReply
         \/ frame.caller # "tick" /\ frame' = NoFrame /\ Answer(frame.caller, frame.ip, ret)
BY DEF IInv, TypeOK, Frames, Hands

LEMMA GoesOnFields ==
  ASSUME IInv, NEW fn \in ScriptFns, NEW S, GoesOn(fn, S), ~quitNow
  PROVE  /\ frame'.fn = fn /\ frame'.ip = frame.ip /\ frame'.caller = frame.caller
         /\ frame'.freed = frame.freed /\ reply' = NoReply
         /\ proc' = Script(fn, frame.ip, S) /\ loop' = "exec"
BY DEF IInv, TypeOK, Frames, GoesOn, ExecReturnsInto

\* The handler that resumes: its function, what it does to its record, and whether it
\* returns or goes on.
LEMMA ResumeShape ==
  ASSUME IInv, ResumeStart \/ ResumePause \/ ResumeEnd \/ ResumeExhaust
  PROVE  /\ frame.fn \in ScriptFns /\ loop = "exited"
         /\ UNCHANGED <<daemon, defaults, signalled, rules>>
         /\ \/ Returns(code)
            \/ quitNow /\ Hands(Failed)
            \/ ~quitNow /\ frame.fn = "pause" /\ frame.caller \in Setters /\ code = 0 /\ ~Busy
               /\ GoesOn("start", sessions)
            \/ ~quitNow /\ frame.fn = "exhaust" /\ ~Busy /\ GoesOn("end", sessions)
BY DEF ResumeStart, ResumePause, ResumeEnd, ResumeExhaust, Resumes, ScriptFns, GoesOn

LEMMA ResumeLife ==
  ASSUME LInv, Resume
  PROVE  LifeOK'
<1>1. CASE ResumeInit
  <2>1. /\ daemon = "starting" /\ daemon' \in {"up", "down", "failing"} /\ frame' = NoFrame
        /\ sessions' = sessions
    BY <1>1 DEF ResumeInit, Resumes, LInv, LifeOK
  <2> QED BY <2>1, NoFrameFields DEF LInv, LifeOK
<1>2. CASE ResumeCleanup
  <2>1. daemon' \in {"exiting", "dying"} /\ frame' = NoFrame
    BY <1>2 DEF ResumeCleanup, CleanedUp
  <2> QED BY <2>1, NoFrameFields DEF LifeOK
<1>3. CASE ResumeStart \/ ResumePause \/ ResumeEnd \/ ResumeExhaust
  <2>1. IInv /\ frame.fn \in ScriptFns /\ daemon' = daemon
    BY <1>3, ResumeShape DEF LInv
  <2>2. daemon \notin {"down", "starting"}
    BY <2>1, NoFrameFields DEF LInv, LifeOK, ScriptFns
  <2>3. \/ frame'.fn \in {"none", "tick"} /\ frame'.ip = NoIP /\ frame'.caller # "startSession"
        \/ /\ frame'.fn \in {"start", "end"}
           /\ frame'.caller = frame.caller /\ frame.fn \in {"pause", "exhaust"}
    BY <1>3, <2>1, ResumeShape, HandsFields, GoesOnFields, NoFrameFields DEF Returns, ScriptFns
  <2> QED BY <2>1, <2>2, <2>3 DEF LInv, LifeOK
<1> QED BY <1>1, <1>2, <1>3 DEF Resume

LEMMA DaemonLife ==
  ASSUME LInv,
         \/ ScriptEffect \/ ScriptExits \/ ScriptFails
         \/ Boot \/ Quit \/ cleanup \/ Exit \/ SecondSignal \/ Crash
  PROVE  LifeOK'
<1>1. CASE ScriptEffect \/ ScriptExits \/ ScriptFails
  <2>1. UNCHANGED <<sessions, frame, daemon>> /\ Busy
    BY <1>1 DEF ScriptEffect, ScriptExits, ScriptFails
  <2>2. proc' # NoCmd => proc'.name = proc.name
    <3>1. proc \in Commands
      BY <2>1 DEF LInv, IInv, TypeOK, Busy
    <3>2. proc' = [proc EXCEPT !.stage = "applied"] \/ proc' = NoCmd
      BY <1>1 DEF ScriptEffect, ScriptExits, ScriptFails, finishedInternalExec
    <3> QED BY <3>1, <3>2 DEF Commands
  <2> QED BY <2>1, <2>2 DEF LInv, LifeOK, Busy
<1>2. CASE Boot
  <2>1. /\ daemon = "down" /\ daemon' = "starting" /\ frame' = NewFrame("init", NoIP, "init")
        /\ proc' = init /\ sessions' = sessions
    BY <1>2 DEF Boot, ExecSuspends
  <2>2. proc'.name = "gw_init"
    BY <2>1 DEF init, Command
  <2> QED BY <2>1, <2>2, NewFrameFields DEF LInv, LifeOK
<1>3. CASE Quit
  <2>1. UNCHANGED <<sessions, frame, proc>>
    BY <1>3 DEF Quit, ExecQuits, runVars
  <2>2. daemon # "down"
    BY <1>3 DEF Quit
  <2>3. daemon' = daemon \/ (daemon = "up" /\ daemon' = "quitting")
    BY <1>3 DEF Quit
  <2> QED BY <2>1, <2>2, <2>3 DEF LInv, LifeOK, Busy
<1>4. CASE cleanup
  <2>1. /\ daemon \in {"quitting", "exiting", "failing"}
        /\ \/ frame' = NewFrame("cleanup", NoIP, "cleanup") /\ daemon' = daemon
           \/ frame' = NoFrame /\ daemon' \in {"exiting", "dying"}
    BY <1>4 DEF cleanup, CleanedUp
  <2> QED BY <2>1, NewFrameFields, NoFrameFields DEF LifeOK
<1>5. CASE Exit \/ SecondSignal \/ Crash
  <2>1. daemon' = "down" /\ frame' = NoFrame /\ sessions' = NoSessions
    BY <1>5 DEF Exit, SecondSignal, Crash, Gone
  <2> QED BY <2>1, NoFrameFields DEF LifeOK
<1> QED BY <1>1, <1>2, <1>3, <1>4, <1>5

LEMMA LifeStep == LInv /\ [Next]_vars => LInv'
<1> SUFFICES ASSUME LInv, [Next]_vars
             PROVE  LifeOK'
  BY NextInv DEF LInv
<1>1. CASE \E ip \in IPs : updateQuotaRemaining(ip)
  BY <1>1, DispatchedLife DEF updateQuotaRemaining
<1>2. CASE UNCHANGED vars
  BY <1>2 DEF vars, LInv, LifeOK, Busy
<1> QED BY <1>1, <1>2, CallLife, TickLife, ResumeLife, DaemonLife DEF Next

LEMMA LifeOKHolds == Spec => []LInv
<1>1. Init => LInv
  BY InitInv, NoFrameFields DEF Init, LInv, LifeOK
<1> QED BY <1>1, LifeStep, PTL DEF Spec
-----------------------------------------------------------------------------
(* Answers and stale pointers *)

\* A new record is a record.
LEMMA InitRecord ==
  ASSUME TypeOK
  PROVE  initSession \in Session /\ initSession # NoSession
BY TimersAssumption, NoRecordAssumption
   DEF TypeOK, Defaults, initSession, Session, States, Quotas, Times

\* The call after which a record is missing.
LEMMA CallRemoves ==
  ASSUME IInv, NEW op, NEW h, NEW S, CallRecords(op, h, S), NEW ip \in Records, S[ip] = NoSession
  PROVE  op = "deleteSession" /\ h = ip /\ sessions[h].state = "ENDED"
<1>1. TypeOK /\ sessions \in Maps /\ ip \in IPs /\ sessions[ip] # NoSession
  BY DEF IInv, TypeOK, Maps, Records
<1>2. S # sessions /\ (\A s \in Session : S # [sessions EXCEPT ![h] = s])
  BY <1>1, NoRecordAssumption DEF Maps
<1>3. S # [sessions EXCEPT ![h] = initSession]
  BY <1>1, <1>2, InitRecord
<1>4. op = "deleteSession" /\ sessions[h].state = "ENDED" /\ S = removeSession(sessions, h)
  BY <1>2, <1>3 DEF CallRecords
<1> QED BY <1>1, <1>4 DEF removeSession, Maps

\* A step that answers no call of startSession().
LEMMA NoStartAnswer ==
  ASSUME reply' = NoReply, NEW ip
  PROVE  reply' # [op |-> "startSession", ip |-> ip, ret |-> 0]
BY DEF NoReply

\* controller.cpp:84-87, startSession(), "@return 0 on success": whatever handlers,
\* ticks and signals come between, a 0 means that the record is started, unless it was
\* deleted while the script ran.
THEOREM StartAnswersTruly == Spec => StartAnswerTrue
<1> DEFINE Truly == \A ip \in IPs : reply' = [op |-> "startSession", ip |-> ip, ret |-> 0] =>
              \/ sessions'[ip] # NoSession /\ sessions'[ip].state = "STARTED"
              \/ ip \in frame.freed
<1>1. LInv /\ LInv' /\ [Next]_vars => [Truly]_vars
  <2> SUFFICES ASSUME LInv, LInv', Next, NEW ip \in IPs,
                      reply' = [op |-> "startSession", ip |-> ip, ret |-> 0],
                      ip \notin frame.freed
               PROVE  sessions'[ip] # NoSession /\ sessions'[ip].state = "STARTED"
    OBVIOUS
  <2>1. reply' # NoReply /\ reply'.op = "startSession" /\ reply'.ip = ip /\ reply'.ret = 0
    BY NoStartAnswer
  <2>2. CASE Call
    <3>1. PICK op \in Methods, h \in IPs \cup {NoIP} :
            CallRecords(op, h, sessions') /\ (Suspends(op, h) \/ Answers(op, h))
      BY <2>2, CallShape DEF LInv, CallDone
    <3>2. Answers(op, h)
      BY <2>1, <3>1 DEF Suspends
    <3>3. op = "startSession" /\ h = ip /\ ip \in Records /\ sessions'[ip].state = "STARTED"
      BY <2>1, <3>2 DEF Answers
    <3> QED BY <3>1, <3>3, CallRemoves DEF LInv
  <2>3. CASE ResumeStart \/ ResumePause \/ ResumeEnd \/ ResumeExhaust
    <3>1. /\ frame.fn \in ScriptFns /\ frame.caller # "tick"
          /\ \E ret \in {code, Failed} : Answer(frame.caller, frame.ip, ret)
      BY <2>1, <2>3, ResumeShape, HandsFields, GoesOnFields DEF Returns, LInv, ScriptFns
    <3>2. frame.caller = "startSession" /\ frame.ip = ip
          /\ \E ret \in {code, Failed} : (IF frame.caller \in Setters THEN 0 ELSE ret) = 0
      BY <2>1, <3>1 DEF Answer
    <3>3. frame.fn = "start" /\ code = 0
      BY <3>2 DEF LInv, LifeOK, Setters, Failed
    <3>4. sessions' = Resumed("start")
      BY <2>3, <3>2, <3>3 DEF ResumeStart, ResumePause, ResumeEnd, ResumeExhaust, Resumes
    <3>5. ip \in Records /\ sessions[ip] \in Session
      BY <3>2, <3>3 DEF LInv, IInv, SuspendedStateHeld, TypeOK, Records
    <3>6. sessions'[ip] = Entered("start", sessions[ip])
      BY <3>2, <3>3, <3>4, <3>5, ResumedRecords DEF LInv, IInv, ScriptFns
    <3> QED BY <3>5, <3>6, EnteredRecord, NoRecordAssumption DEF ScriptFns
  <2>4. CASE ~(Call \/ ResumeStart \/ ResumePause \/ ResumeEnd \/ ResumeExhaust)
    BY <2>1, <2>4 DEF Next, updateQuotaRemaining, tick, NestedTick, TickStep, TickVisit, TickStale,
       TickDone, Resume, ResumeInit, ResumeCleanup, ScriptEffect, ScriptExits, ScriptFails, Boot,
       Quit, cleanup, Exit, SecondSignal, Crash, Gone
  <2> QED BY <2>2, <2>3, <2>4
<1> QED BY <1>1, LifeOKHolds, PTL DEF Spec, StartAnswerTrue

\* A pointer that a suspended tick has yet to follow goes stale only by the
\* deleteSession() of a client whose session has ended.
THEOREM StalePointers == Spec => StaleOnlyByDelete
<1> DEFINE Deleted == frame.caller = "tick" /\ frame'.freed # frame.freed /\ frame' # NoFrame =>
              reply'.op = "deleteSession" /\ sessions[reply'.ip].state = "ENDED"
<1>1. LInv /\ [Next]_vars => [Deleted]_vars
  <2> SUFFICES ASSUME LInv, Next, frame.caller = "tick", frame'.freed # frame.freed,
                      frame' # NoFrame
               PROVE  reply'.op = "deleteSession" /\ sessions[reply'.ip].state = "ENDED"
    OBVIOUS
  <2>1. frame # NoFrame /\ daemon # "down" /\ frame \in Frames
    BY NoFrameFields DEF LInv, LifeOK, IInv, TypeOK
  <2>2. CASE Call
    <3>1. PICK op \in Methods, h \in IPs \cup {NoIP} :
            CallRecords(op, h, sessions') /\ (Suspends(op, h) \/ Answers(op, h))
      BY <2>2, CallShape DEF LInv, CallDone
    <3>2. Answers(op, h)
      BY <2>1, <3>1 DEF Suspends
    <3>3. PICK ip \in IPs : sessions[ip] # NoSession /\ sessions'[ip] = NoSession
      BY <3>2, TrackFields DEF LInv, Answers, Held
    <3>4. op = "deleteSession" /\ sessions[h].state = "ENDED"
      BY <3>1, <3>3, CallRemoves DEF LInv, Records
    <3> QED BY <3>2, <3>4 DEF Answers
  <2>3. CASE Resume
    <3>1. CASE ResumeInit \/ ResumeCleanup
      BY <3>1 DEF ResumeInit, ResumeCleanup, CleanedUp
    <3>2. CASE ResumeStart \/ ResumePause \/ ResumeEnd \/ ResumeExhaust
      BY <3>2, ResumeShape, HandsFields, GoesOnFields DEF Returns, LInv, ScriptFns
    <3> QED BY <2>3, <3>1, <3>2 DEF Resume
  <2>4. CASE TickStep
    <3>1. ASSUME NEW ip \in IPs, TickVisit(ip) \/ TickStale(ip)
          PROVE  frame'.freed = frame.freed
      <4>1. \/ frame' = [frame EXCEPT !.todo = @ \ {ip}]
            \/ \E fn : frame' = [frame EXCEPT !.fn = fn, !.ip = ip, !.todo = @ \ {ip}]
            \/ \E F : frame' = [frame EXCEPT !.todo = @ \ {ip}, !.fresh = F]
        BY <3>1 DEF TickVisit, TickStale
      <4> QED BY <2>1, <4>1 DEF Frames
    <3> QED BY <2>4, <3>1 DEF TickStep, TickDone
  <2>5. CASE ~(Call \/ Resume \/ TickStep)
    BY <2>1, <2>5 DEF Next, updateQuotaRemaining, tick, NestedTick, ScriptEffect, ScriptExits,
       ScriptFails, Boot, Quit, cleanup, Exit, SecondSignal, Crash, Gone
  <2> QED BY <2>2, <2>3, <2>4, <2>5
<1> QED BY <1>1, LifeOKHolds, PTL DEF Spec, StaleOnlyByDelete
-----------------------------------------------------------------------------
(* Time and quota *)

\* From record s to t no time and no quota came back.
Spends(s, t) ==
  /\ t.timeRemaining \in {s.timeRemaining, Dec(s.timeRemaining)}
  /\ t.quotaRemaining \in {s.quotaRemaining, Dec(s.quotaRemaining)}

LEMMA TickedSpends ==
  ASSUME NEW s \in Session
  PROVE  Spends(s, Ticked(s)) /\ Ticked(s).quotaRemaining = s.quotaRemaining
BY DEF Session, Ticked, Spends

LEMMA EnteredSpends ==
  ASSUME NEW s \in Session, NEW fn \in ScriptFns
  PROVE  Spends(s, Entered(fn, s))
<1>1. CASE fn = "start"
  BY <1>1 DEF Session, Entered, Spends
<1>2. CASE fn = "pause"
  BY <1>2 DEF Session, Entered, Spends
<1>3. CASE fn = "end"
  BY <1>3 DEF Session, Entered, Spends
<1>4. CASE fn = "exhaust"
  BY <1>4 DEF Session, Entered, Spends
<1> QED BY <1>1, <1>2, <1>3, <1>4 DEF ScriptFns

\* A handler that resumes spends neither.
LEMMA ResumeSpends ==
  ASSUME IInv, ResumeStart \/ ResumePause \/ ResumeEnd \/ ResumeExhaust,
         NEW ip \in Records, sessions'[ip] # NoSession
  PROVE  Spends(sessions[ip], sessions'[ip])
<1>1. TypeOK /\ frame.ip \in IPs
  BY ResumeShape DEF IInv, FrameOK
<1>2. /\ \A h \in Records : sessions[h] \in Session /\ Spends(sessions[h], sessions[h])
      /\ \A h \in Records, fn \in ScriptFns : Spends(sessions[h], Entered(fn, sessions[h]))
  BY <1>1, EnteredSpends DEF TypeOK, Records, Spends
<1>3. PICK h \in IPs, fn \in ScriptFns :
        \/ sessions' = sessions
        \/ sessions' = [sessions EXCEPT ![h] = Entered(fn, @)]
        \/ sessions' = [sessions EXCEPT ![h] = NoSession]
  <2>1. CASE ResumeStart
    <3>1. frame.fresh \subseteq IPs /\ "start" \in ScriptFns
      BY <1>1 DEF TypeOK, Frames, ScriptFns
    <3> QED BY <1>1, <2>1, <3>1 DEF ResumeStart, Resumed
  <2>2. CASE ResumePause
    BY <1>1, <2>2 DEF ResumePause, Resumed, ScriptFns
  <2>3. CASE ResumeEnd
    BY <1>1, <2>3 DEF ResumeEnd, Resumed, removeSession, ScriptFns
  <2>4. CASE ResumeExhaust
    BY <1>1, <2>4 DEF ResumeExhaust, Resumed, ScriptFns
  <2> QED BY <2>1, <2>2, <2>3, <2>4
<1>4. sessions'[ip] \in {sessions[ip], Entered(fn, sessions[ip])}
  BY <1>1, <1>3 DEF TypeOK, Records
<1> QED BY <1>2, <1>4

\* Time and quota that were spent do not come back while the record lives: whatever
\* pauses, ends, restarts, ticks and failures follow each other, a setter alone refunds.
THEOREM NothingRefunded == Spec => SpentNotRefunded
<1> DEFINE Spent == \A ip \in Records : sessions'[ip] # NoSession =>
              LET s == sessions[ip]  t == sessions'[ip] IN
              /\ t.timeRemaining \in {s.timeRemaining, Dec(s.timeRemaining)}
              /\ \/ t.quotaRemaining \in {s.quotaRemaining, Dec(s.quotaRemaining)}
                 \/ reply'.op \in Setters \/ frame'.caller \in Setters
<1>1. LInv /\ [Next]_vars => [Spent]_vars
  <2> SUFFICES ASSUME LInv, Next, NEW ip \in Records, sessions'[ip] # NoSession
               PROVE  \/ Spends(sessions[ip], sessions'[ip])
                      \/ /\ sessions'[ip].timeRemaining = sessions[ip].timeRemaining
                         /\ reply'.op \in Setters \/ frame'.caller \in Setters
    BY DEF Spends
  <2>1. IInv /\ TypeOK /\ ip \in IPs /\ sessions[ip] \in Session /\ sessions \in Maps
    BY DEF LInv, IInv, TypeOK, Records, Maps
  <2>2. Spends(sessions[ip], sessions[ip])
    BY DEF Spends
  <2>3. CASE Call
    <3>1. PICK op \in Methods, h \in IPs \cup {NoIP} :
            CallRecords(op, h, sessions') /\ (Suspends(op, h) \/ Answers(op, h))
      BY <2>1, <2>3, CallShape DEF CallDone
    <3>2. op \in Setters => reply'.op \in Setters \/ frame'.caller \in Setters
      BY <3>1, NewFrameFields DEF Suspends, Answers
    <3>3. \/ sessions'[ip] = sessions[ip]
          \/ /\ sessions'[ip].timeRemaining = sessions[ip].timeRemaining
             /\ sessions'[ip].quotaRemaining = sessions[ip].quotaRemaining \/ op \in Setters
      BY <2>1, <3>1 DEF CallRecords, removeSession, Maps, Records
    <3> QED BY <2>2, <3>2, <3>3 DEF Spends
  <2>4. CASE \E h \in IPs : updateQuotaRemaining(h)
    <3>1. PICK h \in IPs : sessions' = [sessions EXCEPT ![h].quotaRemaining = Dec(@)]
      BY <2>4 DEF updateQuotaRemaining
    <3>2. sessions'[ip] \in {sessions[ip],
                             [sessions[ip] EXCEPT !.quotaRemaining = Dec(sessions[ip].quotaRemaining)]}
      BY <2>1, <3>1 DEF Maps
    <3> QED BY <2>1, <3>2 DEF Spends, Session
  <2>5. CASE NestedTick \/ \E h \in IPs : TickVisit(h)
    <3>1. sessions'[ip] \in {sessions[ip], Ticked(sessions[ip])}
      <4>1. Visited(sessions, ip) \in {NoSession, Ticked(sessions[ip])}
        BY DEF Visited
      <4>2. sessions'[ip] \in {sessions[ip], Visited(sessions, ip)}
        BY <2>1, <2>5 DEF NestedTick, TickVisit, Maps
      <4> QED BY <4>1, <4>2
    <3> QED BY <2>1, <2>2, <3>1, TickedSpends
  <2>6. CASE Resume
    <3>1. CASE ResumeInit \/ ResumeCleanup
      BY <2>1, <2>2, <3>1 DEF ResumeInit, ResumeCleanup, CleanedUp, NoSessions
    <3> QED BY <2>1, <2>6, <3>1, ResumeSpends DEF Resume
  <2>7. CASE \/ sessions' \in {sessions, NoSessions}
             \/ \E h \in IPs : sessions' = removeSession(sessions, h)
    BY <2>1, <2>2, <2>7 DEF NoSessions, removeSession, Maps
  <2>8. CASE \/ tick \/ TickDone \/ \E h \in IPs : TickStale(h)
             \/ ScriptEffect \/ ScriptExits \/ ScriptFails
             \/ Boot \/ Quit \/ cleanup \/ Exit \/ SecondSignal \/ Crash
    BY <2>7, <2>8 DEF tick, TickDone, TickStale, ScriptEffect, ScriptExits, ScriptFails, Boot,
       Quit, cleanup, CleanedUp, Exit, SecondSignal, Crash, Gone
  <2> QED BY <2>3, <2>4, <2>5, <2>6, <2>8 DEF Next, TickStep
<1> QED BY <1>1, LifeOKHolds, PTL DEF Spec, SpentNotRefunded
=============================================================================
