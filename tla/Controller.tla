----------------------------- MODULE Controller -----------------------------
(***************************************************************************)
(* controller.cpp: the session records of the gateway, the handlers that   *)
(* D-Bus calls, quota events and the one-second tick dispatch to, and the  *)
(* daemon's life around them (main.cpp).                                   *)
(*                                                                         *)
(* There is one thread.  A handler that reaches runCommandExec() from the  *)
(* main loop is suspended in a nested event loop (variable frame), and     *)
(* other handlers are dispatched meanwhile.  Their own scripts are refused *)
(* at once, so a nested handler is atomic and there is one frame at most.  *)
(* A QTimer does not fire recursively: no tick runs inside a tick.         *)
(***************************************************************************)
EXTENDS RunCommand, Firewall

CONSTANTS
  UPDATE_TIME, PAUSE_TIME, END_TIME,    \* controller.h, in ticks
  DEFAULT_BANDWIDTH,
  MaxQuota, MaxTime,    \* bounds of the limits that clients set
  Calls,                \* the D-Bus methods that clients use
  Hazards,              \* what the environment may do, see HazardKinds
  NoSession             \* no record

(***************************************************************************)
(* "fail"  a script fails or times out before it changed the rules         *)
(* "dirty" a script times out after it changed the rules                   *)
(* "late"  an event is dispatched after the child finished, in the same    *)
(*         pass of the event dispatcher, before el.exec() returns          *)
(* "reuse" the allocator gives a new record the address of a deleted one   *)
(* "quit"  SIGTERM, SIGINT...;  "crash"  the process dies                  *)
(* "refused" the bus refuses the daemon's name or object, at every try     *)
(***************************************************************************)
HazardKinds == {"fail", "dirty", "late", "reuse", "quit", "crash", "refused"}

Methods == {"newSession", "startSession", "pauseSession", "playSession", "endSession",
            "deleteSession", "updateSession", "setBandwidth", "setQuota", "setTime",
            "setDefaultBandWidth", "setDefaultQuota", "setDefaultTime", "setDefaultSession"}

ASSUME TimersAssumption ==
  UPDATE_TIME \in Nat \ {0} /\ PAUSE_TIME \in Nat \ {0} /\ END_TIME \in Nat \ {0}
ASSUME LimitsAssumption == MaxQuota \in Nat /\ MaxTime \in Nat
ASSUME BandwidthsAssumption == DEFAULT_BANDWIDTH \in Bandwidths /\ NoRule \notin Bandwidths
ASSUME NoIPAssumption == NoIP \notin IPs
ASSUME RunAssumption == Calls \subseteq Methods /\ Hazards \subseteq HazardKinds

States == {"UNINITIALIZED", "STARTED", "PAUSED", "EXHAUSTED", "ENDED"}

Unlimited == -1         \* every negative limit acts like -1: it never reaches 0
Quotas == Unlimited .. MaxQuota
Times  == Unlimited .. MaxTime

Session ==
  [state : States, bandwidth : Bandwidths, quotaRemaining : Quotas, timeRemaining : Times,
   updateTimeRemaining : 0 .. UPDATE_TIME, pauseTimeRemaining : 0 .. PAUSE_TIME,
   endTimeRemaining : 0 .. END_TIME]

ASSUME NoRecordAssumption ==
  NoSession \notin Session /\ NoCmd \notin Commands

VARIABLES
  sessions,             \* ip -> its record, or NoSession
  defaults,             \* limits of new records
  frame,                \* the handler that does not own an empty stack, see Frames
  reply,                \* the answer this step gives to a D-Bus caller
  daemon,               \* "down" -> "starting" -> "up" -> "quitting" (aboutToQuit)
                        \*   -> "exiting" (~Controller) -> "dying" (its members) -> "down",
                        \*   or "starting" -> "failing" (~Controller) -> "dying"
  signalled             \* static int continued: a terminal signal was handled

vars == <<sessions, defaults, frame, reply, daemon, signalled, rules, proc, loop, code>>

NoSessions == [ip \in IPs |-> NoSession]
Records == {ip \in IPs : sessions[ip] # NoSession}

Defaults == [bandwidth : Bandwidths, quotaRemaining : Quotas, timeRemaining : Times]
InitialDefaults ==
  [bandwidth |-> DEFAULT_BANDWIDTH, quotaRemaining |-> Unlimited, timeRemaining |-> Unlimited]

\* The handler on the stack: fn is the function whose script it waits for
\* ("tick": between two records), for record ip, on behalf of caller.  todo are
\* the records its tick has yet to visit.  It holds pointers to records; freed
\* are those deleted since, fresh the records allocated after such a deletion.
Frames ==
  [fn : {"none", "init", "tick", "start", "pause", "end", "exhaust", "cleanup"},
   ip : IPs \cup {NoIP},
   caller : Methods \cup {"none", "init", "tick", "cleanup"},
   todo : SUBSET IPs, freed : SUBSET IPs, fresh : SUBSET IPs]

NewFrame(fn, ip, caller) ==
  [fn |-> fn, ip |-> ip, caller |-> caller, todo |-> {}, freed |-> {}, fresh |-> {}]
NoFrame == NewFrame("none", NoIP, "none")

NoReply == [op |-> "none", ip |-> NoIP, ret |-> 0]
Replies == [op : Methods \cup {"none"}, ip : IPs \cup {NoIP}, ret : {0, Failed}]

TypeOK ==
  /\ sessions \in [IPs -> Session \cup {NoSession}]
  /\ defaults \in Defaults
  /\ frame \in Frames
  /\ reply \in Replies
  /\ daemon \in {"down", "starting", "up", "quitting", "exiting", "failing", "dying"}
  /\ signalled \in BOOLEAN
  /\ rules \in [IPs -> Bandwidths \cup {NoRule}]
  /\ proc \in Commands \cup {NoCmd}
  /\ loop \in {"idle", "exec", "exited"}
  /\ code \in {0, Failed}

Init ==
  /\ sessions = NoSessions
  /\ defaults = InitialDefaults
  /\ frame = NoFrame
  /\ reply = NoReply
  /\ daemon = "down"
  /\ signalled = FALSE
  /\ rules = NoRules
  /\ proc = NoCmd
  /\ loop = "idle"
  /\ code = Failed

-----------------------------------------------------------------------------
(* Records *)

initSession ==
  [state |-> "UNINITIALIZED", bandwidth |-> defaults.bandwidth,
   quotaRemaining |-> defaults.quotaRemaining, timeRemaining |-> defaults.timeRemaining,
   updateTimeRemaining |-> UPDATE_TIME, pauseTimeRemaining |-> PAUSE_TIME,
   endTimeRemaining |-> END_TIME]

\* (mutant) An ended record is initialised again when its client comes back.
WithFreshRecord(ip) ==
  IF sessions[ip] = NoSession \/ sessions[ip].state = "ENDED"
  THEN [sessions EXCEPT ![ip] = initSession] ELSE sessions

\* newSession(IP): a record that exists is left alone.
WithRecord(ip) == IF sessions[ip] = NoSession THEN [sessions EXCEPT ![ip] = initSession]
                  ELSE sessions

removeSession(S, ip) == [S EXCEPT ![ip] = NoSession]

isExhausted(s) == s.timeRemaining = 0 \/ s.quotaRemaining = 0

\* (mutant) The countdown without its test for zero.
DecAlways(n) == n - 1

Dec(n) == IF n > 0 THEN n - 1 ELSE n

\* The frame after the session map became S: which of the pointers that the
\* suspended handler holds are freed, and which records are newer than that.
Held == (frame.todo \cup {frame.ip}) \cap IPs
Track(S) ==
  [frame EXCEPT
    !.freed = @ \cup {ip \in Held : sessions[ip] # NoSession /\ S[ip] = NoSession},
    !.fresh = {ip \in @ : S[ip] # NoSession}
              \cup {ip \in IPs : frame.freed # {} /\ sessions[ip] = NoSession /\ S[ip] # NoSession}]

-----------------------------------------------------------------------------
(* The four functions that run a script.  Each returns early on some        *)
(* states, runs its script on the others, and enters its state when the     *)
(* script succeeded.                                                        *)

Wants(fn, s) ==
  CASE fn = "start"   -> s.state # "STARTED" /\ ~isExhausted(s)
    [] fn = "pause"   -> s.state = "STARTED"
    [] fn = "end"     -> s.state # "ENDED"
    [] fn = "exhaust" -> s.state # "EXHAUSTED"

\* (mutant) There is nothing to do, which is fine.
NothingToDo(fn, s) == 0

\* The early return of fn on a record for which it runs no script.
EarlyReturn(fn, s) ==
  IF \/ fn = "start" /\ s.state = "STARTED"
     \/ fn = "pause" /\ s.state = "PAUSED"
     \/ fn \in {"end", "exhaust"}
  THEN 0 ELSE Failed

Script(fn, ip, S) ==
  IF fn = "start" THEN add_host(ip, S[ip].bandwidth) ELSE remove_host(ip)

\* What fn assigns when its script returned 0.
Entered(fn, s) ==
  CASE fn = "start"   -> [s EXCEPT !.state = "STARTED", !.updateTimeRemaining = UPDATE_TIME]
    [] fn = "pause"   -> [s EXCEPT !.state = "PAUSED"]
    [] fn = "end"     -> [s EXCEPT !.state = "ENDED"]
    [] fn = "exhaust" -> [s EXCEPT !.state = "EXHAUSTED"]

Setters == {"setBandwidth", "setQuota", "setTime"}

\* setBandwidth() and setQuota() ignore how pause and play went.
Answer(op, ip, ret) ==
  reply' = [op |-> op, ip |-> ip, ret |-> IF op \in Setters THEN 0 ELSE ret]

\* A call that answers without running a script, leaving the records S.
Return(op, ip, ret, S) ==
  /\ sessions' = S
  /\ frame' = Track(S)
  /\ Answer(op, ip, ret)
  /\ UNCHANGED runVars

\* fn(ip) within call op, on the records S that the call has made so far: from
\* the main loop it is suspended, elsewhere its script is refused.
Perform(fn, ip, op, S) ==
  IF ~Wants(fn, S[ip]) THEN Return(op, ip, EarlyReturn(fn, S[ip]), S)
  ELSE /\ sessions' = S
       /\ IF frame = NoFrame /\ ~Busy
          THEN /\ ExecSuspends(Script(fn, ip, S))
               /\ frame' = NewFrame(fn, ip, op)
               /\ reply' = NoReply
          ELSE /\ ExecRefused(Script(fn, ip, S))
               /\ frame' = Track(S)
               /\ Answer(op, ip, Failed)

-----------------------------------------------------------------------------
(* The calls *)

\* Handlers run from the main loop, or from the nested loop of a suspended
\* handler: there are none while the constructor runs gw_init, and the main
\* loop is over once the daemon quits.
EventsDispatched ==
  \/ daemon = "up" /\ frame = NoFrame
  \/ /\ daemon \in {"up", "quitting"}
     /\ frame # NoFrame
     /\ loop = "exec" \/ (loop = "exited" /\ "late" \in Hazards)

Called(op) ==
  /\ op \in Calls
  /\ EventsDispatched
  /\ UNCHANGED <<daemon, signalled, rules>>

newSession(ip) ==
  /\ Called("newSession")
  /\ Return("newSession", ip, 0, WithRecord(ip))
  /\ UNCHANGED defaults

startSession(ip) ==
  /\ Called("startSession")
  /\ Perform("start", ip, "startSession", WithRecord(ip))
  /\ UNCHANGED defaults

pauseSession(ip) ==
  /\ Called("pauseSession")
  /\ IF ip \in Records THEN Perform("pause", ip, "pauseSession", sessions)
     ELSE Return("pauseSession", ip, Failed, sessions)
  /\ UNCHANGED defaults

playSession(ip) ==
  /\ Called("playSession")
  /\ IF ip \in Records /\ sessions[ip].state \in {"STARTED", "PAUSED"}
     THEN Perform("start", ip, "playSession", sessions)
     ELSE Return("playSession", ip, Failed, sessions)
  /\ UNCHANGED defaults

endSession(ip) ==
  /\ Called("endSession")
  /\ IF ip \in Records THEN Perform("end", ip, "endSession", sessions)
     ELSE Return("endSession", ip, Failed, sessions)
  /\ UNCHANGED defaults

\* (mutant) The result of endSession() is not looked at.
DeleteUnchecked(ip) ==
  /\ Called("deleteSession")
  /\ IF ip \in Records THEN Return("deleteSession", ip, 0, removeSession(sessions, ip))
     ELSE Return("deleteSession", ip, Failed, sessions)
  /\ UNCHANGED defaults

\* endSession(), and then the record goes if it ended.
deleteSession(ip) ==
  /\ Called("deleteSession")
  /\ IF ip \notin Records THEN Return("deleteSession", ip, Failed, sessions)
     ELSE IF sessions[ip].state = "ENDED"
     THEN Return("deleteSession", ip, 0, removeSession(sessions, ip))
     ELSE Perform("end", ip, "deleteSession", sessions)
  /\ UNCHANGED defaults

updateSession(ip) ==
  /\ Called("updateSession")
  /\ IF ip \in Records
     THEN Return("updateSession", ip, 0,
                 [sessions EXCEPT ![ip].updateTimeRemaining = UPDATE_TIME])
     ELSE Return("updateSession", ip, Failed, sessions)
  /\ UNCHANGED defaults

\* The pause and play of a setter, on the records S with the new value: a
\* started session is paused (then played, see ResumePause), a paused one is
\* played, and nothing happens in the other states.
PauseAndPlay(op, ip, S) ==
  CASE S[ip].state = "STARTED" -> Perform("pause", ip, op, S)
    [] S[ip].state = "PAUSED"  -> Perform("start", ip, op, S)
    [] OTHER                   -> Return(op, ip, 0, S)

\* No record: the call returns -1.
NoSuchRecord(op, ip) ==
  /\ sessions' = sessions
  /\ frame' = frame
  /\ reply' = [op |-> op, ip |-> ip, ret |-> Failed]
  /\ UNCHANGED runVars

setBandwidth(ip, bw) ==
  /\ Called("setBandwidth")
  /\ IF ip \in Records
     THEN PauseAndPlay("setBandwidth", ip, [sessions EXCEPT ![ip].bandwidth = bw])
     ELSE NoSuchRecord("setBandwidth", ip)
  /\ UNCHANGED defaults

setQuota(ip, quota) ==
  /\ Called("setQuota")
  /\ IF ip \in Records
     THEN PauseAndPlay("setQuota", ip, [sessions EXCEPT ![ip].quotaRemaining = quota])
     ELSE NoSuchRecord("setQuota", ip)
  /\ UNCHANGED defaults

\* The D-Bus method setTime, which calls Controller::setQuota().
setTime(ip, time) ==
  /\ Called("setTime")
  /\ IF ip \in Records
     THEN PauseAndPlay("setTime", ip, [sessions EXCEPT ![ip].quotaRemaining = time])
     ELSE NoSuchRecord("setTime", ip)
  /\ UNCHANGED defaults

SetDefaults(op, d) ==
  /\ Called(op)
  /\ defaults' = d
  /\ Return(op, NoIP, 0, sessions)

setDefaultBandWidth(bw) ==
  SetDefaults("setDefaultBandWidth", [defaults EXCEPT !.bandwidth = bw])
setDefaultQuota(quota) ==
  SetDefaults("setDefaultQuota", [defaults EXCEPT !.quotaRemaining = quota])
setDefaultTime(time) ==
  SetDefaults("setDefaultTime", [defaults EXCEPT !.timeRemaining = time])
setDefaultSession(d) == SetDefaults("setDefaultSession", d)

\* QuotaBeacon's quotaEvent(ip): a unit of traffic was logged.
updateQuotaRemaining(ip) ==
  /\ EventsDispatched
  /\ ip \in Records
  /\ sessions' = [sessions EXCEPT ![ip].quotaRemaining = Dec(@)]
  /\ reply' = NoReply
  /\ UNCHANGED <<defaults, frame, daemon, signalled, rules, runVars>>

-----------------------------------------------------------------------------
(* tick() *)

\* The timers of one record after its visit.  No tick touches a record that
\* is UNINITIALIZED; an expired pause timer is armed again.
Ticked(s) ==
  CASE s.state = "STARTED"   -> [s EXCEPT !.timeRemaining = Dec(@), !.updateTimeRemaining = Dec(@)]
    [] s.state = "EXHAUSTED" -> [s EXCEPT !.updateTimeRemaining = Dec(@)]
    [] s.state = "PAUSED"    -> [s EXCEPT !.pauseTimeRemaining = IF @ <= 1 THEN PAUSE_TIME ELSE @ - 1]
    [] s.state = "ENDED"     -> [s EXCEPT !.endTimeRemaining = Dec(@)]
    [] OTHER                 -> s

\* (mutants) A countdown that removes live records, or none.
ExpiredAnyState(s) == Dec(s.endTimeRemaining) = 0
NeverExpired(s) == FALSE

Expired(s) == s.state = "ENDED" /\ Dec(s.endTimeRemaining) = 0

\* (mutants) A tick that forgets one of the transitions it makes.
NoExhaustCall(s) ==
  CASE s.state \in {"STARTED", "EXHAUSTED"} /\ Dec(s.updateTimeRemaining) = 0 -> "end"
    [] OTHER -> "none"
NoExhaustedEndCall(s) ==
  CASE s.state = "STARTED" /\ isExhausted(Ticked(s)) -> "exhaust"
    [] s.state = "STARTED" /\ ~isExhausted(Ticked(s))
         /\ Dec(s.updateTimeRemaining) = 0           -> "end"
    [] OTHER                                         -> "none"

NoStartCall(s) ==
  CASE s.state = "STARTED" /\ isExhausted(Ticked(s))                     -> "exhaust"
    [] s.state = "STARTED" /\ ~isExhausted(Ticked(s))
         /\ Dec(s.updateTimeRemaining) = 0                               -> "end"
    [] s.state = "EXHAUSTED" /\ Dec(s.updateTimeRemaining) = 0           -> "end"
    [] OTHER                                                             -> "none"

\* The first function with a script that the visit of s calls.
TickCall(s) ==
  CASE s.state = "STARTED" /\ isExhausted(Ticked(s))                -> "exhaust"
    [] s.state = "STARTED" /\ ~isExhausted(Ticked(s))
         /\ Dec(s.updateTimeRemaining) = 0                          -> "end"
    [] s.state = "EXHAUSTED" /\ Dec(s.updateTimeRemaining) = 0      -> "end"
    [] s.state = "PAUSED" /\ s.pauseTimeRemaining <= 1
         /\ ~isExhausted(s)                                         -> "start"
    [] OTHER                                                        -> "none"

Visited(S, ip) == IF Expired(S[ip]) THEN NoSession ELSE Ticked(S[ip])

\* QCoreApplication::quit() was called, and the application's exec() has yet to begin,
\* which it will not, or to return: no event loop starts.
quitNow ==
  \/ daemon = "failing" /\ signalled
  \/ daemon = "quitting" /\ frame # NoFrame /\ frame.fn # "cleanup"

\* The tick timer fires in the main loop: foreach copies the pointers.
tick ==
  /\ daemon = "up"
  /\ frame = NoFrame
  /\ Records # {}
  /\ frame' = [NewFrame("tick", NoIP, "tick") EXCEPT !.todo = Records]
  /\ reply' = NoReply
  /\ UNCHANGED <<sessions, defaults, daemon, signalled, rules, runVars>>

\* The visit of one record, up to its first script.  (The code visits the
\* records in the order of their keys; any order is allowed here.)
TickVisit(ip) ==
  /\ frame.fn = "tick"
  /\ ip \in frame.todo \ frame.freed
  /\ sessions' = [sessions EXCEPT ![ip] = Visited(sessions, ip)]
  /\ LET fn == TickCall(sessions[ip]) IN
     IF fn # "none" /\ ~Busy /\ ~quitNow
     THEN /\ ExecSuspends(Script(fn, ip, sessions))
          /\ frame' = [frame EXCEPT !.fn = fn, !.ip = ip, !.todo = @ \ {ip}]
     ELSE /\ frame' = [frame EXCEPT !.todo = @ \ {ip}]
          /\ IF fn # "none" /\ ~Busy THEN ExecAborted(Script(fn, ip, sessions))
             ELSE UNCHANGED runVars
  /\ reply' = NoReply
  /\ UNCHANGED <<defaults, daemon, signalled, rules>>

\* The visit of a pointer whose record was deleted while the tick was
\* suspended.  It reads freed memory: the process dies (Crash), or the stale
\* or UNINITIALIZED record it finds there is ticked to no effect, or the stale
\* one, which had ended, expires: the record that its address has by now goes.
TickStale(ip) ==
  /\ frame.fn = "tick"
  /\ ip \in frame.todo \cap frame.freed
  /\ sessions' \in {sessions, removeSession(sessions, ip)}
  /\ frame' = [frame EXCEPT !.todo = @ \ {ip}, !.fresh = {h \in @ : sessions'[h] # NoSession}]
  /\ reply' = NoReply
  /\ UNCHANGED <<defaults, daemon, signalled, rules, runVars>>

TickDone ==
  /\ frame.fn = "tick"
  /\ frame.todo = {}
  /\ frame' = NoFrame
  /\ reply' = NoReply
  /\ UNCHANGED <<sessions, defaults, daemon, signalled, rules, runVars>>

\* (mutant) A tick runs in the nested loop of a tick.
RecursiveTick ==
  /\ EventsDispatched
  /\ frame # NoFrame
  /\ Records # {}
  /\ sessions' = [ip \in IPs |-> IF ip \in Records THEN Visited(sessions, ip) ELSE NoSession]
  /\ frame' = Track(sessions')
  /\ reply' = NoReply
  /\ UNCHANGED <<defaults, daemon, signalled, rules, runVars>>

\* A tick while another handler is suspended visits every record at once: each
\* script it wants is refused.
NestedTick ==
  /\ EventsDispatched
  /\ frame # NoFrame
  /\ frame.caller # "tick"
  /\ Records # {}
  /\ sessions' = [ip \in IPs |-> IF ip \in Records THEN Visited(sessions, ip) ELSE NoSession]
  /\ frame' = Track(sessions')
  /\ LET wanting == {ip \in Records : TickCall(sessions[ip]) # "none"} IN
     IF wanting = {} THEN UNCHANGED runVars
     ELSE \E ip \in wanting : ExecRefused(Script(TickCall(sessions[ip]), ip, sessions))
  /\ reply' = NoReply
  /\ UNCHANGED <<defaults, daemon, signalled, rules>>

-----------------------------------------------------------------------------
(* The suspended handler goes on when its el.exec() returns *)

Resumes(fn) ==
  /\ frame.fn = fn
  /\ loop = "exited"
  /\ UNCHANGED <<defaults, signalled, rules>>

\* The handler hands ret to its D-Bus caller, or to the tick it is part of.
Hands(ret) ==
  IF frame.caller = "tick"
  THEN frame' = [frame EXCEPT !.fn = "tick", !.ip = NoIP] /\ reply' = NoReply
  ELSE frame' = NoFrame /\ Answer(frame.caller, frame.ip, ret)

Returns(ret) == ExecReturns /\ Hands(ret)

\* The handler goes on with fn, which runs a script on the records S, but does not
\* wait for it after quit().
GoesOn(fn, S) ==
  IF quitNow THEN ExecAborted(Script(fn, frame.ip, S)) /\ Hands(Failed)
  ELSE /\ ExecReturnsInto(Script(fn, frame.ip, S))
       /\ frame' = [frame EXCEPT !.fn = fn]
       /\ reply' = NoReply

\* (mutant) The result of the script is not looked at.
ResumedUnchecked(fn) == [sessions EXCEPT ![frame.ip] = Entered(fn, @)]

\* sessions once the suspended fn has acted on its own record.
Resumed(fn) ==
  IF code = 0 THEN [sessions EXCEPT ![frame.ip] = Entered(fn, @)] ELSE sessions

\* startSession() writes to the record it held.  If that was deleted the write
\* is lost, or lands in a record that was allocated at its address since.
ResumeStart ==
  /\ Resumes("start")
  /\ IF frame.ip \notin frame.freed THEN sessions' = Resumed("start")
     ELSE \/ sessions' = sessions
          \/ /\ code = 0 /\ "reuse" \in Hazards
             /\ \E ip \in frame.fresh :
                  sessions' = [sessions EXCEPT ![ip] = Entered("start", @)]
  /\ Returns(code)
  /\ UNCHANGED daemon

\* pauseSession() returns; a setter then plays the session it paused.
ResumePause ==
  /\ Resumes("pause")
  /\ sessions' = Resumed("pause")
  /\ IF frame.caller \in Setters /\ code = 0 /\ ~Busy /\ ~isExhausted(sessions[frame.ip])
     THEN GoesOn("start", sessions)
     ELSE Returns(code)
  /\ UNCHANGED daemon

ResumeEnd ==
  /\ Resumes("end")
  /\ sessions' = IF code = 0 /\ frame.caller = "deleteSession"
                 THEN removeSession(sessions, frame.ip) ELSE Resumed("end")
  /\ Returns(code)
  /\ UNCHANGED daemon

\* exhaustSession() returns to the tick, which then looks at the update timer
\* of the record, as it is now, and ends the session if it ran out.
ResumeExhaust ==
  /\ Resumes("exhaust")
  /\ sessions' = Resumed("exhaust")
  /\ IF sessions[frame.ip].updateTimeRemaining = 0 /\ ~Busy
     THEN GoesOn("end", sessions)
     ELSE Returns(code)
  /\ UNCHANGED daemon

-----------------------------------------------------------------------------
(* Scripts *)

\* The child changes the rules, whatever the daemon does meanwhile.
ScriptEffect ==
  /\ Busy
  /\ proc.stage = "running"
  /\ rules' = After(proc)
  /\ proc' = [proc EXCEPT !.stage = "applied"]
  /\ reply' = NoReply
  /\ UNCHANGED <<sessions, defaults, frame, daemon, signalled, loop, code>>

\* The end of a child is noticed by a running event loop only.
LoopRuns == loop = "exec" \/ (daemon = "up" /\ frame = NoFrame)

ScriptExits ==
  /\ Busy
  /\ LoopRuns
  /\ proc.stage = "applied"
  /\ finishedInternalExec(0)
  /\ reply' = NoReply
  /\ UNCHANGED <<sessions, defaults, frame, daemon, signalled, rules>>

\* A script exits with an error, or the timer fires and bash is killed.
ScriptFails ==
  /\ "fail" \in Hazards
  /\ Busy
  /\ LoopRuns
  /\ proc.stage = "running" \/ "dirty" \in Hazards
  /\ finishedInternalExec(Failed)
  /\ reply' = NoReply
  /\ UNCHANGED <<sessions, defaults, frame, daemon, signalled, rules>>

-----------------------------------------------------------------------------
(* The daemon *)

\* main() and the constructor of Controller, up to gw_init.  (If quit() comes first
\* its el.exec() returns -1, the constructor throws, and the daemon is down again.)
Boot ==
  /\ daemon = "down"
  /\ daemon' = "starting"
  /\ signalled' = FALSE
  /\ defaults' = InitialDefaults
  /\ ExecSuspends(init)
  /\ frame' = NewFrame("init", NoIP, "init")
  /\ reply' = NoReply
  /\ UNCHANGED <<sessions, rules>>

\* The rest of the constructor, which throws when gw_init failed, and the registration
\* with the bus.  The main loop then begins, and forgets a quit() that came before.
ResumeInit ==
  /\ Resumes("init")
  /\ ExecReturns
  /\ \/ code # 0 /\ daemon' = "down"
     \/ code = 0 /\ daemon' = "up"
     \/ code = 0 /\ daemon' = "failing" /\ "refused" \in Hazards
  /\ frame' = NoFrame
  /\ reply' = NoReply
  /\ UNCHANGED sessions

\* The first SIGTERM, SIGINT...: qApp->quit() exits all event loops.  If the main
\* loop is one of them, app.exec() returns as soon as the handlers have.
Quit ==
  /\ "quit" \in Hazards
  /\ ~signalled /\ daemon # "down"
  /\ signalled' = TRUE
  /\ daemon' = IF daemon = "up" THEN "quitting" ELSE daemon
  /\ IF loop # "idle" THEN ExecQuits ELSE UNCHANGED runVars
  /\ reply' = NoReply
  /\ UNCHANGED <<sessions, defaults, frame, rules>>

\* clearSessions(), the end of cleanup(), which runs on aboutToQuit and again
\* in ~Controller, or there alone if the main loop never ran.
CleanedUp ==
  /\ sessions' = NoSessions
  /\ daemon' = IF daemon = "quitting" THEN "exiting" ELSE "dying"
  /\ frame' = NoFrame

\* (mutant) A clean-up that waits for the process to be free.
CleanupWaits ==
  /\ daemon \in {"quitting", "exiting", "failing"}
  /\ frame = NoFrame
  /\ ExecSuspends(clean_up)
  /\ frame' = NewFrame("cleanup", NoIP, "cleanup")
  /\ reply' = NoReply
  /\ UNCHANGED <<sessions, daemon, signalled, defaults, rules>>

cleanup ==
  /\ daemon \in {"quitting", "exiting", "failing"}
  /\ frame = NoFrame
  /\ IF Busy \/ quitNow
     THEN /\ CleanedUp
          /\ IF Busy THEN UNCHANGED runVars ELSE ExecAborted(clean_up)
     ELSE /\ ExecSuspends(clean_up)
          /\ frame' = NewFrame("cleanup", NoIP, "cleanup")
          /\ UNCHANGED <<sessions, daemon>>
  /\ reply' = NoReply
  /\ UNCHANGED <<defaults, signalled, rules>>

ResumeCleanup ==
  /\ Resumes("cleanup")
  /\ ExecReturns
  /\ CleanedUp
  /\ reply' = NoReply

\* The process is gone.  ~QProcess kills the child, or the child outlives the
\* daemon: it has done its work or not.
Gone ==
  /\ daemon' = "down"
  /\ signalled' = FALSE
  /\ sessions' = NoSessions
  /\ defaults' = InitialDefaults
  /\ frame' = NoFrame
  /\ reply' = NoReply
  /\ rules' \in {rules} \cup (IF Busy THEN {After(proc)} ELSE {})
  /\ proc' = NoCmd /\ loop' = "idle" /\ code' = Failed

Exit == daemon = "dying" /\ Gone

\* sig_clean_up() lets the handler go on after the first signal only: _exit().
SecondSignal == "quit" \in Hazards /\ signalled /\ daemon # "down" /\ Gone

\* A fault, SIGKILL, a signal before there is a qApp: no clean-up.
Crash == "crash" \in Hazards /\ daemon # "down" /\ Gone

-----------------------------------------------------------------------------
Call ==
  \/ \E ip \in IPs :
       \/ newSession(ip) \/ startSession(ip) \/ pauseSession(ip) \/ playSession(ip)
       \/ endSession(ip) \/ deleteSession(ip) \/ updateSession(ip)
       \/ \E bw \in Bandwidths : setBandwidth(ip, bw)
       \/ \E quota \in Quotas : setQuota(ip, quota)
       \/ \E time \in Times \cap Quotas : setTime(ip, time)
  \/ \E bw \in Bandwidths : setDefaultBandWidth(bw)
  \/ \E quota \in Quotas : setDefaultQuota(quota)
  \/ \E time \in Times : setDefaultTime(time)
  \/ \E d \in Defaults : setDefaultSession(d)

Resume == ResumeInit \/ ResumeStart \/ ResumePause \/ ResumeEnd \/ ResumeExhaust \/ ResumeCleanup
TickStep == TickDone \/ \E ip \in IPs : TickVisit(ip) \/ TickStale(ip)

Next ==
  \/ Call
  \/ \E ip \in IPs : updateQuotaRemaining(ip)
  \/ tick \/ NestedTick \/ TickStep
  \/ Resume
  \/ ScriptEffect \/ ScriptExits \/ ScriptFails
  \/ Boot \/ Quit \/ cleanup \/ Exit \/ SecondSignal \/ Crash

Spec == Init /\ [][Next]_vars
-----------------------------------------------------------------------------
(***************************************************************************)
(* Fairness.  Scripts end and the kernel reports it, the thread keeps      *)
(* running, and the main loop, to which every handler returns, dispatches  *)
(* the timer: a tick that comes due in a nested loop is dispatched there,  *)
(* so the main loop gets it again and again only (SF).  Calls and signals  *)
(* are never owed.                                                         *)
(***************************************************************************)
Fairness ==
  /\ WF_vars(ScriptEffect) /\ WF_vars(ScriptExits)
  /\ WF_vars(Resume) /\ WF_vars(TickStep)
  /\ SF_vars(tick)
  /\ WF_vars(Boot) /\ WF_vars(cleanup) /\ WF_vars(Exit)

FairSpec == Spec /\ Fairness

-----------------------------------------------------------------------------
(* Properties *)

\* The state of a host as the gateway's promise sees it (module Gate).
StateOf(ip) == IF daemon = "up" /\ ip \in Records THEN sessions[ip].state ELSE "none"

\* Re-entrancy is harmless to the record a suspended handler works on: what it
\* checked before its script still holds when el.exec() returns, unless the
\* record was deleted, which can happen to startSession() alone.
SuspendedStateHeld ==
  /\ frame.fn \in {"pause", "exhaust"} =>
       frame.ip \in Records \ frame.freed /\ sessions[frame.ip].state = "STARTED"
  /\ frame.fn = "end" =>
       frame.ip \in Records \ frame.freed /\ sessions[frame.ip].state # "ENDED"
  /\ frame.fn = "start" /\ frame.ip \notin frame.freed =>
       frame.ip \in Records /\ sessions[frame.ip].state # "STARTED"

\* tick() follows the pointers of foreach's copy: those that were not freed
\* still point to the record of their address.
TickPointersHeld == frame.todo \ frame.freed \subseteq Records

\* A pointer that a suspended tick has yet to follow goes stale in one way only: a
\* client deletes a session that has ended.  No tick runs inside the tick and
\* removes the record first.
StaleOnlyByDelete ==
  [][frame.caller = "tick" /\ frame'.freed # frame.freed /\ frame' # NoFrame =>
       reply'.op = "deleteSession" /\ sessions[reply'.ip].state = "ENDED"]_vars

\* controller.cpp:84-87, startSession(): "Will change the state of the record to
\* started if it is startable", "@return 0 on success".  It is true of every answer
\* but one: when the record was deleted while its script ran.
StartAnswerTrue ==
  [][\A ip \in IPs : reply' = [op |-> "startSession", ip |-> ip, ret |-> 0] =>
       \/ sessions'[ip] # NoSession /\ sessions'[ip].state = "STARTED"
       \/ ip \in frame.freed]_vars

\* Handlers that are dispatched while another is suspended move no session from
\* one state to another: they create records, change limits and timers, and
\* remove records that ended.  One transition is under way at a time.
NestedMovesNothing ==
  [][loop = "exec" /\ loop' = "exec" =>
       \A ip \in Records :
         IF sessions'[ip] = NoSession THEN sessions[ip].state = "ENDED"
         ELSE sessions'[ip].state = sessions[ip].state]_vars

Promise == INSTANCE Gate WITH
  Hosts   <- IPs,
  NoHost  <- NoIP,
  on      <- daemon = "up",
  state   <- [ip \in IPs |-> StateOf(ip)],
  open    <- [ip \in IPs |-> rules[ip] # NoRule],
  pending <- IF daemon = "up" THEN frame.ip ELSE NoIP

\* controller.cpp and the scripts keep that promise: access changes only for the
\* host whose handler is suspended, and every state a host is left in agrees
\* with its rules.
GateSpec == Promise!Spec

\* No host but the one being changed has rules while it is paused, exhausted or
\* ended, or lacks them while it is started.
AccessAgrees == Promise!AccessAgrees

\* A handler goes on through the pointer of a deleted record, and meets the record
\* of client ip, which is newer: startSession() of another client starts it, or the
\* tick removes it.
Overwritten(ip) ==
  \/ ip \in frame.fresh /\ frame.ip \in frame.freed /\ StateOf(ip)' = "STARTED"
  \/ ip \in frame.fresh \cap frame.todo /\ StateOf(ip)' = "none"

\* What each client sees of its session is module SessionView, whatever it and others
\* call while its handler, another's or a tick is suspended; but for a record that a
\* stale pointer hits.  (Of a daemon that does not go down.)
View(ip) == INSTANCE SessionView WITH
  state  <- StateOf(ip),
  left   <- IF ip \in Records THEN sessions[ip].updateTimeRemaining ELSE 0,
  doing  <- IF frame.ip # ip \/ frame.caller = "cleanup" THEN "none"
            ELSE IF ip \in frame.freed THEN "lost" ELSE frame.fn,
  by     <- IF frame.ip = ip THEN frame.caller ELSE "none",
  answer <- IF reply.ip = ip THEN [op |-> reply.op, ret |-> reply.ret] ELSE [op |-> "none", ret |-> 0]

ClientsView ==
  /\ \A ip \in IPs : View(ip)!ViewInit
  /\ [][\A ip \in IPs : UNCHANGED View(ip)!viewVars \/ View(ip)!ViewNext \/ Overwritten(ip)]_vars

\* Access and state come apart in three ways only: a handler goes on whose script
\* failed after it had changed the rules (runcommand.cpp:66); a child that no caller
\* waits for changes them; or a handler goes on whose record was deleted.  Nothing
\* else that happens to a host, nested or not, parts them.
InOrder(ip) == frame.ip = ip \/ Promise!Agrees(StateOf(ip), rules[ip] # NoRule)
PartedByFailureOnly ==
  [][\A ip \in IPs : InOrder(ip) /\ ~InOrder(ip)' =>
       \/ frame.ip = ip /\ loop = "exited" /\ code = Failed
       \/ Busy /\ proc.ip = ip /\ loop # "exec"         \* a child no one waits for
       \/ frame.ip \in frame.freed]_vars

\* Every handler returns: nested event loops, ticks and retries never leave one
\* suspended for ever.
HandlersReturn == frame # NoFrame ~> frame = NoFrame

\* A session on which the client goes silent does not stay started or exhausted
\* (controller.cpp:417): once its update timer has begun to run out, the session
\* leaves those states, or updateSession() or a restart arms the timer again.
Live(ip) == StateOf(ip) \in {"STARTED", "EXHAUSTED"}
UnrefreshedEnds ==
  \A ip \in IPs : (Live(ip) /\ sessions[ip].updateTimeRemaining < UPDATE_TIME)
                    ~> (Live(ip) => sessions[ip].updateTimeRemaining = UPDATE_TIME)

\* A session without time or quota does not stay started, updates or not.
ExhaustedStops ==
  \A ip \in IPs : (StateOf(ip) = "STARTED" /\ isExhausted(sessions[ip]))
                    ~> ~(StateOf(ip) = "STARTED" /\ isExhausted(sessions[ip]))

\* controller.cpp:133, "Session will restart auto after period": a paused session
\* is started or ended, whatever scripts the tick is refused, or it runs out of quota
\* or time (an exhausted session is tried at every period and stays paused).
PausedRestarts ==
  \A ip \in IPs : (StateOf(ip) = "PAUSED" /\ ~isExhausted(sessions[ip]))
                    ~> ~(StateOf(ip) = "PAUSED" /\ ~isExhausted(sessions[ip]))

\* Time and quota that were spent do not come back while the record lives: no
\* sequence of pauses, ends and restarts refunds them, a setter alone does.
SpentNotRefunded ==
  [][\A ip \in Records :
       sessions'[ip] # NoSession =>
         LET s == sessions[ip]  t == sessions'[ip] IN
         /\ t.timeRemaining \in {s.timeRemaining, Dec(s.timeRemaining)}
         /\ \/ t.quotaRemaining \in {s.quotaRemaining, Dec(s.quotaRemaining)}
            \/ reply'.op \in Setters \/ frame'.caller \in Setters]_vars

\* The record of an ended session is thawed or forgotten.
EndedForgotten ==
  \A ip \in IPs : (StateOf(ip) = "ENDED") ~> (StateOf(ip) # "ENDED")

\* Once app.exec() is left the daemon goes down, whatever handler the signal
\* interrupted and whatever is called meanwhile.
QuitStops == daemon = "quitting" ~> daemon = "down"
-----------------------------------------------------------------------------
(* What comments of the code say and the code does not do: each of these is *)
(* violated, in a run of its own.                                           *)

\* controller.cpp:465, setBandwidth(): "Pause/play is a hack to get it into IP
\* tables."  Called while the session's first start waits for its script, it finds a
\* session to pause or play in neither function, and answers 0; the script that runs
\* then admits the host with the old limit.
BandwidthInForce ==
  \A ip \in IPs : frame = NoFrame /\ ~Busy /\ StateOf(ip) = "STARTED"
                    => rules[ip] = sessions[ip].bandwidth

\* main.cpp:15, sig_clean_up(): "Clean up on terminal signal."  When the signal
\* interrupts a handler that waits for its script, both clean-ups are refused.
CleansUp == daemon = "dying" => rules = NoRules
=============================================================================
