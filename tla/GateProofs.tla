----------------------------- MODULE GateProofs -----------------------------
(***************************************************************************)
(* Access and state: where they may come apart in Controller, whatever     *)
(* goes wrong, and that Controller implements Gate when nothing does.      *)
(*                                                                         *)
(* The argument: a script runs for the pending host alone, and how far it  *)
(* has come tells whether that host's rules are still those of its state.  *)
(***************************************************************************)
EXTENDS ControllerSteps

Open(ip) == rules[ip] # NoRule
Agree(ip) == Promise!Agrees(StateOf(ip), Open(ip))

\* The access that the script of fn gives to its host, and that script.
Grants(fn) == fn = "start"
Runs(fn, ip) ==
  /\ Busy /\ proc.ip = ip
  /\ IF Grants(fn) THEN proc.name = "gw_add_host" /\ proc.bw \in Bandwidths
     ELSE proc.name = "gw_remove_host"

\* While a handler is suspended the child that runs is its own; when its script has
\* succeeded the rules are as it made them, unless a child no one waits for, which a
\* late handler started, changes them back.
ChildOK ==
  daemon = "up" =>
    /\ Busy => proc.name # "gw_clean_up"
    /\ loop = "exec" =>
         /\ Runs(frame.fn, frame.ip)
         /\ proc.stage = "applied" => Open(frame.ip) = Grants(frame.fn)
    /\ loop = "exited" /\ code = 0 =>
         Open(frame.ip) = Grants(frame.fn) \/ (Busy /\ proc.ip = frame.ip)

\* A record that was deleted under the suspended handler is not there or a new one: its
\* own, and those its tick has yet to visit if no address is used again.
Blank(ip) == sessions[ip] = NoSession \/ sessions[ip].state = "UNINITIALIZED"
FreedOK ==
  \A ip \in frame.freed : ip = frame.ip \/ "reuse" \notin Hazards => Blank(ip)

GInv == LInv /\ ChildOK /\ FreedOK

-----------------------------------------------------------------------------
(* Scripts and rules *)

\* The script of fn, as it starts.
LEMMA ScriptRuns ==
  ASSUME NEW fn \in ScriptFns, NEW ip \in IPs, NEW S \in Maps, S[ip] # NoSession,
         proc' = Script(fn, ip, S), frame'.fn = fn, frame'.ip = ip
  PROVE  Runs(frame.fn, frame.ip)' /\ proc'.stage = "running"
         /\ proc' # NoCmd /\ proc'.name # "gw_clean_up"
<1>1. proc' \in Commands /\ S[ip].bandwidth \in Bandwidths
  BY ScriptIsCommand DEF Maps, Session
<1>2. proc' # NoCmd
  BY <1>1, NoRecordAssumption
<1>3. /\ proc'.ip = ip /\ proc'.stage = "running"
      /\ IF Grants(fn) THEN proc'.name = "gw_add_host" /\ proc'.bw = S[ip].bandwidth
         ELSE proc'.name = "gw_remove_host"
  BY DEF Script, Grants, add_host, remove_host, Command
<1> QED BY <1>1, <1>2, <1>3 DEF Runs, Busy, Grants

\* What a script does to the rules of one host: those of others stay.
LEMMA AfterOpen ==
  ASSUME TypeOK, Busy, proc.name # "gw_clean_up", rules' = After(proc), NEW ip \in IPs
  PROVE  /\ ip # proc.ip => Open(ip)' = Open(ip)
         /\ proc.name = "gw_init" => Open(ip)' = Open(ip)
         /\ ip = proc.ip /\ proc.name = "gw_add_host" /\ proc.bw \in Bandwidths => Open(ip)'
         /\ ip = proc.ip /\ proc.name = "gw_remove_host" => ~Open(ip)'
<1>1. proc \in Commands
  BY DEF TypeOK, Busy
<1>2. CASE proc.name = "gw_add_host"
  <2>1. rules' = [rules EXCEPT ![proc.ip] = IF rules[proc.ip] = NoRule THEN proc.bw ELSE rules[proc.ip]]
    BY <1>2 DEF After, gw_add_host
  <2> QED BY <1>2, <2>1, BandwidthsAssumption DEF TypeOK, Open
<1>3. CASE proc.name = "gw_remove_host"
  BY <1>3 DEF After, gw_remove_host, TypeOK, Open
<1>4. CASE proc.name = "gw_init"
  BY <1>4 DEF After, gw_init, Open
<1> QED BY <1>1, <1>2, <1>3, <1>4 DEF Commands

\* In the suspended handler's own words.
LEMMA ExecFields ==
  ASSUME LInv, daemon = "up", loop # "idle"
  PROVE  frame.fn \in ScriptFns /\ frame.ip \in IPs
<1>1. frame.fn \notin {"none", "tick", "init", "cleanup"}
  BY DEF LInv, LifeOK, IInv, FrameOK
<1>2. frame.fn \in ScriptFns
  BY <1>1 DEF LInv, IInv, TypeOK, Frames, ScriptFns
<1> QED BY <1>2 DEF LInv, IInv, FrameOK

-----------------------------------------------------------------------------
(* The child, in every step *)

\* A nested handler leaves the child of the suspended one alone.
LEMMA NestedChild ==
  ASSUME LInv, ChildOK, daemon' = daemon, frame'.fn = frame.fn, frame'.ip = frame.ip,
         UNCHANGED <<rules, loop, code>>,
         \/ proc' = proc
         \/ ~Busy /\ loop # "idle" /\ proc'.name # "gw_clean_up"
  PROVE  ChildOK'
<1> SUFFICES ASSUME daemon = "up"
             PROVE  ChildOK'
  BY DEF ChildOK
<1>1. CASE proc' = proc
  BY <1>1 DEF ChildOK, Runs, Busy, Open
<1>2. CASE ~Busy /\ loop # "idle" /\ proc'.name # "gw_clean_up"
  BY <1>2 DEF ChildOK, Runs, Busy, Open
<1> QED BY <1>1, <1>2

\* A handler whose script starts.
LEMMA StartedChild ==
  ASSUME NEW fn \in ScriptFns, NEW ip \in IPs, NEW S \in Maps, S[ip] # NoSession,
         proc' = Script(fn, ip, S), frame'.fn = fn, frame'.ip = ip, loop' = "exec"
  PROVE  ChildOK'
BY ScriptRuns DEF ChildOK

LEMMA IdleChild ==
  ASSUME LInv, ChildOK, loop' = "idle", proc' = proc, daemon' = "up" => daemon = "up"
  PROVE  ChildOK'
BY DEF ChildOK, Busy

LEMMA CallChild ==
  ASSUME LInv, ChildOK, Call
  PROVE  ChildOK'
<1>1. CallDone /\ IInv
  BY CallShape DEF LInv
<1>2. PICK op \in Methods, ip \in IPs \cup {NoIP} : Suspends(op, ip) \/ Answers(op, ip)
  BY <1>1 DEF CallDone
<1>3. CASE Suspends(op, ip)
  BY <1>1, <1>3, NewFrameFields, StartedChild DEF CallDone, Suspends, ScriptFns
<1>4. CASE Answers(op, ip)
  BY <1>1, <1>4, TrackFields, NestedChild DEF CallDone, Answers
<1> QED BY <1>2, <1>3, <1>4
LEMMA TickChild ==
  ASSUME LInv, ChildOK, tick \/ NestedTick \/ TickStep
  PROVE  ChildOK'
<1>1. daemon' = daemon /\ IInv /\ rules' = rules
  BY DEF tick, NestedTick, TickStep, TickVisit, TickStale, TickDone, LInv
<1> SUFFICES ASSUME daemon = "up"
             PROVE  ChildOK'
  BY <1>1 DEF ChildOK
<1>2. CASE NestedTick
  <2>1. /\ frame' = Track(sessions') /\ UNCHANGED <<loop, code>>
        /\ proc' = proc \/ (~Busy /\ loop # "idle" /\ proc'.name # "gw_clean_up")
    <3>1. UNCHANGED runVars \/ \E ip : ExecRefused(Script(TickCall(sessions[ip]), ip, sessions))
      BY <1>2 DEF NestedTick
    <3>2. \A ip : Script(TickCall(sessions[ip]), ip, sessions).name # "gw_clean_up"
      BY ScriptName
    <3> QED BY <1>2, <3>1, <3>2 DEF NestedTick, ExecRefused, runVars
  <2> QED BY <1>1, <2>1, TrackFields, NestedChild
<1>3. CASE UNCHANGED runVars /\ frame.fn \in {"none", "tick"}
  <2>1. loop' = "idle" /\ proc' = proc
    BY <1>1, <1>3 DEF IInv, FrameOK, runVars
  <2> QED BY <1>1, <2>1, IdleChild
<1>4. ASSUME NEW ip \in IPs, TickVisit(ip), ~UNCHANGED runVars
      PROVE  ChildOK'
  <2> DEFINE fn == TickCall(sessions[ip])
  <2>1. /\ fn # "none" /\ proc' = Script(fn, ip, sessions) /\ loop' = "exec"
        /\ frame' = [frame EXCEPT !.fn = fn, !.ip = ip, !.todo = @ \ {ip}]
    BY <1>4 DEF TickVisit, ExecSuspends, quitNow
  <2>2. fn \in ScriptFns
    BY <2>1, TickCallFits DEF ScriptFns
  <2>3. frame'.fn = fn /\ frame'.ip = ip
    BY <1>1, <2>1 DEF IInv, TypeOK, Frames
  <2>4. sessions \in Maps /\ sessions[ip] # NoSession
    BY <1>1, <1>4, SameHarmless DEF TickVisit, IInv, TickPointersHeld, Records
  <2> HIDE DEF fn
  <2> QED BY <2>1, <2>2, <2>3, <2>4, StartedChild
<1> QED BY <1>2, <1>3, <1>4, NoFrameFields DEF tick, TickStep, TickVisit, TickStale, TickDone

LEMMA ResumeChild ==
  ASSUME LInv, ChildOK, Resume
  PROVE  ChildOK'
<1>1. CASE ResumeInit
  <2>1. /\ daemon = "starting" /\ loop' = "idle" /\ proc' = proc
    BY <1>1 DEF ResumeInit, Resumes, ExecReturns, LInv, LifeOK
  <2> QED BY <2>1 DEF LInv, LifeOK, ChildOK, Busy
<1>2. CASE ResumeCleanup
  BY <1>2 DEF ResumeCleanup, CleanedUp, ChildOK
<1>3. CASE ResumeStart \/ ResumePause \/ ResumeEnd \/ ResumeExhaust
  <2>1. IInv /\ frame.fn \in ScriptFns /\ daemon' = daemon
    BY <1>3, ResumeShape DEF LInv
  <2> SUFFICES ASSUME daemon = "up"
               PROVE  ChildOK'
    BY <2>1 DEF ChildOK
  <2>4. ~quitNow
    BY DEF quitNow
  <2>2. CASE Returns(code)
    BY <2>1, <2>2, IdleChild DEF Returns, ExecReturns
  <2>3. ASSUME NEW fn \in {"start", "end"}, GoesOn(fn, sessions), frame.fn \in {"pause", "exhaust"}
        PROVE  ChildOK'
    <3>1. /\ frame'.fn = fn /\ frame'.ip = frame.ip /\ proc' = Script(fn, frame.ip, sessions)
          /\ loop' = "exec" /\ fn \in ScriptFns
      BY <2>1, <2>3, <2>4, GoesOnFields DEF ScriptFns
    <3>2. frame.ip \in IPs /\ sessions \in Maps /\ sessions[frame.ip] # NoSession
      BY <2>1, <2>3, SameHarmless DEF IInv, SuspendedStateHeld, Records
    <3> QED BY <3>1, <3>2, StartedChild
  <2> QED BY <1>3, <2>1, <2>2, <2>3, <2>4, ResumeShape
<1> QED BY <1>1, <1>2, <1>3 DEF Resume

LEMMA ScriptChild ==
  ASSUME LInv, ChildOK, ScriptEffect \/ ScriptExits \/ ScriptFails
  PROVE  ChildOK'
<1> SUFFICES ASSUME daemon = "up"
             PROVE  ChildOK'
  BY DEF ScriptEffect, ScriptExits, ScriptFails, ChildOK
<1>1. Busy /\ TypeOK /\ UNCHANGED <<frame, daemon>> /\ proc \in Commands
      /\ proc.name # "gw_clean_up"
  BY DEF ScriptEffect, ScriptExits, ScriptFails, LInv, IInv, TypeOK, Busy, ChildOK
<1>2. CASE ScriptEffect
  <2>1. /\ rules' = After(proc) /\ proc' = [proc EXCEPT !.stage = "applied"]
        /\ UNCHANGED <<loop, code>>
    BY <1>2 DEF ScriptEffect
  <2>2. /\ proc'.name = proc.name /\ proc'.ip = proc.ip /\ proc'.bw = proc.bw
        /\ proc' \in Commands
    BY <1>1, <2>1 DEF Commands
  <2>3. Busy'
    BY <2>2, NoRecordAssumption DEF Busy
  <2>4. CASE loop = "exec"
    <3>1. Runs(frame.fn, frame.ip) /\ frame.ip \in IPs
      BY <2>4, ExecFields DEF ChildOK
    <3>2. Runs(frame.fn, frame.ip)'
      BY <1>1, <2>2, <2>3, <3>1 DEF Runs
    <3>3. Open(frame.ip)' = Grants(frame.fn)
      BY <1>1, <2>1, <3>1, AfterOpen DEF Runs, Grants, Open
    <3> QED BY <1>1, <2>1, <2>2, <2>4, <3>2, <3>3 DEF ChildOK, Open
  <2>5. CASE loop = "exited"
    <3>1. frame.ip \in IPs
      BY <2>5, ExecFields
    <3>2. frame.ip # proc.ip => Open(frame.ip)' = Open(frame.ip)
      BY <1>1, <2>1, <3>1, AfterOpen DEF Open
    <3> QED BY <1>1, <2>1, <2>2, <2>3, <2>5, <3>2 DEF ChildOK, Open
  <2>6. CASE loop = "idle"
    BY <1>1, <2>1, <2>2, <2>6 DEF ChildOK
  <2> QED BY <1>1, <2>4, <2>5, <2>6 DEF TypeOK
<1>3. CASE ScriptExits \/ ScriptFails
  <2>1. proc' = NoCmd /\ rules' = rules /\ loop' # "exec"
    BY <1>1, <1>3 DEF ScriptExits, ScriptFails, finishedInternalExec, TypeOK
  <2>2. ASSUME loop' = "exited", code' = 0
        PROVE  Open(frame.ip)' = Grants(frame.fn)
    <3>1. ScriptExits /\ loop = "exec"
      BY <1>3, <2>2 DEF ScriptExits, ScriptFails, finishedInternalExec, Failed
    <3> QED BY <1>1, <2>1, <3>1 DEF ChildOK, ScriptExits, Open
  <2> QED BY <1>1, <2>1, <2>2 DEF ChildOK, Busy, Open
<1> QED BY <1>2, <1>3

LEMMA ChildStep ==
  ASSUME LInv, ChildOK, [Next]_vars
  PROVE  ChildOK'
<1>1. CASE \E ip \in IPs : updateQuotaRemaining(ip)
  BY <1>1 DEF updateQuotaRemaining, runVars, ChildOK, Runs, Busy, Open
<1>2. CASE Boot \/ Quit \/ cleanup \/ Exit \/ SecondSignal \/ Crash
  <2>1. daemon' # "up"
    BY <1>2 DEF Boot, Quit, cleanup, CleanedUp, Exit, SecondSignal, Crash, Gone
  <2> QED BY <2>1 DEF ChildOK
<1>3. CASE UNCHANGED vars
  BY <1>3 DEF vars, ChildOK, Runs, Busy, Open
<1> QED BY <1>1, <1>2, <1>3, CallChild, TickChild, ResumeChild, ScriptChild DEF Next
-----------------------------------------------------------------------------
(* Records, in the steps of handlers that do not resume *)

Dispatched ==
  \/ Call \/ \E ip \in IPs : updateQuotaRemaining(ip)
  \/ tick \/ NestedTick \/ TickStep

\* A record appears in its first state, goes when it had ended or replaced one that had,
\* or keeps its state.
DispatchedMove(ip) ==
  /\ sessions[ip] # NoSession /\ sessions'[ip] = NoSession =>
       sessions[ip].state = "ENDED" \/ ip \in frame.freed
  /\ sessions[ip] = NoSession /\ sessions'[ip] # NoSession =>
       sessions'[ip].state = "UNINITIALIZED"
  /\ sessions[ip] # NoSession /\ sessions'[ip] # NoSession =>
       sessions'[ip].state = sessions[ip].state

LEMMA QuotaEventMoves ==
  ASSUME TypeOK, NEW h \in IPs, updateQuotaRemaining(h), NEW ip \in IPs
  PROVE  /\ sessions'[ip] = NoSession <=> sessions[ip] = NoSession
         /\ sessions[ip] # NoSession => sessions'[ip].state = sessions[ip].state
<1>1. /\ sessions' = [sessions EXCEPT ![h].quotaRemaining = Dec(@)]
      /\ sessions[h] \in Session /\ sessions \in Maps
  BY DEF updateQuotaRemaining, TypeOK, Records, Maps
<1>2. CASE ip = h
  <2>1. sessions'[ip] = [sessions[ip] EXCEPT !.quotaRemaining = Dec(@)]
    BY <1>1, <1>2 DEF Maps
  <2>2. Dec(sessions[ip].quotaRemaining) \in Quotas
    BY <1>1, <1>2, LimitsAssumption, DecBound DEF Session, Unlimited, Quotas, Dec
  <2> QED BY <1>1, <1>2, <2>1, <2>2, NoRecordAssumption DEF Session
<1>3. CASE ip # h
  BY <1>1, <1>3 DEF Maps
<1> QED BY <1>2, <1>3

LEMMA DispatchedMoves ==
  ASSUME LInv, Dispatched
  PROVE  /\ \A ip \in IPs : DispatchedMove(ip)
         /\ UNCHANGED <<daemon, rules>>
         /\ frame'.ip = frame.ip \/ frame.ip = NoIP
<1>1. IInv /\ TypeOK
  BY DEF LInv, IInv
<1>2. ASSUME Harmless(sessions'), NEW ip \in IPs,
             sessions[ip] = NoSession /\ sessions'[ip] # NoSession =>
               sessions'[ip].state = "UNINITIALIZED"
      PROVE  DispatchedMove(ip)
  BY <1>2 DEF Harmless, DispatchedMove
<1>3. CASE Call
  <2>1. Harmless(sessions') /\ CallDone
    BY <1>1, <1>3, CallHarmless, CallShape
  <2>2. PICK op \in Methods, h \in IPs \cup {NoIP} :
          CallRecords(op, h, sessions') /\ (Suspends(op, h) \/ Answers(op, h))
    BY <2>1 DEF CallDone
  <2>3. ASSUME NEW ip \in IPs, sessions[ip] = NoSession, sessions'[ip] # NoSession
        PROVE  sessions'[ip] = initSession
    BY <1>1, <2>2, <2>3 DEF CallRecords, removeSession, TypeOK, Records
  <2>4. frame'.ip = frame.ip \/ frame.ip = NoIP
    BY <1>1, <2>2, TrackFields, NoFrameFields DEF Suspends, Answers
  <2> QED BY <1>2, <2>1, <2>3, <2>4 DEF CallDone, initSession
<1>4. CASE \E h \in IPs : updateQuotaRemaining(h)
  BY <1>1, <1>4, QuotaEventMoves DEF DispatchedMove, updateQuotaRemaining
<1>5. CASE NestedTick
  <2>1. \A ip \in IPs : sessions[ip] = NoSession => sessions'[ip] = NoSession
    BY <1>5 DEF NestedTick, Records
  <2> QED BY <1>1, <1>2, <1>5, <2>1, TicksHarmless, TrackFields DEF NestedTick
<1>6. ASSUME NEW h \in IPs, TickVisit(h)
      PROVE  /\ \A ip \in IPs : DispatchedMove(ip)
             /\ UNCHANGED <<daemon, rules>> /\ frame.ip = NoIP
  <2>1. h \in Records /\ sessions' = [sessions EXCEPT ![h] = Visited(sessions, h)]
        /\ UNCHANGED <<daemon, rules>> /\ frame.fn = "tick"
    BY <1>1, <1>6 DEF TickVisit, IInv, TickPointersHeld
  <2>2. \A ip \in IPs : sessions[ip] = NoSession => sessions'[ip] = NoSession
    BY <1>1, <2>1 DEF TypeOK, Records
  <2>3. Harmless(sessions')
    BY <1>1, <1>6, TicksHarmless
  <2> QED BY <1>2, <2>1, <2>2, <2>3 DEF LInv, LifeOK
<1>7. CASE tick \/ TickDone
  <2>1. UNCHANGED <<sessions, daemon, rules>> /\ frame.fn \in {"none", "tick"}
    BY <1>7, NoFrameFields DEF tick, TickDone
  <2> QED BY <2>1 DEF DispatchedMove, LInv, LifeOK
<1>8. ASSUME NEW h \in IPs, TickStale(h)
      PROVE  /\ \A ip \in IPs : DispatchedMove(ip)
             /\ UNCHANGED <<daemon, rules>> /\ frame.ip = NoIP
  <2>1. /\ sessions' \in {sessions, removeSession(sessions, h)} /\ h \in frame.freed
        /\ UNCHANGED <<daemon, rules>> /\ frame.fn = "tick"
    BY <1>8 DEF TickStale
  <2>2. \A ip \in IPs : sessions'[ip] = sessions[ip] \/ (ip = h /\ sessions'[ip] = NoSession)
    BY <1>1, <2>1 DEF TypeOK, removeSession
  <2> QED BY <2>1, <2>2 DEF DispatchedMove, LInv, LifeOK
<1> QED BY <1>3, <1>4, <1>5, <1>6, <1>7, <1>8 DEF Dispatched, TickStep

\* What that is to the host's access: nothing.
LEMMA DispatchedAgree ==
  ASSUME LInv, Dispatched, NEW ip \in IPs, Agree(ip)
  PROVE  Agree(ip)'
<1>1. DispatchedMove(ip) /\ UNCHANGED <<daemon, rules>>
  BY DispatchedMoves
<1>2. Open(ip)' = Open(ip)
  BY <1>1 DEF Open
<1>3. StateOf(ip)' \in {StateOf(ip), "none", "UNINITIALIZED"}
  BY <1>1 DEF StateOf, DispatchedMove, Records
<1> QED BY <1>2, <1>3 DEF Agree, Promise!Agrees, Promise!Admitted, Promise!Revoked

-----------------------------------------------------------------------------
(* Records, in the steps of handlers that resume *)

HandlerResumes == ResumeStart \/ ResumePause \/ ResumeEnd \/ ResumeExhaust

\* The state that fn leaves its record in.
Target(fn) ==
  CASE fn = "start" -> "STARTED" [] fn = "pause" -> "PAUSED"
    [] fn = "end" -> "ENDED"     [] fn = "exhaust" -> "EXHAUSTED"

\* A handler whose record was not deleted changes that record alone, and that only when
\* its script succeeded: it enters its state, or goes when it ended.
LEMMA ResumeRecords ==
  ASSUME LInv, HandlerResumes, frame.ip \notin frame.freed
  PROVE  /\ frame.ip \in Records
         /\ \A ip \in IPs \ {frame.ip} : sessions'[ip] = sessions[ip]
         /\ code # 0 => sessions' = sessions
         /\ code = 0 =>
              \/ /\ sessions'[frame.ip] # NoSession
                 /\ sessions'[frame.ip].state = Target(frame.fn)
              \/ frame.fn = "end" /\ sessions'[frame.ip] = NoSession
<1>1. IInv /\ TypeOK /\ frame.fn \in ScriptFns /\ frame.ip \in IPs /\ sessions \in Maps
  BY ResumeShape DEF HandlerResumes, LInv, IInv, FrameOK, TypeOK, Maps
<1>2. frame.ip \in Records
  BY <1>1 DEF IInv, SuspendedStateHeld, ScriptFns
<1>3. sessions[frame.ip] \in Session
  BY <1>1, <1>2 DEF TypeOK, Records
<1>4. Entered(frame.fn, sessions[frame.ip]) # NoSession
      /\ Entered(frame.fn, sessions[frame.ip]).state = Target(frame.fn)
  <2>1. Entered(frame.fn, sessions[frame.ip]) \in Session
    BY <1>1, <1>3, EnteredRecord
  <2> QED BY <1>1, <1>3, <2>1, EnteredRecord, NoRecordAssumption DEF Target, ScriptFns
<1>5. \/ /\ sessions' = Resumed(frame.fn)
      \/ /\ frame.fn = "end" /\ code = 0 /\ sessions' = removeSession(sessions, frame.ip)
  BY DEF HandlerResumes, ResumeStart, ResumePause, ResumeEnd, ResumeExhaust, Resumes
<1>6. CASE sessions' = Resumed(frame.fn)
  BY <1>1, <1>2, <1>4, <1>6 DEF Resumed, Maps
<1>7. CASE frame.fn = "end" /\ code = 0 /\ sessions' = removeSession(sessions, frame.ip)
  BY <1>1, <1>2, <1>7 DEF removeSession, Maps
<1> QED BY <1>5, <1>6, <1>7

-----------------------------------------------------------------------------
(* The records that were deleted under a suspended handler *)

LEMMA FreedDispatched ==
  ASSUME LInv, FreedOK, Dispatched
  PROVE  FreedOK'
<1>1. IInv /\ TypeOK /\ frame \in Frames
  BY DEF LInv, IInv, TypeOK
<1> DEFINE Lost == {ip \in IPs : sessions[ip] # NoSession /\ sessions'[ip] = NoSession}
<1>2. /\ frame'.freed \subseteq frame.freed \cup Lost
      /\ frame'.ip = frame.ip \/ frame'.ip \notin frame'.freed
  <2>1. CASE Call
    <3>1. \E op, h : Suspends(op, h) \/ Answers(op, h)
      BY <1>1, <2>1, CallShape DEF CallDone
    <3> QED BY <1>1, <3>1, TrackFields, NewFrameFields DEF Suspends, Answers, Held
  <2>2. CASE NestedTick
    BY <1>1, <2>2, TrackFields DEF NestedTick, Held
  <2>3. CASE \E ip \in IPs : updateQuotaRemaining(ip)
    BY <2>3 DEF updateQuotaRemaining
  <2>4. CASE tick \/ TickDone
    <3>1. frame'.freed = {}
      BY <2>4, TickFields, NoFrameFields DEF tick, TickDone
    <3> QED BY <3>1
  <2>5. ASSUME NEW h \in IPs, TickVisit(h)
        PROVE  frame'.freed = frame.freed /\ frame'.ip \in {frame.ip, h} /\ h \notin frame.freed
    <3>1. \/ frame' = [frame EXCEPT !.todo = @ \ {h}]
          \/ \E fn : frame' = [frame EXCEPT !.fn = fn, !.ip = h, !.todo = @ \ {h}]
      BY <2>5 DEF TickVisit
    <3> QED BY <1>1, <2>5, <3>1 DEF TickVisit, Frames
  <2>6. ASSUME NEW h \in IPs, TickStale(h)
        PROVE  frame'.freed = frame.freed /\ frame'.ip = frame.ip
    <3>1. \E F : frame' = [frame EXCEPT !.todo = @ \ {h}, !.fresh = F]
      BY <2>6 DEF TickStale
    <3> QED BY <1>1, <3>1 DEF Frames
  <2> QED BY <2>1, <2>2, <2>3, <2>4, <2>5, <2>6 DEF Dispatched, TickStep
<1> SUFFICES ASSUME NEW ip \in frame'.freed, ip = frame'.ip \/ "reuse" \notin Hazards
             PROVE  Blank(ip)'
  BY DEF FreedOK
<1>3. CASE ip \in frame.freed
  <2>1. Blank(ip) /\ ip \in IPs
    BY <1>1, <1>2, <1>3 DEF FreedOK, Frames
  <2>2. DispatchedMove(ip)
    BY <2>1, DispatchedMoves
  <2> QED BY <2>1, <2>2 DEF Blank, DispatchedMove
<1>4. CASE ip \in Lost
  BY <1>4 DEF Blank
<1> QED BY <1>2, <1>3, <1>4

LEMMA FreedResumes ==
  ASSUME LInv, FreedOK, HandlerResumes
  PROVE  FreedOK'
<1>1. IInv /\ TypeOK /\ frame \in Frames /\ NoIP \notin frame.freed
      /\ frame.fn \in ScriptFns
  BY ResumeShape, NoIPAssumption DEF LInv, IInv, TypeOK, Frames, HandlerResumes
<1>2. /\ frame'.freed \in {frame.freed, {}}
      /\ frame'.ip = NoIP \/ (frame'.ip = frame.ip /\ frame.fn \in {"pause", "exhaust"})
  BY <1>1, ResumeShape, HandsFields, GoesOnFields, NoFrameFields
     DEF HandlerResumes, ScriptFns, Returns
<1>3. frame'.ip \notin frame'.freed
  BY <1>1, <1>2 DEF IInv, SuspendedStateHeld
<1> SUFFICES ASSUME NEW ip \in frame.freed, "reuse" \notin Hazards
             PROVE  Blank(ip)'
  BY <1>2, <1>3 DEF FreedOK
<1>4. Blank(ip) /\ ip \in IPs
  BY <1>1 DEF FreedOK, Frames
<1>5. sessions'[ip] = sessions[ip]
  <2>1. CASE frame.ip \in frame.freed
    <3>1. frame.fn = "start"
      BY <1>1, <2>1 DEF IInv, SuspendedStateHeld, ScriptFns
    <3> QED BY <2>1, <3>1 DEF HandlerResumes, ResumeStart, ResumePause, ResumeEnd,
               ResumeExhaust, Resumes
  <2>2. CASE frame.ip \notin frame.freed
    BY <1>4, <2>2, ResumeRecords
  <2> QED BY <2>1, <2>2
<1> QED BY <1>4, <1>5 DEF Blank

LEMMA FreedStep ==
  ASSUME LInv, FreedOK, [Next]_vars
  PROVE  FreedOK'
<1>1. CASE frame'.freed = {}
  BY <1>1 DEF FreedOK
<1>2. CASE UNCHANGED <<sessions, frame>>
  BY <1>2 DEF FreedOK, Blank
<1>3. CASE \/ ScriptEffect \/ ScriptExits \/ ScriptFails \/ ResumeInit \/ ResumeCleanup
           \/ Boot \/ Quit \/ cleanup \/ Exit \/ SecondSignal \/ Crash
  BY <1>1, <1>2, <1>3, NoFrameFields, NewFrameFields
     DEF ScriptEffect, ScriptExits, ScriptFails, ResumeInit, ResumeCleanup, Boot, Quit,
         cleanup, CleanedUp, Exit, SecondSignal, Crash, Gone
<1> QED BY <1>2, <1>3, FreedDispatched, FreedResumes
        DEF Next, Resume, Dispatched, HandlerResumes, vars

LEMMA GateStep == GInv /\ [Next]_vars => GInv'
BY LifeStep, ChildStep, FreedStep DEF GInv

LEMMA GateFirst == Init => GInv
BY InitInv, NoFrameFields DEF Init, GInv, LInv, LifeOK, ChildOK, FreedOK

LEMMA GateInvariant == Spec => []GInv
BY GateFirst, GateStep, PTL DEF Spec
-----------------------------------------------------------------------------
(* The access that a handler which resumes leaves *)

\* A script that succeeded has given its host the access of the state that is entered.
LEMMA CommitAgrees ==
  ASSUME LInv, HandlerResumes, NEW ip \in IPs, ip = frame.ip, ip \notin frame.freed, code = 0,
         Open(ip) = Grants(frame.fn)
  PROVE  Agree(ip)'
<1>1. frame.fn \in ScriptFns /\ UNCHANGED <<daemon, rules>>
  BY ResumeShape DEF HandlerResumes, LInv
<1>2. Open(ip)' = Grants(frame.fn)
  BY <1>1 DEF Open
<1>3. StateOf(ip)' = "none" \/ StateOf(ip)' = Target(frame.fn)
  BY <1>1, ResumeRecords DEF StateOf, Records
<1>4. Promise!Agrees(StateOf(ip)', Open(ip)')
  BY <1>1, <1>2, <1>3 DEF Promise!Agrees, Promise!Admitted, Promise!Revoked, Target, Grants,
     ScriptFns
<1> QED BY <1>4 DEF Agree

-----------------------------------------------------------------------------
(* Where access and state come apart *)

\* The daemon comes up when the script of its constructor returns.
LEMMA ComesUp ==
  ASSUME LInv, [Next]_vars, daemon # "up", daemon' = "up"
  PROVE  ResumeInit
<1>1. ~Dispatched
  BY DispatchedMoves
<1>2. ~HandlerResumes
  BY ResumeShape DEF HandlerResumes, LInv
<1>3. ~(ScriptEffect \/ ScriptExits \/ ScriptFails \/ UNCHANGED vars)
  BY DEF ScriptEffect, ScriptExits, ScriptFails, vars
<1>4. ~(ResumeCleanup \/ Boot \/ Quit \/ cleanup \/ Exit \/ SecondSignal \/ Crash)
  BY DEF ResumeCleanup, CleanedUp, Boot, Quit, cleanup, Exit, SecondSignal, Crash, Gone
<1> QED BY <1>1, <1>2, <1>3, <1>4 DEF Next, Dispatched, Resume, HandlerResumes

\* A daemon that is not up knows no sessions, and one that comes up has none yet.
LEMMA OffAgrees ==
  ASSUME LInv, [Next]_vars, ~(daemon = "up" /\ daemon' = "up"), NEW ip \in IPs
  PROVE  StateOf(ip)' = "none" /\ Agree(ip)'
<1>1. StateOf(ip)' = "none"
  <2>1. CASE daemon' # "up"
    BY <2>1 DEF StateOf
  <2>2. CASE daemon # "up" /\ daemon' = "up"
    <3>1. ResumeInit
      BY <2>2, ComesUp
    <3>2. sessions' = NoSessions
      BY <3>1 DEF ResumeInit, Resumes, LInv, LifeOK
    <3> QED BY <3>2 DEF StateOf, Records, NoSessions
  <2> QED BY <2>1, <2>2
<1> QED BY <1>1 DEF Agree, Promise!Agrees, Promise!Admitted, Promise!Revoked

\* The steps of a daemon that stays up.
LEMMA UpSteps ==
  ASSUME [Next]_vars, daemon = "up", daemon' = "up", LInv
  PROVE  \/ Dispatched \/ HandlerResumes
         \/ ScriptEffect \/ ScriptExits \/ ScriptFails
         \/ UNCHANGED vars
BY DEF Next, Dispatched, HandlerResumes, Resume, ResumeInit, Resumes, ResumeCleanup, CleanedUp,
   Boot, Quit, cleanup, Exit, SecondSignal, Crash, Gone, LInv, LifeOK

\* Whatever scripts fail, time out or go on alone, whatever is dispatched late and whose
\* address is used again: access and state of a host come apart when a handler goes on
\* whose script failed, when a child no one waits for changes the rules, or when a record
\* was deleted under startSession(), and at no other moment.
THEOREM PartedOnlyByFailure == Spec => PartedByFailureOnly
<1> DEFINE Excused(ip) ==
             \/ frame.ip = ip /\ loop = "exited" /\ code = Failed
             \/ Busy /\ proc.ip = ip /\ loop # "exec"
             \/ frame.ip \in frame.freed
           Parted == \A ip \in IPs : InOrder(ip) /\ ~InOrder(ip)' => Excused(ip)
<1>1. GInv /\ [Next]_vars => [Parted]_vars
  <2> SUFFICES ASSUME GInv, Next, NEW ip \in IPs, InOrder(ip), ~InOrder(ip)', ~Excused(ip)
               PROVE  FALSE
    OBVIOUS
  <2>1. LInv /\ IInv /\ TypeOK /\ ChildOK
    BY DEF GInv, LInv, IInv
  <2>2. frame.ip = ip \/ Agree(ip)
    BY DEF InOrder, Agree, Open
  <2>3. frame'.ip # ip /\ ~Agree(ip)'
    BY DEF InOrder, Agree, Open
  <2>4. daemon = "up" /\ daemon' = "up"
    BY <2>1, <2>3, OffAgrees
  <2>5. CASE Dispatched
    <3>1. Agree(ip)
      BY <2>1, <2>2, <2>3, <2>5, DispatchedMoves, NoIPAssumption
    <3> QED BY <2>1, <2>3, <2>5, <3>1, DispatchedAgree
  <2>6. CASE HandlerResumes
    <3>1. loop = "exited" /\ frame.ip \notin frame.freed /\ UNCHANGED <<daemon, rules>>
      BY <2>1, <2>6, ResumeShape DEF HandlerResumes
    <3>2. CASE frame.ip = ip
      <4>1. code = 0
        BY <2>1, <3>1, <3>2 DEF TypeOK
      <4>2. Open(ip) = Grants(frame.fn)
        BY <2>1, <2>4, <3>1, <3>2, <4>1 DEF ChildOK
      <4> QED BY <2>1, <2>3, <2>6, <3>1, <3>2, <4>1, <4>2, CommitAgrees
    <3>3. CASE frame.ip # ip
      <4>1. sessions'[ip] = sessions[ip]
        BY <2>1, <2>6, <3>1, <3>3, ResumeRecords
      <4> QED BY <2>2, <2>3, <3>1, <3>3, <4>1 DEF Agree, StateOf, Open, Records
    <3> QED BY <3>2, <3>3
  <2>7. CASE ScriptEffect
    <3>1. Busy /\ rules' = After(proc) /\ UNCHANGED <<sessions, frame, daemon>>
      BY <2>7 DEF ScriptEffect
    <3>2. proc.name # "gw_clean_up" /\ ip # proc.ip
      BY <2>1, <2>3, <2>4, <3>1 DEF ChildOK, Runs
    <3>3. Open(ip)' = Open(ip)
      BY <2>1, <3>1, <3>2, AfterOpen
    <3> QED BY <2>2, <2>3, <3>1, <3>3 DEF Agree, StateOf, Records
  <2>8. CASE ScriptExits \/ ScriptFails
    <3>1. UNCHANGED <<sessions, frame, daemon, rules>>
      BY <2>8 DEF ScriptExits, ScriptFails
    <3> QED BY <2>2, <2>3, <3>1 DEF Agree, StateOf, Records, Open
  <2>9. CASE UNCHANGED vars
    BY <2>2, <2>3, <2>9 DEF Agree, StateOf, Records, Open, vars
  <2> QED BY <2>1, <2>4, <2>5, <2>6, <2>7, <2>8, <2>9, UpSteps
<1> QED BY <1>1, GateInvariant, PTL DEF Spec, PartedByFailureOnly

-----------------------------------------------------------------------------
(* When nothing goes wrong but scripts that change nothing, quits and crashes *)

Orderly == Hazards \cap {"dirty", "late", "reuse"} = {}

\* No child goes on alone but gw_init's, which a signal cut short, and a script that has
\* not had its effect, or failed, has left its host as it was.
PendingOK ==
  daemon = "up" =>
    /\ loop = "exited" => ~Busy
    /\ loop = "idle" /\ Busy => proc.name = "gw_init"
    /\ \/ loop = "exec" /\ proc.stage = "running"
       \/ loop = "exited" /\ code # 0
       => Agree(frame.ip)

OthersOK == daemon = "up" => \A ip \in IPs \ {frame.ip} : Agree(ip)

AInv == GInv /\ PendingOK /\ OthersOK

LEMMA AgreeSame ==
  ASSUME UNCHANGED <<sessions, daemon, rules>>, NEW ip, Agree(ip)
  PROVE  Agree(ip)'
<1>1. StateOf(ip)' = StateOf(ip) /\ Open(ip)' = Open(ip)
  BY DEF StateOf, Records, Open
<1> QED BY <1>1 DEF Agree

\* A handler whose script starts, with a host that agrees.
LEMMA StartedPending ==
  ASSUME NEW ip \in IPs, frame'.ip = ip, loop' = "exec", Agree(ip)'
  PROVE  PendingOK'
BY DEF PendingOK, Agree

\* A handler that is dispatched and leaves the child and its host alone.
LEMMA NestedPending ==
  ASSUME LInv, ChildOK, PendingOK, Dispatched, daemon = "up", loop # "exited",
         frame'.ip = frame.ip, UNCHANGED <<proc, loop, code>>
  PROVE  PendingOK'
<1>1. ASSUME loop = "exec", proc.stage = "running"
      PROVE  Agree(frame.ip)'
  <2>1. PICK ip \in IPs : ip = frame.ip
    BY <1>1, ExecFields
  <2>2. Agree(ip)'
    BY <1>1, <2>1, DispatchedAgree DEF PendingOK
  <2> QED BY <2>1, <2>2 DEF Agree
<1> QED BY <1>1, DispatchedMoves DEF PendingOK, Busy

LEMMA DispatchedPending ==
  ASSUME Orderly, AInv, Dispatched, daemon = "up"
  PROVE  PendingOK'
<1>1. LInv /\ IInv /\ ChildOK /\ PendingOK /\ frame \in Frames
  BY DEF AInv, GInv, LInv, IInv, TypeOK
<1>2. EventsDispatched => loop # "exited" /\ (loop = "idle" <=> frame = NoFrame \/ frame.fn = "tick")
  BY <1>1, NoFrameFields DEF EventsDispatched, Orderly, IInv, FrameOK
<1>3. \A ip \in IPs : frame.ip = NoIP => Agree(ip)'
  BY <1>1, NoIPAssumption, DispatchedAgree DEF AInv, OthersOK
<1>4. loop = "exec" => Busy
  BY <1>1 DEF ChildOK, Runs
<1>5. CASE Call
  <2>1. CallDone
    BY <1>1, <1>5, CallShape
  <2>2. PICK op \in Methods, ip \in IPs \cup {NoIP} : Suspends(op, ip) \/ Answers(op, ip)
    BY <2>1 DEF CallDone
  <2>3. CASE Suspends(op, ip)
    BY <1>3, <2>3, NewFrameFields, NoFrameFields, StartedPending DEF Suspends
  <2>4. CASE Answers(op, ip)
    <3>1. loop # "exited" /\ frame'.ip = frame.ip /\ UNCHANGED <<proc, loop, code>>
      <4>1. loop # "exited" /\ (Busy \/ loop = "idle")
        BY <1>1, <1>2, <1>4, <2>1 DEF CallDone, IInv, TypeOK
      <4> QED BY <1>1, <2>4, <4>1, TrackFields DEF Answers
    <3> QED BY <1>1, <3>1, NestedPending
  <2> QED BY <2>2, <2>3, <2>4
<1>6. CASE \E ip \in IPs : updateQuotaRemaining(ip)
  BY <1>1, <1>2, <1>6, NestedPending DEF updateQuotaRemaining, runVars
<1>7. CASE NestedTick
  <2>1. loop # "exited" /\ Busy
    BY <1>1, <1>2, <1>4, <1>7 DEF NestedTick, EventsDispatched, Orderly
  <2>2. frame'.ip = frame.ip /\ UNCHANGED <<proc, loop, code>>
    BY <1>1, <1>7, <2>1, TrackFields DEF NestedTick, ExecRefused, runVars
  <2> QED BY <1>1, <2>1, <2>2, NestedPending
<1>8. CASE UNCHANGED runVars /\ frame.fn \in {"none", "tick"}
  <2>1. loop = "idle" /\ daemon' = "up"
    BY <1>1, <1>8, DispatchedMoves DEF IInv, FrameOK
  <2> QED BY <1>1, <1>8, <2>1 DEF PendingOK, runVars, Busy
<1>9. ASSUME NEW ip \in IPs, TickVisit(ip), ~UNCHANGED runVars
      PROVE  PendingOK'
  <2>1. loop' = "exec" /\ frame'.ip = ip /\ frame.ip = NoIP
    BY <1>1, <1>9 DEF TickVisit, ExecSuspends, Frames, LInv, LifeOK, quitNow
  <2> QED BY <1>3, <2>1, StartedPending
<1> QED BY <1>5, <1>6, <1>7, <1>8, <1>9, NoFrameFields
        DEF Dispatched, tick, TickStep, TickVisit, TickStale, TickDone

LEMMA ResumePending ==
  ASSUME AInv, HandlerResumes, daemon = "up"
  PROVE  PendingOK'
<1>1. LInv /\ IInv /\ ChildOK /\ PendingOK /\ loop = "exited" /\ frame.fn \in ScriptFns
      /\ UNCHANGED <<daemon, rules>> /\ ~Busy /\ ~quitNow
  BY ResumeShape DEF AInv, GInv, LInv, HandlerResumes, PendingOK, quitNow
<1>2. CASE Returns(code)
  BY <1>1, <1>2 DEF Returns, ExecReturns, PendingOK, Busy
<1>3. ASSUME frame.fn \in {"pause", "exhaust"}, NEW fn \in {"start", "end"}, GoesOn(fn, sessions)
      PROVE  PendingOK'
  <2>1. PICK ip \in IPs : ip = frame.ip
    BY <1>1 DEF IInv, FrameOK
  <2>2. ip \notin frame.freed /\ frame'.ip = ip /\ loop' = "exec"
    BY <1>1, <1>3, <2>1, GoesOnFields DEF IInv, SuspendedStateHeld, ScriptFns
  <2>3. CASE code = 0
    BY <1>1, <2>1, <2>2, <2>3, CommitAgrees, StartedPending DEF ChildOK
  <2>4. CASE code # 0
    <3>1. sessions' = sessions /\ Agree(ip)
      BY <1>1, <2>1, <2>2, <2>4, ResumeRecords DEF PendingOK
    <3> QED BY <1>1, <2>2, <3>1, AgreeSame, StartedPending
  <2> QED BY <2>3, <2>4
<1> QED BY <1>1, <1>2, <1>3, ResumeShape DEF HandlerResumes

LEMMA ScriptPending ==
  ASSUME Orderly, AInv, ScriptEffect \/ ScriptExits \/ ScriptFails, daemon = "up"
  PROVE  PendingOK'
<1>1. LInv /\ ChildOK /\ PendingOK /\ Busy /\ UNCHANGED <<sessions, frame, daemon>>
      /\ proc \in Commands /\ loop \in {"idle", "exec"}
  BY DEF AInv, GInv, LInv, IInv, TypeOK, PendingOK, Busy, ScriptEffect, ScriptExits, ScriptFails
<1>2. CASE ScriptEffect
  <2>1. proc'.name = proc.name /\ proc'.stage = "applied" /\ UNCHANGED <<loop, code>>
    BY <1>1, <1>2 DEF ScriptEffect, Commands
  <2> QED BY <1>1, <2>1 DEF PendingOK
<1>3. CASE ScriptExits \/ ScriptFails
  <2>1. proc' = NoCmd /\ loop' # "exec" /\ rules' = rules
    BY <1>1, <1>3 DEF ScriptExits, ScriptFails, finishedInternalExec
  <2>2. ASSUME loop' = "exited", code' # 0
        PROVE  Agree(frame.ip)'
    <3>1. loop = "exec" /\ proc.stage = "running"
      BY <1>1, <1>3, <2>2 DEF ScriptExits, ScriptFails, finishedInternalExec, Orderly
    <3>2. Agree(frame.ip)
      BY <1>1, <3>1 DEF PendingOK
    <3>3. PICK ip \in IPs : ip = frame.ip
      BY <1>1, <3>1, ExecFields
    <3>4. Agree(ip)'
      BY <1>1, <2>1, <3>2, <3>3, AgreeSame
    <3> QED BY <1>1, <3>3, <3>4 DEF Agree
  <2> QED BY <2>1, <2>2 DEF PendingOK, Busy
<1> QED BY <1>2, <1>3

LEMMA PendingStep ==
  ASSUME Orderly, AInv, [Next]_vars
  PROVE  PendingOK'
<1>1. CASE daemon = "up" /\ daemon' = "up"
  <2>1. CASE UNCHANGED vars
    BY <2>1 DEF vars, AInv, PendingOK, Busy, Agree, StateOf, Records, Open
  <2> QED BY <1>1, <2>1, UpSteps, DispatchedPending, ResumePending, ScriptPending DEF AInv, GInv
<1>2. CASE daemon # "up" /\ daemon' = "up"
  <2>1. daemon = "starting" /\ loop' = "idle" /\ proc' = proc
    BY <1>2, ComesUp DEF ResumeInit, Resumes, ExecReturns, AInv, GInv, LInv, LifeOK
  <2> QED BY <2>1 DEF AInv, GInv, LInv, LifeOK, PendingOK, Busy
<1>3. CASE daemon' # "up"
  BY <1>3 DEF PendingOK
<1> QED BY <1>1, <1>2, <1>3
-----------------------------------------------------------------------------
(* The steps of Gate *)

\* The gateway as Gate sees it, in states in which the daemon is up.
LEMMA GateForget ==
  ASSUME daemon = "up", daemon' = "up", frame'.ip = frame.ip, rules' = rules,
         \A ip \in IPs : \/ StateOf(ip)' = StateOf(ip)
                         \/ /\ StateOf(ip) \in {"ENDED", "UNINITIALIZED"}
                            /\ StateOf(ip)' = "none"
  PROVE  Promise!Forget
<1> DEFINE st == [ip \in IPs |-> StateOf(ip)]
           H == {ip \in IPs : /\ StateOf(ip) \in {"ENDED", "UNINITIALIZED"}
                              /\ StateOf(ip)' = "none"}
<1>1. H \in SUBSET {h \in IPs : st[h] \in {"ENDED", "UNINITIALIZED"}}
  OBVIOUS
<1>2. [ip \in IPs |-> StateOf(ip)]' = [h \in IPs |-> IF h \in H THEN "none" ELSE st[h]]
  OBVIOUS
<1>3. UNCHANGED <<daemon = "up", [ip \in IPs |-> rules[ip] # NoRule],
                  IF daemon = "up" THEN frame.ip ELSE NoIP>>
  OBVIOUS
<1> QED BY <1>1, <1>2, <1>3 DEF Promise!Forget

LEMMA GateCreate ==
  ASSUME daemon = "up", daemon' = "up", frame'.ip = frame.ip, rules' = rules,
         NEW h \in IPs, StateOf(h) = "none", StateOf(h)' = "UNINITIALIZED",
         \A ip \in IPs \ {h} : StateOf(ip)' = StateOf(ip)
  PROVE  Promise!Create(h)
<1> DEFINE st == [ip \in IPs |-> StateOf(ip)]
<1>1. [ip \in IPs |-> StateOf(ip)]' = [st EXCEPT ![h] = "UNINITIALIZED"] /\ st[h] = "none"
  OBVIOUS
<1>2. UNCHANGED <<daemon = "up", [ip \in IPs |-> rules[ip] # NoRule],
                  IF daemon = "up" THEN frame.ip ELSE NoIP>>
  OBVIOUS
<1> QED BY <1>1, <1>2 DEF Promise!Create

LEMMA GateBegin ==
  ASSUME daemon = "up", daemon' = "up", frame.ip = NoIP, rules' = rules,
         NEW h \in IPs, frame'.ip = h,
         StateOf(h)' = IF StateOf(h) = "none" THEN "UNINITIALIZED" ELSE StateOf(h),
         \A ip \in IPs \ {h} : StateOf(ip)' = StateOf(ip)
  PROVE  Promise!Begin(h)
<1> DEFINE st == [ip \in IPs |-> StateOf(ip)]
<1>1. [ip \in IPs |-> StateOf(ip)]' =
        [st EXCEPT ![h] = IF st[h] = "none" THEN "UNINITIALIZED" ELSE st[h]]
  OBVIOUS
<1>2. UNCHANGED <<daemon = "up", [ip \in IPs |-> rules[ip] # NoRule]>>
  OBVIOUS
<1> QED BY <1>1, <1>2 DEF Promise!Begin

LEMMA GateSwitch ==
  ASSUME daemon = "up", daemon' = "up", UNCHANGED <<sessions, frame>>, frame.ip \in IPs,
         \A ip \in IPs \ {frame.ip} : Open(ip)' = Open(ip)
  PROVE  Promise!Switch
<1> DEFINE open == [ip \in IPs |-> rules[ip] # NoRule]
           o == Open(frame.ip)'
<1>1. [ip \in IPs |-> rules[ip] # NoRule]' = [open EXCEPT ![frame.ip] = o] /\ o \in BOOLEAN
  BY DEF Open
<1>2. UNCHANGED <<daemon = "up", [ip \in IPs |-> StateOf(ip)],
                  IF daemon = "up" THEN frame.ip ELSE NoIP>>
  BY DEF StateOf, Records
<1>3. frame.ip # NoIP
  BY NoIPAssumption
<1> HIDE DEF o
<1> QED BY <1>1, <1>2, <1>3 DEF Promise!Switch

LEMMA GateSettle ==
  ASSUME daemon = "up", daemon' = "up", rules' = rules, NEW h \in IPs, frame.ip = h,
         frame'.ip \in {NoIP, h},
         \A ip \in IPs \ {h} : StateOf(ip)' = StateOf(ip),
         NEW s \in States \cup {"none"}, StateOf(h)' = s,
         \/ s = StateOf(h)
         \/ <<StateOf(h), s>> \in Promise!Moves
         \/ s = "none" /\ <<StateOf(h), "ENDED">> \in Promise!Moves /\ ~Open(h),
         Promise!Agrees(s, Open(h))
  PROVE  Promise!Settle
<1> DEFINE st == [ip \in IPs |-> StateOf(ip)]
           open == [ip \in IPs |-> rules[ip] # NoRule]
<1>1. [ip \in IPs |-> StateOf(ip)]' = [st EXCEPT ![h] = s]
  OBVIOUS
<1>2. st[h] = StateOf(h) /\ open[h] = Open(h) /\ h # NoIP
  BY NoIPAssumption DEF Open
<1>3. s \in {"none", "UNINITIALIZED"} \cup Promise!Revoked \cup Promise!Admitted
  BY DEF States, Promise!Revoked, Promise!Admitted
<1>4. UNCHANGED <<daemon = "up", open>>
        /\ (IF daemon = "up" THEN frame.ip ELSE NoIP)' \in {NoIP, frame.ip}
  OBVIOUS
<1> HIDE DEF st
<1> QED BY <1>1, <1>2, <1>3, <1>4 DEF Promise!Settle, st

LEMMA GateStutter ==
  ASSUME daemon = "up", daemon' = "up", frame'.ip = frame.ip,
         \A ip \in IPs : StateOf(ip)' = StateOf(ip) /\ Open(ip)' = Open(ip)
  PROVE  UNCHANGED Promise!gateVars
BY DEF Promise!gateVars, Open

LEMMA GateOff ==
  ASSUME daemon' # "up"
  PROVE  Promise!Off
<1>1. [ip \in IPs |-> StateOf(ip)]' = [ip \in IPs |-> "none"]
  BY DEF StateOf
<1>2. [ip \in IPs |-> rules[ip] # NoRule]' \in [IPs -> BOOLEAN]
  OBVIOUS
<1> QED BY <1>1, <1>2 DEF Promise!Off, Promise!AllNone

LEMMA GateTurnOn ==
  ASSUME LInv, [Next]_vars, daemon # "up", daemon' = "up"
  PROVE  Promise!TurnOn
<1>1. ResumeInit
  BY ComesUp
<1>2. rules' = rules /\ frame'.ip = NoIP
  BY <1>1, NoFrameFields DEF ResumeInit, Resumes
<1>3. \A ip \in IPs : StateOf(ip) = "none" /\ StateOf(ip)' = "none"
  BY OffAgrees DEF StateOf
<1>4. UNCHANGED <<[ip \in IPs |-> StateOf(ip)], [ip \in IPs |-> rules[ip] # NoRule],
                  IF daemon = "up" THEN frame.ip ELSE NoIP>>
  BY <1>2, <1>3
<1> QED BY <1>4 DEF Promise!TurnOn

-----------------------------------------------------------------------------
(* Every step of Controller is one of these *)

GateMove == Promise!Next \/ UNCHANGED Promise!gateVars

\* No state of a record is that of a host without one.
LEMMA StateNone ==
  ASSUME TypeOK, NEW ip \in IPs
  PROVE  StateOf(ip) = "none" <=> ~(daemon = "up" /\ sessions[ip] # NoSession)
BY DEF TypeOK, StateOf, Records, Session, States

LEMMA StateTypes ==
  ASSUME TypeOK, NEW ip \in IPs
  PROVE  StateOf(ip) \in States \cup {"none"}
BY DEF TypeOK, StateOf, Records, Session
\* How a record that a dispatched handler leaves looks from Gate.
LEMMA MoveStates ==
  ASSUME Orderly, LInv, FreedOK, Dispatched, daemon = "up", NEW ip \in IPs
  PROVE  /\ daemon' = "up" /\ rules' = rules
         /\ \/ StateOf(ip)' = StateOf(ip)
            \/ StateOf(ip) \in {"ENDED", "UNINITIALIZED"} /\ StateOf(ip)' = "none"
            \/ sessions[ip] = NoSession /\ StateOf(ip) = "none" /\ StateOf(ip)' = "UNINITIALIZED"
         /\ sessions'[ip] = NoSession => StateOf(ip)' = "none"
         /\ sessions'[ip] = sessions[ip] => StateOf(ip)' = StateOf(ip)
<1>1. DispatchedMove(ip) /\ daemon' = "up" /\ rules' = rules
  BY DispatchedMoves
<1>2. ip \in frame.freed => Blank(ip)
  BY DEF FreedOK, Orderly
<1> QED BY <1>1, <1>2 DEF DispatchedMove, StateOf, Records, Blank

LEMMA CallMove ==
  ASSUME Orderly, LInv, FreedOK, Call, daemon = "up"
  PROVE  GateMove
<1>1. IInv /\ TypeOK /\ CallDone /\ Dispatched
  BY CallShape DEF LInv, IInv, Dispatched
<1>2. PICK op \in Methods, h \in IPs \cup {NoIP} :
        CallRecords(op, h, sessions') /\ (Suspends(op, h) \/ Answers(op, h))
  BY <1>1 DEF CallDone
<1>3. daemon' = "up" /\ rules' = rules
  BY <1>1 DEF CallDone
<1>4. \A ip \in IPs \ {h} : StateOf(ip)' = StateOf(ip)
  <2>1. \A ip \in IPs \ {h} : sessions'[ip] = sessions[ip]
    BY <1>1, <1>2 DEF CallRecords, TypeOK, removeSession
  <2> QED BY <1>1, <2>1, MoveStates
<1>5. CASE Suspends(op, h)
  <2>1. h \in IPs /\ frame.ip = NoIP /\ frame'.ip = h /\ sessions'[h] # NoSession
    BY <1>5, NoFrameFields, NewFrameFields DEF Suspends
  <2>2. StateOf(h)' # "none"
    <3>1. sessions' \in Maps
      <4>1. IInv'
        BY <1>1, CallInv
      <4> QED BY <4>1 DEF IInv, TypeOK, Maps
    <3>2. StateOf(h)' = sessions'[h].state /\ sessions'[h].state \in States
      <4>1. sessions'[h] \in Session /\ h \in Records' /\ daemon' = "up"
        BY <1>3, <2>1, <3>1 DEF Maps, Records, StateOf
      <4>2. sessions'[h].state \in States
        BY <4>1 DEF Session
      <4> QED BY <4>1, <4>2 DEF StateOf
    <3> QED BY <3>2 DEF States
  <2>3. StateOf(h)' = IF StateOf(h) = "none" THEN "UNINITIALIZED" ELSE StateOf(h)
    BY <1>1, <2>1, <2>2, MoveStates
  <2> QED BY <1>3, <1>4, <2>1, <2>3, GateBegin DEF GateMove, Promise!Next
<1>6. CASE Answers(op, h)
  <2>1. frame'.ip = frame.ip
    BY <1>1, <1>6, TrackFields DEF Answers
  <2>2. CASE \E ip \in IPs : StateOf(ip) = "none" /\ StateOf(ip)' = "UNINITIALIZED"
    <3>1. h \in IPs /\ StateOf(h) = "none" /\ StateOf(h)' = "UNINITIALIZED"
      BY <1>4, <2>2
    <3> QED BY <1>3, <1>4, <2>1, <3>1, GateCreate DEF GateMove, Promise!Next
  <2>3. CASE ~\E ip \in IPs : StateOf(ip) = "none" /\ StateOf(ip)' = "UNINITIALIZED"
    <3>1. \A ip \in IPs : \/ StateOf(ip)' = StateOf(ip)
                          \/ /\ StateOf(ip) \in {"ENDED", "UNINITIALIZED"}
                             /\ StateOf(ip)' = "none"
      BY <1>1, <2>3, MoveStates
    <3> QED BY <1>3, <2>1, <3>1, GateForget DEF GateMove, Promise!Next
  <2> QED BY <2>2, <2>3
<1> QED BY <1>2, <1>5, <1>6

LEMMA EventMove ==
  ASSUME Orderly, LInv, FreedOK, Dispatched, ~Call, daemon = "up"
  PROVE  GateMove
<1>1. IInv /\ TypeOK /\ daemon' = "up" /\ rules' = rules /\ frame \in Frames
  BY DispatchedMoves DEF LInv, IInv, TypeOK
<1>2. \A ip \in IPs : sessions[ip] = NoSession => sessions'[ip] = NoSession
  <2>1. CASE \E h \in IPs : updateQuotaRemaining(h)
    BY <1>1, <2>1, QuotaEventMoves
  <2>2. CASE \E h \in IPs : TickVisit(h)
    <3>1. PICK h \in IPs : TickVisit(h)
      BY <2>2
    <3>2. sessions[h] # NoSession /\ sessions' = [sessions EXCEPT ![h] = Visited(sessions, h)]
      BY <1>1, <3>1 DEF TickVisit, IInv, TickPointersHeld, Records
    <3> QED BY <1>1, <3>2 DEF TypeOK
  <2>3. CASE NestedTick
    BY <2>3 DEF NestedTick, Records
  <2>4. CASE tick \/ TickDone \/ \E h \in IPs : TickStale(h)
    BY <1>1, <2>4 DEF tick, TickDone, TickStale, TypeOK, removeSession
  <2> QED BY <2>1, <2>2, <2>3, <2>4 DEF Dispatched, TickStep
<1>3. \A ip \in IPs : \/ StateOf(ip)' = StateOf(ip)
                      \/ /\ StateOf(ip) \in {"ENDED", "UNINITIALIZED"}
                         /\ StateOf(ip)' = "none"
  BY <1>2, MoveStates
<1>4. CASE frame'.ip = frame.ip
  BY <1>1, <1>3, <1>4, GateForget DEF GateMove, Promise!Next
<1>5. CASE frame'.ip # frame.ip
  <2>1. PICK h \in IPs : TickVisit(h)
    <3>1. ~((\E h \in IPs : updateQuotaRemaining(h)) \/ NestedTick)
      <4>1. (\E h \in IPs : updateQuotaRemaining(h)) \/ NestedTick =>
              frame' \in {frame, Track(sessions')}
        BY DEF updateQuotaRemaining, NestedTick
      <4> QED BY <1>1, <1>5, <4>1, TrackFields
    <3>2. ~tick
      <4>1. tick => frame = NoFrame /\ frame'.ip = NoIP
        BY TickFields DEF tick
      <4> QED BY <1>5, <4>1, NoFrameFields
    <3>3. ~TickDone
      BY <1>5, NoFrameFields DEF TickDone, LInv, LifeOK
    <3>4. ~\E h \in IPs : TickStale(h)
      <4>1. ASSUME NEW h \in IPs, TickStale(h)
            PROVE  \E F : frame' = [frame EXCEPT !.todo = @ \ {h}, !.fresh = F]
        BY <4>1 DEF TickStale
      <4> QED BY <1>1, <1>5, <4>1 DEF Frames
    <3> QED BY <3>1, <3>2, <3>3, <3>4 DEF Dispatched, TickStep
  <2>2. /\ frame.fn = "tick" /\ frame.ip = NoIP
        /\ sessions' = [sessions EXCEPT ![h] = Visited(sessions, h)]
    BY <2>1 DEF TickVisit, LInv, LifeOK
  <2>3. TickCall(sessions[h]) # "none" /\ frame'.ip = h
    BY <1>1, <1>5, <2>1 DEF TickVisit, Frames
  <2>4. \A ip \in IPs \ {h} : StateOf(ip)' = StateOf(ip)
    BY <1>1, <2>2, MoveStates DEF TypeOK
  <2>5. h \in Records
    BY <1>1, <2>1 DEF TickVisit, IInv, TickPointersHeld
  <2>6. StateOf(h) \notin {"ENDED", "UNINITIALIZED", "none"}
    <3>1. StateOf(h) # "none" /\ StateOf(h) = sessions[h].state
      BY <1>1, <2>5, StateNone DEF StateOf, Records
    <3>2. TickCall(sessions[h]) = "none" \/ sessions[h].state \notin {"ENDED", "UNINITIALIZED"}
      BY DEF TickCall
    <3> QED BY <2>3, <3>1, <3>2
  <2>7. StateOf(h)' = StateOf(h)
    BY <1>3, <2>6
  <2> QED BY <1>1, <2>2, <2>3, <2>4, <2>6, <2>7, GateBegin DEF GateMove, Promise!Next
<1> QED BY <1>4, <1>5

\* The handler that resumes settles the change of the pending host.
LEMMA ResumeMove ==
  ASSUME Orderly, AInv, HandlerResumes, daemon = "up"
  PROVE  GateMove
<1>1. LInv /\ IInv /\ TypeOK /\ ChildOK /\ PendingOK /\ FreedOK /\ loop = "exited"
      /\ frame.fn \in ScriptFns /\ UNCHANGED <<daemon, rules>> /\ ~Busy
  BY ResumeShape DEF AInv, GInv, LInv, IInv, HandlerResumes, PendingOK
<1>2. PICK h \in IPs : h = frame.ip
  BY <1>1 DEF IInv, FrameOK
<1>3. frame'.ip \in {NoIP, h}
  BY <1>1, <1>2, ResumeShape, HandsFields, GoesOnFields, NoFrameFields
     DEF HandlerResumes, ScriptFns, Returns
<1>4. StateOf(h) \in States \cup {"none"}
  BY <1>1, StateTypes
<1>5. CASE h \in frame.freed
  <2>1. frame.fn = "start"
    BY <1>1, <1>2, <1>5 DEF IInv, SuspendedStateHeld, ScriptFns
  <2>2. sessions' = sessions
    BY <1>1, <1>2, <1>5, <2>1 DEF HandlerResumes, ResumeStart, ResumePause, ResumeEnd,
       ResumeExhaust, Resumes, Orderly
  <2>3. \A ip \in IPs : StateOf(ip)' = StateOf(ip)
    BY <1>1, <2>2 DEF StateOf, Records
  <2>4. StateOf(h) \in {"none", "UNINITIALIZED"}
    BY <1>1, <1>2, <1>5 DEF FreedOK, Blank, StateOf, Records
  <2>5. Promise!Agrees(StateOf(h), Open(h))
    BY <2>4 DEF Promise!Agrees, Promise!Admitted, Promise!Revoked
  <2> QED BY <1>1, <1>2, <1>3, <1>4, <2>3, <2>5, GateSettle DEF GateMove, Promise!Next
<1>6. CASE h \notin frame.freed
  <2>1. \A ip \in IPs \ {h} : StateOf(ip)' = StateOf(ip)
    BY <1>1, <1>2, <1>6, ResumeRecords DEF StateOf, Records
  <2>2. CASE code # 0
    <3>1. StateOf(h)' = StateOf(h) /\ Agree(h)
      BY <1>1, <1>2, <1>6, <2>2, ResumeRecords DEF StateOf, Records, PendingOK
    <3> QED BY <1>1, <1>2, <1>3, <1>4, <2>1, <3>1, GateSettle DEF GateMove, Promise!Next, Agree
  <2>3. CASE code = 0
    <3>1. Open(h) = Grants(frame.fn)
      BY <1>1, <1>2, <2>3 DEF ChildOK
    <3>2. Agree(h)' /\ Open(h)' = Open(h)
      BY <1>1, <1>2, <1>6, <2>3, <3>1, CommitAgrees DEF Open
    <3>3. Promise!Agrees(StateOf(h)', Open(h))
      BY <3>2 DEF Agree
    <3>4. \/ StateOf(h)' = Target(frame.fn)
          \/ frame.fn = "end" /\ StateOf(h)' = "none"
      BY <1>1, <1>2, <1>6, <2>3, ResumeRecords DEF StateOf, Records
    <3>5. /\ StateOf(h) \in States
          /\ frame.fn \in {"pause", "exhaust"} => StateOf(h) = "STARTED"
          /\ frame.fn = "end" => StateOf(h) # "ENDED"
          /\ frame.fn = "start" => StateOf(h) # "STARTED"
      <4>1. h \in Records
        BY <1>1, <1>2, <1>6 DEF IInv, SuspendedStateHeld, ScriptFns
      <4>2. StateOf(h) = sessions[h].state /\ StateOf(h) \in States
        BY <1>1, <4>1, StateTypes DEF StateOf, TypeOK, Maps, Session, Records
      <4> QED BY <1>1, <1>2, <1>6, <4>2 DEF IInv, SuspendedStateHeld
    <3>6. <<StateOf(h), Target(frame.fn)>> \in Promise!Moves
      BY <1>1, <3>5 DEF Promise!Moves, States, Target, ScriptFns
    <3>7. StateOf(h)' \in States \cup {"none"}
      BY <1>1, <3>4 DEF Target, States, ScriptFns
    <3>8. frame.fn = "end" => Target(frame.fn) = "ENDED" /\ ~Open(h)
      BY <3>1 DEF Target, Grants
    <3> QED BY <1>1, <1>2, <1>3, <2>1, <3>3, <3>4, <3>6, <3>7, <3>8, GateSettle
            DEF GateMove, Promise!Next
  <2> QED BY <2>2, <2>3
<1> QED BY <1>5, <1>6

LEMMA ScriptMove ==
  ASSUME AInv, ScriptEffect \/ ScriptExits \/ ScriptFails, daemon = "up"
  PROVE  GateMove
<1>1. /\ LInv /\ TypeOK /\ ChildOK /\ PendingOK /\ Busy
      /\ UNCHANGED <<sessions, frame, daemon>> /\ loop \in {"idle", "exec"}
  BY DEF AInv, GInv, LInv, IInv, TypeOK, PendingOK, ScriptEffect, ScriptExits, ScriptFails
<1>2. \A ip \in IPs : StateOf(ip)' = StateOf(ip)
  BY <1>1 DEF StateOf, Records
<1>3. CASE \A ip \in IPs : Open(ip)' = Open(ip)
  BY <1>1, <1>2, <1>3, GateStutter DEF GateMove
<1>4. CASE ScriptEffect
  <2>1. proc.name # "gw_clean_up" /\ rules' = After(proc)
    BY <1>1, <1>4 DEF ChildOK, ScriptEffect
  <2>2. CASE loop = "exec"
    <3>1. proc.ip = frame.ip /\ frame.ip \in IPs
      BY <1>1, <2>2, ExecFields DEF ChildOK, Runs
    <3>2. \A ip \in IPs \ {frame.ip} : Open(ip)' = Open(ip)
      BY <1>1, <2>1, <3>1, AfterOpen
    <3> QED BY <1>1, <3>1, <3>2, GateSwitch DEF GateMove, Promise!Next
  <2>3. CASE loop = "idle"
    <3>1. proc.name = "gw_init"
      BY <1>1, <2>3 DEF PendingOK
    <3> QED BY <1>1, <1>3, <2>1, <3>1, AfterOpen
  <2> QED BY <1>1, <2>2, <2>3
<1>5. CASE ScriptExits \/ ScriptFails
  BY <1>3, <1>5 DEF ScriptExits, ScriptFails, Open
<1> QED BY <1>4, <1>5

LEMMA Moves ==
  ASSUME Orderly, AInv, [Next]_vars
  PROVE  GateMove
<1>1. LInv /\ FreedOK
  BY DEF AInv, GInv
<1>2. CASE daemon = "up" /\ daemon' = "up"
  <2>1. CASE UNCHANGED vars
    BY <1>2, <2>1, GateStutter DEF vars, StateOf, Records, Open, GateMove
  <2> QED BY <1>1, <1>2, <2>1, UpSteps, CallMove, EventMove, ResumeMove, ScriptMove
<1>3. CASE daemon # "up" /\ daemon' = "up"
  BY <1>1, <1>3, GateTurnOn DEF GateMove, Promise!Next
<1>4. CASE daemon' # "up"
  BY <1>4, GateOff DEF GateMove, Promise!Next
<1> QED BY <1>2, <1>3, <1>4

-----------------------------------------------------------------------------
(* The theorems about Gate *)

LEMMA GateInit == Init => Promise!Init /\ AInv
<1> SUFFICES ASSUME Init
             PROVE  Promise!Init /\ AInv
  OBVIOUS
<1>1. daemon = "down" /\ rules = NoRules /\ frame.ip = NoIP
  BY NoFrameFields DEF Init
<1>2. Promise!Init
  BY <1>1 DEF Promise!Init, Promise!AllNone, StateOf, NoRules
<1> QED BY <1>1, <1>2, GateFirst DEF AInv, PendingOK, OthersOK

\* Both say that hosts other than the pending one agree.
LEMMA OthersAgree == AccessAgrees <=> OthersOK
<1> DEFINE pending == IF daemon = "up" THEN frame.ip ELSE NoIP
<1>1. AccessAgrees <=> \A ip \in IPs \ {pending} : Agree(ip)
  BY DEF AccessAgrees, Promise!AccessAgrees, Agree, Open
<1>2. CASE daemon = "up"
  BY <1>1, <1>2 DEF OthersOK
<1>3. CASE daemon # "up"
  BY <1>1, <1>3 DEF OthersOK, Agree, StateOf, Promise!Agrees, Promise!Admitted, Promise!Revoked
<1> QED BY <1>2, <1>3

\* No step of Gate takes a host out of its access, but for the pending one.
LEMMA GateKeeps ==
  ASSUME AccessAgrees, GateMove
  PROVE  AccessAgrees'
<1> DEFINE state == [ip \in IPs |-> StateOf(ip)]
           open == [ip \in IPs |-> rules[ip] # NoRule]
           pending == IF daemon = "up" THEN frame.ip ELSE NoIP
<1>1. \A h \in IPs \ {pending} : Promise!Agrees(state[h], open[h])
  BY DEF AccessAgrees, Promise!AccessAgrees
<1>2. SUFFICES ASSUME NEW h \in IPs, h # pending'
               PROVE  Promise!Agrees(state'[h], open'[h])
  BY DEF AccessAgrees, Promise!AccessAgrees
<1>3. DOMAIN state = IPs /\ DOMAIN open = IPs
  OBVIOUS
<1> HIDE DEF state, open, pending
<1>4. CASE Promise!Off
  BY <1>4 DEF Promise!Off, Promise!AllNone, Promise!Agrees, Promise!Admitted, Promise!Revoked,
              state, open, pending
<1>5. CASE Promise!TurnOn \/ UNCHANGED Promise!gateVars
  BY <1>1, <1>2, <1>5 DEF Promise!TurnOn, Promise!gateVars, state, open, pending
<1>6. CASE Promise!Forget
  BY <1>1, <1>2, <1>6 DEF Promise!Forget, Promise!Agrees, Promise!Admitted, Promise!Revoked,
                          state, open, pending
<1>7. ASSUME NEW ip \in IPs, Promise!Create(ip) \/ Promise!Begin(ip)
      PROVE  Promise!Agrees(state'[h], open'[h])
  BY <1>1, <1>2, <1>7, NoIPAssumption
     DEF Promise!Create, Promise!Begin, Promise!Agrees, Promise!Admitted, Promise!Revoked,
         state, open, pending
<1>8. CASE Promise!Switch
  BY <1>1, <1>2, <1>8 DEF Promise!Switch, state, open, pending
<1>9. CASE Promise!Settle
  BY <1>1, <1>2, <1>9 DEF Promise!Settle, state, open, pending
<1> QED BY <1>4, <1>5, <1>6, <1>7, <1>8, <1>9 DEF GateMove, Promise!Next

LEMMA AccessStep == Orderly /\ AInv /\ [Next]_vars => AInv'
<1> SUFFICES ASSUME Orderly, AInv, [Next]_vars
             PROVE  AInv'
  OBVIOUS
<1>1. AccessAgrees'
  BY Moves, GateKeeps, OthersAgree DEF AInv
<1>2. OthersOK'
  BY <1>1, OthersAgree, PTL
<1> QED BY <1>2, GateStep, PendingStep DEF AInv

LEMMA AccessInvariant ==
  ASSUME Orderly
  PROVE  Spec => []AInv
<1>1. Init => AInv
  BY GateInit
<1>2. AInv /\ [Next]_vars => AInv'
  BY AccessStep
<1> QED BY <1>1, <1>2, PTL DEF Spec

\* When scripts may fail, the bus may refuse, and signals and crashes come at any
\* time, but no script that fails changed the rules and no child is left to run beside
\* another: every host but the one whose handler is suspended has the access its state
\* says.
THEOREM AccessFollowsState ==
  ASSUME Orderly
  PROVE  Spec => []AccessAgrees
<1>1. AInv => AccessAgrees
  BY OthersAgree DEF AInv
<1> QED BY <1>1, AccessInvariant, PTL

\* Under the same conditions Controller, with its timers, scripts, event loops and
\* answers, does nothing to access and state that Gate does not.
THEOREM ImplementsGate ==
  ASSUME Orderly
  PROVE  Spec => GateSpec
<1>1. Init => Promise!Init
  BY GateInit
<1>2. AInv /\ [Next]_vars => [Promise!Next]_Promise!gateVars
  BY Moves DEF GateMove
<1> QED BY <1>1, <1>2, AccessInvariant, PTL DEF Spec, GateSpec, Promise!Spec
=============================================================================
