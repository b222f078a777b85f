-------------------------- MODULE ControllerProofs --------------------------
(***************************************************************************)
(* Theorems about Controller, for every set of clients, every limit and    *)
(* timer, every set of calls and every combination of hazards.             *)
(*                                                                         *)
(* The argument: a handler that runs while another is suspended leaves the *)
(* records Harmless, so whatever the suspended one checked still holds.    *)
(***************************************************************************)
EXTENDS Controller, TLAPS

ScriptFns == {"start", "pause", "end", "exhaust"}

\* The shape of the stack: who owns the nested loop, and whose pointers the
\* frame holds.
FrameOK ==
  /\ frame.fn \in ScriptFns => frame.ip \in IPs /\ frame.caller \in Methods \cup {"tick"}
  /\ frame.fn = "tick" => frame.caller = "tick"
  /\ frame.fn = "none" => frame = NoFrame
  /\ frame.fn \in {"none", "tick"} <=> loop = "idle"
  /\ frame.fresh \subseteq Records
  /\ frame.fresh \cap (frame.todo \ frame.freed) = {}

IInv == TypeOK /\ FrameOK /\ SuspendedStateHeld /\ TickPointersHeld

Maps == [IPs -> Session \cup {NoSession}]

\* S differs from the records by new ones, by other limits and timers, and by
\* the absence of records that had ended.
Harmless(S) ==
  \A ip \in IPs : sessions[ip] # NoSession =>
    /\ S[ip] = NoSession => sessions[ip].state = "ENDED"
    /\ S[ip] # NoSession => S[ip].state = sessions[ip].state

-----------------------------------------------------------------------------
(* Records *)

\* The countdown stays within the bound of the counter it started in.
LEMMA DecBound ==
  ASSUME NEW m \in Int, NEW k \in Nat, m <= 0, NEW n \in m .. k
  PROVE  Dec(n) \in m .. k
BY DEF Dec

\* A visit by tick() keeps a record a record, in its state.
LEMMA TickedRecord ==
  ASSUME NEW s \in Session
  PROVE  Ticked(s) \in Session /\ Ticked(s).state = s.state
<1> USE TimersAssumption, LimitsAssumption
<1>1. s.timeRemaining \in Unlimited .. MaxTime /\ s.updateTimeRemaining \in 0 .. UPDATE_TIME
      /\ s.pauseTimeRemaining \in 0 .. PAUSE_TIME /\ s.endTimeRemaining \in 0 .. END_TIME
  BY DEF Session, Times
<1>2. /\ Dec(s.timeRemaining) \in Times
      /\ Dec(s.updateTimeRemaining) \in 0 .. UPDATE_TIME
      /\ Dec(s.endTimeRemaining) \in 0 .. END_TIME
      /\ (IF s.pauseTimeRemaining <= 1 THEN PAUSE_TIME ELSE s.pauseTimeRemaining - 1)
           \in 0 .. PAUSE_TIME
  BY <1>1, DecBound DEF Unlimited, Times, Dec
<1> QED BY <1>2 DEF Session, Ticked

\* A function whose script succeeded leaves a record, in the state it enters.
LEMMA EnteredRecord ==
  ASSUME NEW s \in Session, NEW fn \in ScriptFns
  PROVE  /\ Entered(fn, s) \in Session
         /\ fn = "start" => Entered(fn, s).state = "STARTED"
         /\ fn = "pause" => Entered(fn, s).state = "PAUSED"
         /\ fn = "end" => Entered(fn, s).state = "ENDED"
         /\ fn = "exhaust" => Entered(fn, s).state = "EXHAUSTED"
<1>1. CASE fn = "start"
  <2>1. Entered(fn, s) = [s EXCEPT !.state = "STARTED", !.updateTimeRemaining = UPDATE_TIME]
    BY <1>1 DEF Entered
  <2>2. UPDATE_TIME \in 0 .. UPDATE_TIME
    BY TimersAssumption
  <2>3. Entered(fn, s) \in Session /\ Entered(fn, s).state = "STARTED"
    BY <2>1, <2>2 DEF Session, States
  <2> QED BY <1>1, <2>3
<1>2. CASE fn = "pause"
  <2>1. Entered(fn, s) = [s EXCEPT !.state = "PAUSED"]
    BY <1>2 DEF Entered
  <2> QED BY <1>2, <2>1 DEF Session, States
<1>3. CASE fn = "end"
  <2>1. Entered(fn, s) = [s EXCEPT !.state = "ENDED"]
    BY <1>3 DEF Entered
  <2> QED BY <1>3, <2>1 DEF Session, States
<1>4. CASE fn = "exhaust"
  <2>1. Entered(fn, s) = [s EXCEPT !.state = "EXHAUSTED"]
    BY <1>4 DEF Entered
  <2> QED BY <1>4, <2>1 DEF Session, States
<1> QED BY <1>1, <1>2, <1>3, <1>4 DEF ScriptFns

\* newSession() adds a record at most.
LEMMA WithRecordHarmless ==
  ASSUME NEW ip \in IPs, TypeOK
  PROVE  /\ WithRecord(ip) \in Maps
         /\ WithRecord(ip)[ip] # NoSession
         /\ Harmless(WithRecord(ip))
<1>1. initSession \in Session
  BY TimersAssumption DEF TypeOK, Defaults, initSession, Session, States, Quotas, Times
<1>2. initSession # NoSession
  BY <1>1, NoRecordAssumption
<1> QED BY <1>1, <1>2 DEF TypeOK, WithRecord, Maps, Harmless

\* The scripts of the four functions are commands.
LEMMA ScriptIsCommand ==
  ASSUME NEW S \in Maps, NEW ip \in IPs, S[ip] # NoSession, NEW fn
  PROVE  Script(fn, ip, S) \in Commands
<1>1. S[ip].bandwidth \in Bandwidths
  BY DEF Maps, Session
<1> QED BY <1>1 DEF Script, add_host, remove_host, Command, Commands

\* What a command does to the rules leaves rules.
LEMMA AfterRules ==
  ASSUME TypeOK, Busy
  PROVE  After(proc) \in [IPs -> Bandwidths \cup {NoRule}]
<1>1. proc \in Commands
  BY DEF TypeOK, Busy
<1>2. CASE proc.name = "gw_add_host"
  <2>1. After(proc) = [rules EXCEPT ![proc.ip] =
                         IF rules[proc.ip] = NoRule THEN proc.bw ELSE rules[proc.ip]]
    BY <1>2 DEF After, gw_add_host
  <2>2. proc.bw \in Bandwidths \cup {NoRule}
    BY <1>1 DEF Commands
  <2> QED BY <2>1, <2>2 DEF TypeOK
<1>3. CASE proc.name = "gw_remove_host"
  BY <1>3 DEF After, gw_remove_host, TypeOK
<1>4. CASE proc.name = "gw_clean_up"
  BY <1>4 DEF After, gw_clean_up, NoRules, TypeOK
<1>5. CASE proc.name = "gw_init"
  BY <1>5 DEF After, gw_init, TypeOK
<1> QED BY <1>1, <1>2, <1>3, <1>4, <1>5 DEF Commands

-----------------------------------------------------------------------------
(* One dispatched handler *)

\* With no handler suspended there is nothing to track.
LEMMA TrackNoFrame ==
  ASSUME NEW S, frame = NoFrame
  PROVE  Track(S) = NoFrame
<1>1. frame = NewFrame("none", NoIP, "none") /\ frame.freed = {} /\ frame.fresh = {}
      /\ frame.todo = {} /\ frame.ip = NoIP
  BY DEF NoFrame, NewFrame
<1>2. Held = {}
  BY <1>1, NoIPAssumption DEF Held
<1>3. Track(S) = [frame EXCEPT !.freed = {}, !.fresh = {}]
  <2>1. frame.freed \cup {ip \in Held : sessions[ip] # NoSession /\ S[ip] = NoSession} = {}
    BY <1>1, <1>2
  <2>2. {ip \in frame.fresh : S[ip] # NoSession}
        \cup {ip \in IPs : frame.freed # {} /\ sessions[ip] = NoSession /\ S[ip] # NoSession} = {}
    BY <1>1
  <2> QED BY <2>1, <2>2 DEF Track
<1> QED BY <1>1, <1>3 DEF NoFrame, NewFrame

\* The heart of the argument: harmless records keep every promise made to the
\* suspended handler.
LEMMA TrackKeeps ==
  ASSUME IInv, NEW S \in Maps, Harmless(S), sessions' = S, frame' = Track(S),
         loop' = loop
  PROVE  frame' \in Frames /\ FrameOK' /\ SuspendedStateHeld' /\ TickPointersHeld'
<1> DEFINE gone == {ip \in Held : sessions[ip] # NoSession /\ S[ip] = NoSession}
           new  == {ip \in IPs : frame.freed # {} /\ sessions[ip] = NoSession /\ S[ip] # NoSession}
           kept == {ip \in frame.fresh : S[ip] # NoSession}
<1>1. frame \in Frames
  BY DEF IInv, TypeOK
<1>2. frame' = [frame EXCEPT !.freed = frame.freed \cup gone, !.fresh = kept \cup new]
  BY DEF Track
<1>3. /\ frame'.fn = frame.fn /\ frame'.ip = frame.ip /\ frame'.caller = frame.caller
      /\ frame'.todo = frame.todo
      /\ frame'.freed = frame.freed \cup gone /\ frame'.fresh = kept \cup new
  BY <1>1, <1>2 DEF Frames
<1>4. gone \in SUBSET IPs /\ kept \in SUBSET IPs /\ new \in SUBSET IPs
  BY <1>1 DEF Held, Frames
<1>5. frame' \in Frames
  BY <1>1, <1>2, <1>4 DEF Frames
<1>6. Records' = {ip \in IPs : S[ip] # NoSession}
  BY DEF Records
<1>7. TickPointersHeld'
  <2> SUFFICES ASSUME NEW ip \in frame.todo, ip \notin frame.freed, ip \notin gone
               PROVE  ip \in Records'
    BY <1>3 DEF TickPointersHeld
  <2>1. ip \in Records
    BY DEF IInv, TickPointersHeld
  <2> QED BY <2>1, <1>6 DEF Records, Held
<1>8. FrameOK'
  <2>1. frame.fn = "none" => frame' = NoFrame
    BY TrackNoFrame DEF IInv, FrameOK
  <2>2. frame'.fresh \subseteq Records'
    BY <1>3, <1>4, <1>6
  <2>3. frame'.fresh \cap (frame'.todo \ frame'.freed) = {}
    <3>1. frame.fresh \cap (frame.todo \ frame.freed) = {}
          /\ frame.todo \ frame.freed \subseteq Records
      BY DEF IInv, FrameOK, TickPointersHeld
    <3>2. new \cap Records = {}
      BY DEF Records
    <3> QED BY <3>1, <3>2, <1>3
  <2> QED BY <2>1, <2>2, <2>3, <1>3 DEF IInv, FrameOK
<1>9. SuspendedStateHeld'
  <2>1. ASSUME frame.fn \in {"pause", "exhaust"}
        PROVE  frame.ip \in Records' \ frame'.freed /\ sessions'[frame.ip].state = "STARTED"
    <3>1. frame.ip \in Records \ frame.freed /\ sessions[frame.ip].state = "STARTED"
      BY <2>1 DEF IInv, SuspendedStateHeld
    <3> QED BY <3>1, <1>3, <1>6 DEF Harmless, Records
  <2>2. ASSUME frame.fn = "end"
        PROVE  frame.ip \in Records' \ frame'.freed /\ sessions'[frame.ip].state # "ENDED"
    <3>1. frame.ip \in Records \ frame.freed /\ sessions[frame.ip].state # "ENDED"
      BY <2>2 DEF IInv, SuspendedStateHeld
    <3> QED BY <3>1, <1>3, <1>6 DEF Harmless, Records
  <2>3. ASSUME frame.fn = "start", frame.ip \notin frame.freed, frame.ip \notin gone
        PROVE  frame.ip \in Records' /\ sessions'[frame.ip].state # "STARTED"
    <3>1. frame.ip \in Records /\ sessions[frame.ip].state # "STARTED"
      BY <2>3 DEF IInv, SuspendedStateHeld
    <3>2. S[frame.ip] # NoSession
      BY <3>1, <2>3 DEF Held, Records
    <3> QED BY <3>1, <3>2, <1>6 DEF Harmless, Records
  <2> QED BY <2>1, <2>2, <2>3, <1>3 DEF SuspendedStateHeld
<1> QED BY <1>5, <1>7, <1>8, <1>9

\* A handler that returns at once keeps the invariant.
LEMMA ReturnInv ==
  ASSUME IInv, NEW op \in Methods, NEW ip \in IPs \cup {NoIP}, NEW ret \in {0, Failed},
         NEW S \in Maps, Harmless(S), Return(op, ip, ret, S),
         defaults' \in Defaults, UNCHANGED <<daemon, signalled, rules>>
  PROVE  IInv'
<1>1. /\ sessions' = S /\ frame' = Track(S) /\ UNCHANGED <<proc, loop, code>>
      /\ reply' = [op |-> op, ip |-> ip, ret |-> IF op \in Setters THEN 0 ELSE ret]
  BY DEF Return, Answer, runVars
<1>2. frame' \in Frames /\ FrameOK' /\ SuspendedStateHeld' /\ TickPointersHeld'
  BY <1>1, TrackKeeps
<1>3. reply' \in Replies
  BY <1>1 DEF Replies
<1>4. TypeOK'
  BY <1>1, <1>2, <1>3 DEF IInv, TypeOK, Maps
<1> QED BY <1>2, <1>4 DEF IInv

\* So does one that reaches runCommandExec(), whether it is suspended or refused.
LEMMA PerformInv ==
  ASSUME IInv, NEW op \in Methods, NEW ip \in IPs, NEW fn \in {"start", "pause", "end"},
         NEW S \in Maps, Harmless(S), S[ip] # NoSession, Perform(fn, ip, op, S),
         defaults' \in Defaults, UNCHANGED <<daemon, signalled, rules>>
  PROVE  IInv'
<1>1. CASE ~Wants(fn, S[ip])
  <2>1. Return(op, ip, EarlyReturn(fn, S[ip]), S)
    BY <1>1 DEF Perform
  <2>2. EarlyReturn(fn, S[ip]) \in {0, Failed}
    BY DEF EarlyReturn
  <2> QED BY <2>1, <2>2, ReturnInv
<1>2. CASE Wants(fn, S[ip]) /\ frame = NoFrame /\ ~Busy
  <2>1. /\ sessions' = S /\ frame' = NewFrame(fn, ip, op) /\ reply' = NoReply
        /\ proc' = Script(fn, ip, S) /\ loop' = "exec" /\ code' = code
    BY <1>2 DEF Perform, ExecSuspends
  <2>2. /\ frame'.fn = fn /\ frame'.ip = ip /\ frame'.caller = op
        /\ frame'.todo = {} /\ frame'.freed = {} /\ frame'.fresh = {}
    BY <2>1 DEF NewFrame
  <2>3. TypeOK'
    <3>1. proc' \in Commands
      BY <2>1, ScriptIsCommand
    <3>2. frame' \in Frames
      BY <2>1 DEF NewFrame, Frames
    <3>3. reply' \in Replies
      BY <2>1 DEF NoReply, Replies
    <3> QED BY <2>1, <3>1, <3>2, <3>3 DEF IInv, TypeOK, Maps
  <2>4. FrameOK'
    BY <2>1, <2>2 DEF FrameOK, ScriptFns
  <2>5. SuspendedStateHeld'
    <3>1. CASE fn = "start"
      BY <1>2, <2>1, <2>2, <3>1 DEF SuspendedStateHeld, Wants, Records
    <3>2. CASE fn = "pause"
      BY <1>2, <2>1, <2>2, <3>2 DEF SuspendedStateHeld, Wants, Records
    <3>3. CASE fn = "end"
      BY <1>2, <2>1, <2>2, <3>3 DEF SuspendedStateHeld, Wants, Records
    <3> QED BY <3>1, <3>2, <3>3
  <2>6. TickPointersHeld'
    BY <2>2 DEF TickPointersHeld
  <2> QED BY <2>3, <2>4, <2>5, <2>6 DEF IInv
<1>3. CASE Wants(fn, S[ip]) /\ ~(frame = NoFrame /\ ~Busy)
  <2>1. /\ sessions' = S /\ frame' = Track(S)
        /\ proc' \in {proc, Script(fn, ip, S)} /\ loop' = loop /\ code' = code
        /\ reply' = [op |-> op, ip |-> ip, ret |-> IF op \in Setters THEN 0 ELSE Failed]
    BY <1>3 DEF Perform, ExecRefused, Answer
  <2>2. frame' \in Frames /\ FrameOK' /\ SuspendedStateHeld' /\ TickPointersHeld'
    BY <2>1, TrackKeeps
  <2>3. proc' \in Commands \cup {NoCmd}
    BY <2>1, ScriptIsCommand DEF IInv, TypeOK
  <2>4. reply' \in Replies
    BY <2>1 DEF Replies
  <2>5. TypeOK'
    BY <2>1, <2>2, <2>3, <2>4 DEF IInv, TypeOK, Maps
  <2> QED BY <2>2, <2>5 DEF IInv
<1> QED BY <1>1, <1>2, <1>3

\* The records a call may hand over: as they are, with one limit or timer of one
\* record changed, or without one that ended.
LEMMA SameHarmless ==
  ASSUME TypeOK
  PROVE  sessions \in Maps /\ Harmless(sessions)
BY DEF TypeOK, Maps, Harmless

LEMMA ChangedHarmless ==
  ASSUME TypeOK, NEW ip \in Records, NEW s \in Session, s.state = sessions[ip].state
  PROVE  LET S == [sessions EXCEPT ![ip] = s] IN
           S \in Maps /\ Harmless(S) /\ S[ip] # NoSession
BY NoRecordAssumption DEF TypeOK, Maps, Harmless, Records

LEMMA RemovedHarmless ==
  ASSUME TypeOK, NEW ip \in Records, sessions[ip].state = "ENDED"
  PROVE  removeSession(sessions, ip) \in Maps /\ Harmless(removeSession(sessions, ip))
BY DEF TypeOK, Maps, Harmless, Records, removeSession

\* A setter's pause or play keeps the invariant.
LEMMA PauseAndPlayInv ==
  ASSUME IInv, NEW op \in Methods, NEW ip \in IPs, NEW S \in Maps, Harmless(S),
         S[ip] # NoSession, PauseAndPlay(op, ip, S),
         defaults' \in Defaults, UNCHANGED <<daemon, signalled, rules>>
  PROVE  IInv'
<1>1. CASE S[ip].state = "STARTED"
  BY <1>1, PerformInv DEF PauseAndPlay
<1>2. CASE S[ip].state = "PAUSED"
  BY <1>2, PerformInv DEF PauseAndPlay
<1>3. CASE S[ip].state \notin {"STARTED", "PAUSED"}
  BY <1>3, ReturnInv DEF PauseAndPlay
<1> QED BY <1>1, <1>2, <1>3

\* A call without its record.
LEMMA NoSuchRecordInv ==
  ASSUME IInv, NEW op \in Methods, NEW ip \in IPs, NoSuchRecord(op, ip),
         defaults' \in Defaults, UNCHANGED <<daemon, signalled, rules>>
  PROVE  IInv'
<1>1. UNCHANGED <<sessions, frame, proc, loop, code>> /\ reply' \in Replies
  BY DEF NoSuchRecord, runVars, Replies
<1>2. FrameOK' /\ SuspendedStateHeld' /\ TickPointersHeld'
  BY <1>1 DEF IInv, FrameOK, SuspendedStateHeld, TickPointersHeld, Records
<1> QED BY <1>1, <1>2 DEF IInv, TypeOK

\* Every D-Bus call keeps the invariant, from the main loop or nested.
LEMMA CallInv ==
  ASSUME IInv, Call
  PROVE  IInv'
<1>1. TypeOK
  BY DEF IInv
<1>2. sessions \in Maps /\ Harmless(sessions)
  BY <1>1, SameHarmless
<1>3. defaults \in Defaults
  BY <1>1 DEF TypeOK
<1>4. \A op : Called(op) => UNCHANGED <<daemon, signalled, rules>>
  BY DEF Called
<1>5. Failed \in {0, Failed} /\ 0 \in {0, Failed}
  OBVIOUS
<1>6. Setters \subseteq Methods
  BY DEF Setters, Methods
<1>7. ASSUME NEW ip \in IPs, newSession(ip)
      PROVE  IInv'
  <2>1. "newSession" \in Methods
    BY DEF Methods
  <2> QED BY <1>1, <1>3, <1>4, <1>5, <1>7, <2>1, WithRecordHarmless, ReturnInv DEF newSession
<1>8. ASSUME NEW ip \in IPs, startSession(ip)
      PROVE  IInv'
  <2>1. "startSession" \in Methods
    BY DEF Methods
  <2>2. WithRecord(ip) \in Maps /\ Harmless(WithRecord(ip)) /\ WithRecord(ip)[ip] # NoSession
    BY <1>1, WithRecordHarmless
  <2> QED BY <1>3, <1>4, <1>8, <2>1, <2>2, PerformInv DEF startSession
<1>9. ASSUME NEW ip \in IPs, pauseSession(ip)
      PROVE  IInv'
  <2>1. "pauseSession" \in Methods
    BY DEF Methods
  <2>2. CASE ip \in Records
    BY <1>2, <1>3, <1>4, <1>9, <2>1, <2>2, PerformInv DEF pauseSession, Records
  <2>3. CASE ip \notin Records
    BY <1>2, <1>3, <1>4, <1>5, <1>9, <2>1, <2>3, ReturnInv DEF pauseSession
  <2> QED BY <2>2, <2>3
<1>10. ASSUME NEW ip \in IPs, playSession(ip)
       PROVE  IInv'
  <2>1. "playSession" \in Methods
    BY DEF Methods
  <2>2. CASE ip \in Records /\ sessions[ip].state \in {"STARTED", "PAUSED"}
    BY <1>2, <1>3, <1>4, <1>10, <2>1, <2>2, PerformInv DEF playSession, Records
  <2>3. CASE ~(ip \in Records /\ sessions[ip].state \in {"STARTED", "PAUSED"})
    BY <1>2, <1>3, <1>4, <1>5, <1>10, <2>1, <2>3, ReturnInv DEF playSession
  <2> QED BY <2>2, <2>3
<1>11. ASSUME NEW ip \in IPs, endSession(ip)
       PROVE  IInv'
  <2>1. "endSession" \in Methods
    BY DEF Methods
  <2>2. CASE ip \in Records
    BY <1>2, <1>3, <1>4, <1>11, <2>1, <2>2, PerformInv DEF endSession, Records
  <2>3. CASE ip \notin Records
    BY <1>2, <1>3, <1>4, <1>5, <1>11, <2>1, <2>3, ReturnInv DEF endSession
  <2> QED BY <2>2, <2>3
<1>12. ASSUME NEW ip \in IPs, deleteSession(ip)
       PROVE  IInv'
  <2>1. "deleteSession" \in Methods
    BY DEF Methods
  <2>2. CASE ip \notin Records
    BY <1>2, <1>3, <1>4, <1>5, <1>12, <2>1, <2>2, ReturnInv DEF deleteSession
  <2>3. CASE ip \in Records /\ sessions[ip].state = "ENDED"
    BY <1>1, <1>3, <1>4, <1>5, <1>12, <2>1, <2>3, RemovedHarmless, ReturnInv DEF deleteSession
  <2>4. CASE ip \in Records /\ sessions[ip].state # "ENDED"
    BY <1>2, <1>3, <1>4, <1>12, <2>1, <2>4, PerformInv DEF deleteSession, Records
  <2> QED BY <2>2, <2>3, <2>4
<1>13. ASSUME NEW ip \in IPs, updateSession(ip)
       PROVE  IInv'
  <2>1. "updateSession" \in Methods
    BY DEF Methods
  <2>2. CASE ip \in Records
    <3> DEFINE s == [sessions[ip] EXCEPT !.updateTimeRemaining = UPDATE_TIME]
    <3>1. s \in Session /\ s.state = sessions[ip].state
      BY <1>1, <2>2, TimersAssumption DEF TypeOK, Session, Records
    <3>2. Return("updateSession", ip, 0, [sessions EXCEPT ![ip] = s])
      BY <1>13, <2>2 DEF updateSession
    <3> QED BY <1>1, <1>3, <1>4, <1>5, <1>13, <2>1, <2>2, <3>1, <3>2, ChangedHarmless, ReturnInv
            DEF updateSession
  <2>3. CASE ip \notin Records
    BY <1>2, <1>3, <1>4, <1>5, <1>13, <2>1, <2>3, ReturnInv DEF updateSession
  <2> QED BY <2>2, <2>3
<1>14. ASSUME NEW ip \in IPs, NEW bw \in Bandwidths, setBandwidth(ip, bw)
       PROVE  IInv'
  <2>1. "setBandwidth" \in Methods
    BY DEF Methods
  <2>2. CASE ip \in Records
    <3> DEFINE s == [sessions[ip] EXCEPT !.bandwidth = bw]
    <3>1. s \in Session /\ s.state = sessions[ip].state
      BY <1>1, <2>2 DEF TypeOK, Session, Records
    <3>2. PauseAndPlay("setBandwidth", ip, [sessions EXCEPT ![ip] = s])
      BY <1>14, <2>2 DEF setBandwidth
    <3> QED BY <1>1, <1>3, <1>4, <1>14, <2>1, <2>2, <3>1, <3>2, ChangedHarmless, PauseAndPlayInv
            DEF setBandwidth
  <2>3. CASE ip \notin Records
    BY <1>3, <1>4, <1>14, <2>1, <2>3, NoSuchRecordInv DEF setBandwidth
  <2> QED BY <2>2, <2>3
<1>15. ASSUME NEW ip \in IPs, NEW q \in Quotas, setQuota(ip, q)
       PROVE  IInv'
  <2>1. "setQuota" \in Methods
    BY DEF Methods
  <2>2. CASE ip \in Records
    <3> DEFINE s == [sessions[ip] EXCEPT !.quotaRemaining = q]
    <3>1. s \in Session /\ s.state = sessions[ip].state
      BY <1>1, <2>2 DEF TypeOK, Session, Records
    <3>2. PauseAndPlay("setQuota", ip, [sessions EXCEPT ![ip] = s])
      BY <1>15, <2>2 DEF setQuota
    <3> QED BY <1>1, <1>3, <1>4, <1>15, <2>1, <2>2, <3>1, <3>2, ChangedHarmless, PauseAndPlayInv
            DEF setQuota
  <2>3. CASE ip \notin Records
    BY <1>3, <1>4, <1>15, <2>1, <2>3, NoSuchRecordInv DEF setQuota
  <2> QED BY <2>2, <2>3
<1>16. ASSUME NEW ip \in IPs, NEW t \in Times \cap Quotas, setTime(ip, t)
       PROVE  IInv'
  <2>1. "setTime" \in Methods
    BY DEF Methods
  <2>2. CASE ip \in Records
    <3> DEFINE s == [sessions[ip] EXCEPT !.quotaRemaining = t]
    <3>1. s \in Session /\ s.state = sessions[ip].state
      BY <1>1, <2>2 DEF TypeOK, Session, Records
    <3>2. PauseAndPlay("setTime", ip, [sessions EXCEPT ![ip] = s])
      BY <1>16, <2>2 DEF setTime
    <3> QED BY <1>1, <1>3, <1>4, <1>16, <2>1, <2>2, <3>1, <3>2, ChangedHarmless, PauseAndPlayInv
            DEF setTime
  <2>3. CASE ip \notin Records
    BY <1>3, <1>4, <1>16, <2>1, <2>3, NoSuchRecordInv DEF setTime
  <2> QED BY <2>2, <2>3
<1>17. ASSUME NEW op \in Methods, NEW d \in Defaults, SetDefaults(op, d)
       PROVE  IInv'
  BY <1>2, <1>4, <1>5, <1>17, ReturnInv DEF SetDefaults
<1>18. ASSUME \/ \E bw \in Bandwidths : setDefaultBandWidth(bw)
              \/ \E q \in Quotas : setDefaultQuota(q)
              \/ \E t \in Times : setDefaultTime(t)
              \/ \E d \in Defaults : setDefaultSession(d)
       PROVE  \E op \in Methods, d \in Defaults : SetDefaults(op, d)
  <2>1. \A bw \in Bandwidths : [defaults EXCEPT !.bandwidth = bw] \in Defaults
    BY <1>3 DEF Defaults
  <2>2. \A q \in Quotas : [defaults EXCEPT !.quotaRemaining = q] \in Defaults
    BY <1>3 DEF Defaults
  <2>3. \A t \in Times : [defaults EXCEPT !.timeRemaining = t] \in Defaults
    BY <1>3 DEF Defaults
  <2>4. {"setDefaultBandWidth", "setDefaultQuota", "setDefaultTime", "setDefaultSession"}
          \subseteq Methods
    BY DEF Methods
  <2> QED BY <1>18, <2>1, <2>2, <2>3, <2>4
          DEF setDefaultBandWidth, setDefaultQuota, setDefaultTime, setDefaultSession
<1> QED BY <1>7, <1>8, <1>9, <1>10, <1>11, <1>12, <1>13, <1>14, <1>15, <1>16, <1>17, <1>18 DEF Call

-----------------------------------------------------------------------------
(* Events and ticks *)

\* A step that leaves records, frame and the nested loop's owner alone keeps
\* what the frame holds.
LEMMA StackKept ==
  ASSUME IInv, UNCHANGED <<sessions, frame>>, loop = "idle" <=> loop' = "idle"
  PROVE  FrameOK' /\ SuspendedStateHeld' /\ TickPointersHeld'
BY DEF IInv, FrameOK, SuspendedStateHeld, TickPointersHeld, Records

LEMMA NoReplyOK ==
  ASSUME reply' = NoReply
  PROVE  reply' \in Replies
BY DEF NoReply, Replies

\* A quota event changes one counter of one record.
LEMMA QuotaEventInv ==
  ASSUME IInv, NEW ip \in IPs, updateQuotaRemaining(ip)
  PROVE  IInv'
<1> DEFINE s == [sessions[ip] EXCEPT !.quotaRemaining = Dec(@)]
           S == [sessions EXCEPT ![ip] = s]
<1>1. /\ ip \in Records /\ sessions' = S /\ reply' = NoReply
      /\ UNCHANGED <<defaults, frame, daemon, signalled, rules, proc, loop, code>>
  BY DEF updateQuotaRemaining, runVars
<1>2. sessions[ip] \in Session
  BY <1>1 DEF IInv, TypeOK, Records
<1>3. Dec(sessions[ip].quotaRemaining) \in Quotas
  <2>1. sessions[ip].quotaRemaining \in Unlimited .. MaxQuota
    BY <1>2 DEF Session, Quotas
  <2> QED BY <2>1, LimitsAssumption, DecBound DEF Unlimited, Quotas, Dec
<1>4. s \in Session /\ s.state = sessions[ip].state
  BY <1>2, <1>3 DEF Session
<1>5. S \in Maps /\ Harmless(S) /\ S[ip] # NoSession
  BY <1>1, <1>4, ChangedHarmless DEF IInv
<1>6. Records' = Records
  BY <1>1, <1>5 DEF Records, IInv, TypeOK
<1>7. \A h \in Records : sessions'[h].state = sessions[h].state
  BY <1>1, <1>4 DEF Records, IInv, TypeOK
<1>8. FrameOK' /\ SuspendedStateHeld' /\ TickPointersHeld'
  BY <1>1, <1>6, <1>7 DEF IInv, FrameOK, SuspendedStateHeld, TickPointersHeld
<1> QED BY <1>1, <1>5, <1>8, NoReplyOK DEF IInv, TypeOK, Maps

\* What a visit leaves of a record: nothing if it was ended, else its state.
LEMMA VisitedRecord ==
  ASSUME TypeOK, NEW ip \in Records
  PROVE  /\ Visited(sessions, ip) \in Session \cup {NoSession}
         /\ Visited(sessions, ip) = NoSession => sessions[ip].state = "ENDED"
         /\ Visited(sessions, ip) # NoSession =>
              Visited(sessions, ip).state = sessions[ip].state
<1>1. sessions[ip] \in Session
  BY DEF TypeOK, Records
<1>2. Ticked(sessions[ip]) \in Session /\ Ticked(sessions[ip]).state = sessions[ip].state
  BY <1>1, TickedRecord
<1> QED BY <1>2, NoRecordAssumption DEF Visited, Expired

LEMMA TickInv ==
  ASSUME IInv, tick
  PROVE  IInv'
<1>1. /\ frame = NoFrame /\ reply' = NoReply
      /\ frame' = [NewFrame("tick", NoIP, "tick") EXCEPT !.todo = Records]
      /\ UNCHANGED <<sessions, defaults, daemon, signalled, rules, proc, loop, code>>
  BY DEF tick, runVars
<1>2. /\ frame'.fn = "tick" /\ frame'.todo = Records /\ frame'.freed = {} /\ frame'.fresh = {}
      /\ frame'.caller = "tick" /\ frame.fn = "none"
  BY <1>1 DEF NewFrame, NoFrame
<1>3. frame' \in Frames
  BY <1>1 DEF NewFrame, Frames, Records
<1>4. FrameOK' /\ SuspendedStateHeld' /\ TickPointersHeld'
  BY <1>1, <1>2 DEF IInv, FrameOK, SuspendedStateHeld, TickPointersHeld, ScriptFns, Records
<1> QED BY <1>1, <1>3, <1>4, NoReplyOK DEF IInv, TypeOK

\* What the visit calls fits the state of the record it visited.
LEMMA TickCallFits ==
  ASSUME NEW s
  PROVE  /\ TickCall(s) \in {"exhaust", "end", "start", "none"}
         /\ TickCall(s) = "exhaust" => s.state = "STARTED"
         /\ TickCall(s) = "end" => s.state \in {"STARTED", "EXHAUSTED"}
         /\ TickCall(s) = "start" => s.state = "PAUSED"
BY DEF TickCall

LEMMA TickVisitInv ==
  ASSUME IInv, NEW ip \in IPs, TickVisit(ip)
  PROVE  IInv'
<1> DEFINE v  == Visited(sessions, ip)
           fn == TickCall(sessions[ip])
<1>1. /\ frame.fn = "tick" /\ ip \in frame.todo \ frame.freed
      /\ sessions' = [sessions EXCEPT ![ip] = v]
      /\ reply' = NoReply /\ UNCHANGED <<defaults, daemon, signalled, rules>>
  BY DEF TickVisit
<1>2. ip \in Records /\ frame \in Frames /\ loop = "idle"
  BY <1>1 DEF IInv, TickPointersHeld, TypeOK, FrameOK
<1>3. /\ v \in Session \cup {NoSession}
      /\ v = NoSession => sessions[ip].state = "ENDED"
      /\ v # NoSession => v.state = sessions[ip].state
  BY <1>2, VisitedRecord DEF IInv
<1>4. sessions' \in Maps
  BY <1>1, <1>3 DEF IInv, TypeOK, Maps
<1>5. ip \notin frame.fresh /\ Records \ {ip} \subseteq Records'
  BY <1>1 DEF IInv, FrameOK, Records, TypeOK
<1>6. CASE fn # "none" /\ ~Busy /\ ~quitNow
  <2>1. /\ frame' = [frame EXCEPT !.fn = fn, !.ip = ip, !.todo = @ \ {ip}]
        /\ proc' = Script(fn, ip, sessions) /\ loop' = "exec" /\ code' = code
    BY <1>6 DEF TickVisit, ExecSuspends
  <2>2. fn \in ScriptFns
    BY <1>6, TickCallFits DEF ScriptFns
  <2>3. /\ frame'.fn = fn /\ frame'.ip = ip /\ frame'.caller = frame.caller
        /\ frame'.todo = frame.todo \ {ip} /\ frame'.freed = frame.freed
        /\ frame'.fresh = frame.fresh
    BY <1>2, <2>1 DEF Frames
  <2>4. frame' \in Frames
    BY <1>2, <2>1, <2>2 DEF Frames, ScriptFns
  <2>5. proc' \in Commands
    BY <1>2, <2>1, ScriptIsCommand, SameHarmless DEF IInv, Records
  <2>6. v # NoSession
    BY <1>3, <1>6, TickCallFits
  <2>7. SuspendedStateHeld'
    <3>1. ip \in Records' /\ ip \notin frame'.freed /\ sessions'[ip].state = sessions[ip].state
      BY <1>1, <1>3, <2>3, <2>6 DEF Records, IInv, TypeOK
    <3>2. /\ fn = "exhaust" => sessions[ip].state = "STARTED"
          /\ fn = "end" => sessions[ip].state # "ENDED"
          /\ fn = "start" => sessions[ip].state # "STARTED"
          /\ fn # "pause"
      BY TickCallFits
    <3> HIDE DEF fn
    <3> QED BY <2>3, <3>1, <3>2 DEF SuspendedStateHeld
  <2>8. TickPointersHeld'
    BY <1>5, <2>3 DEF IInv, TickPointersHeld
  <2>9. FrameOK'
    <3>1. frame'.caller \in Methods \cup {"tick"}
      BY <1>1, <2>3 DEF IInv, FrameOK
    <3>2. frame'.fresh \subseteq Records'
      BY <1>5, <2>3 DEF IInv, FrameOK
    <3> QED BY <1>1, <2>1, <2>2, <2>3, <3>1, <3>2 DEF IInv, FrameOK, ScriptFns
  <2> QED BY <1>1, <1>4, <2>1, <2>4, <2>5, <2>7, <2>8, <2>9, NoReplyOK DEF IInv, TypeOK, Maps
<1>7. CASE ~(fn # "none" /\ ~Busy /\ ~quitNow)
  <2>1. frame' = [frame EXCEPT !.todo = @ \ {ip}] /\ loop' = "idle" /\ code' = code
    BY <1>2, <1>7 DEF TickVisit, runVars, ExecAborted
  <2>6. proc' \in Commands \cup {NoCmd}
    <3>1. UNCHANGED runVars \/ (fn # "none" /\ proc' = Script(fn, ip, sessions))
      BY <1>7 DEF TickVisit, ExecAborted
    <3>2. Script(fn, ip, sessions) \in Commands
      BY <1>2, ScriptIsCommand, SameHarmless DEF IInv, Records
    <3> QED BY <3>1, <3>2 DEF IInv, TypeOK, runVars
  <2>2. /\ frame'.fn = frame.fn /\ frame'.todo = frame.todo \ {ip}
        /\ frame'.freed = frame.freed /\ frame'.fresh = frame.fresh
        /\ frame'.caller = frame.caller /\ frame' \in Frames
    BY <1>2, <2>1 DEF Frames
  <2>3. SuspendedStateHeld'
    BY <1>1, <2>2 DEF SuspendedStateHeld
  <2>4. TickPointersHeld'
    BY <1>5, <2>2 DEF IInv, TickPointersHeld
  <2>5. FrameOK'
    BY <1>1, <1>2, <1>5, <2>1, <2>2 DEF IInv, FrameOK, ScriptFns
  <2> QED BY <1>1, <1>4, <2>1, <2>2, <2>3, <2>4, <2>5, <2>6, NoReplyOK DEF IInv, TypeOK, Maps
<1> QED BY <1>6, <1>7

LEMMA TickRestInv ==
  ASSUME IInv, TickDone \/ \E ip \in IPs : TickStale(ip)
  PROVE  IInv'
<1>1. /\ frame.fn = "tick" /\ reply' = NoReply
      /\ UNCHANGED <<defaults, daemon, signalled, rules, proc, loop, code>>
  BY DEF TickDone, TickStale, runVars
<1>2. frame \in Frames /\ loop = "idle"
  BY <1>1 DEF IInv, TypeOK, FrameOK
<1>3. CASE TickDone
  <2>1. frame' = NoFrame /\ sessions' = sessions
    BY <1>3 DEF TickDone
  <2>2. frame' \in Frames /\ frame'.fn = "none" /\ frame'.todo = {} /\ frame'.fresh = {}
    BY <2>1 DEF NoFrame, NewFrame, Frames
  <2>3. FrameOK' /\ SuspendedStateHeld' /\ TickPointersHeld'
    BY <1>1, <1>2, <2>1, <2>2 DEF FrameOK, SuspendedStateHeld, TickPointersHeld, ScriptFns
  <2> QED BY <1>1, <2>1, <2>2, <2>3, NoReplyOK DEF IInv, TypeOK
<1>4. ASSUME NEW ip \in IPs, TickStale(ip)
      PROVE  IInv'
  <2>1. /\ ip \in frame.freed /\ sessions' \in {sessions, removeSession(sessions, ip)}
        /\ frame' = [frame EXCEPT !.todo = @ \ {ip},
                                 !.fresh = {h \in @ : sessions'[h] # NoSession}]
    BY <1>4 DEF TickStale
  <2>2. /\ frame'.fn = frame.fn /\ frame'.todo = frame.todo \ {ip}
        /\ frame'.freed = frame.freed /\ frame'.caller = frame.caller
        /\ frame'.fresh = {h \in frame.fresh : sessions'[h] # NoSession}
    BY <1>2, <2>1 DEF Frames
  <2>3. frame' \in Frames
    BY <1>2, <2>1 DEF Frames
  <2>4. sessions' \in Maps /\ Records \ {ip} \subseteq Records'
    BY <2>1 DEF removeSession, Records, Maps, IInv, TypeOK
  <2>5. frame'.fresh \subseteq Records'
    BY <1>2, <2>2 DEF Records, Frames
  <2>6. FrameOK' /\ SuspendedStateHeld' /\ TickPointersHeld'
    BY <1>1, <1>2, <2>1, <2>2, <2>4, <2>5
       DEF IInv, FrameOK, SuspendedStateHeld, TickPointersHeld, ScriptFns
  <2> QED BY <1>1, <2>3, <2>4, <2>6, NoReplyOK DEF IInv, TypeOK, Maps
<1> QED BY <1>3, <1>4

LEMMA NestedTickInv ==
  ASSUME IInv, NestedTick
  PROVE  IInv'
<1> DEFINE S == [ip \in IPs |-> IF ip \in Records THEN Visited(sessions, ip) ELSE NoSession]
<1>1. /\ sessions' = S /\ frame' = Track(S) /\ reply' = NoReply
      /\ UNCHANGED <<defaults, daemon, signalled, rules>>
  BY DEF NestedTick
<1>2. S \in Maps /\ Harmless(S)
  <2>1. \A ip \in IPs : S[ip] \in Session \cup {NoSession}
    BY VisitedRecord DEF IInv
  <2>2. \A ip \in IPs : sessions[ip] # NoSession => ip \in Records /\ S[ip] = Visited(sessions, ip)
    BY DEF Records
  <2> QED BY <2>1, <2>2, VisitedRecord DEF IInv, Maps, Harmless
<1>3. proc' \in Commands \cup {NoCmd} /\ loop' = loop /\ code' = code
  <2>1. \/ UNCHANGED runVars
        \/ \E ip \in Records : ExecRefused(Script(TickCall(sessions[ip]), ip, sessions))
    BY DEF NestedTick
  <2>2. \A ip \in Records : Script(TickCall(sessions[ip]), ip, sessions) \in Commands
    BY ScriptIsCommand, SameHarmless DEF IInv, Records
  <2> QED BY <2>1, <2>2 DEF ExecRefused, runVars, IInv, TypeOK
<1>4. frame' \in Frames /\ FrameOK' /\ SuspendedStateHeld' /\ TickPointersHeld'
  BY <1>1, <1>2, <1>3, TrackKeeps
<1> QED BY <1>1, <1>2, <1>3, <1>4, NoReplyOK DEF IInv, TypeOK, Maps

-----------------------------------------------------------------------------
(* Handlers that resume *)

\* A handler that returns to its caller, on records S in which no record is
\* missing but, for a D-Bus caller, those that it removed.
LEMMA HandsInv ==
  ASSUME IInv, frame.fn \in ScriptFns, NEW ret \in {0, Failed}, Hands(ret),
         loop' = "idle", proc' \in Commands \cup {NoCmd}, code' = code,
         sessions' \in Maps, frame.caller = "tick" => Records \subseteq Records',
         UNCHANGED <<defaults, daemon, signalled, rules>>
  PROVE  IInv'
<1>1. frame \in Frames /\ frame.ip \in IPs /\ frame.caller \in Methods \cup {"tick"}
  BY DEF IInv, TypeOK, FrameOK
<1>2. loop' = "idle" /\ proc' \in Commands \cup {NoCmd} /\ code' = code
  OBVIOUS
<1>3. CASE frame.caller = "tick"
  <2>1. frame' = [frame EXCEPT !.fn = "tick", !.ip = NoIP] /\ reply' = NoReply
    BY <1>3 DEF Hands
  <2>2. /\ frame'.fn = "tick" /\ frame'.caller = "tick" /\ frame'.todo = frame.todo
        /\ frame'.freed = frame.freed /\ frame'.fresh = frame.fresh /\ frame' \in Frames
    BY <1>1, <1>3, <2>1 DEF Frames
  <2>3. SuspendedStateHeld'
    BY <2>2 DEF SuspendedStateHeld
  <2>4. TickPointersHeld'
    BY <1>3, <2>2 DEF IInv, TickPointersHeld
  <2>5. FrameOK'
    BY <1>2, <1>3, <2>2 DEF IInv, FrameOK, ScriptFns
  <2> QED BY <1>2, <2>1, <2>2, <2>3, <2>4, <2>5, NoReplyOK DEF IInv, TypeOK, Maps
<1>4. CASE frame.caller # "tick"
  <2>1. frame' = NoFrame /\ Answer(frame.caller, frame.ip, ret)
    BY <1>4 DEF Hands
  <2>2. frame' \in Frames /\ frame'.fn = "none" /\ frame'.todo = {} /\ frame'.fresh = {}
    BY <2>1 DEF NoFrame, NewFrame, Frames
  <2>3. FrameOK' /\ SuspendedStateHeld' /\ TickPointersHeld'
    BY <1>2, <2>1, <2>2 DEF FrameOK, SuspendedStateHeld, TickPointersHeld, ScriptFns
  <2>4. reply' \in Replies
    BY <1>1, <1>4, <2>1 DEF Answer, Replies
  <2> QED BY <1>2, <2>2, <2>3, <2>4 DEF IInv, TypeOK, Maps
<1> QED BY <1>3, <1>4

LEMMA ReturnsInv ==
  ASSUME IInv, frame.fn \in ScriptFns, Returns(code), sessions' \in Maps,
         frame.caller = "tick" => Records \subseteq Records',
         UNCHANGED <<defaults, daemon, signalled, rules>>
  PROVE  IInv'
<1>1. loop' = "idle" /\ UNCHANGED <<proc, code>> /\ Hands(code)
  BY DEF Returns, ExecReturns
<1>2. code \in {0, Failed} /\ proc' \in Commands \cup {NoCmd}
  BY <1>1 DEF IInv, TypeOK
<1> QED BY <1>1, <1>2, HandsInv

\* A handler that goes on with another script of the same record.
LEMMA GoesOnInv ==
  ASSUME IInv, frame.fn \in ScriptFns, frame.ip \in Records \ frame.freed,
         NEW fn \in {"start", "end"}, GoesOn(fn, sessions),
         sessions' \in Maps, Records \subseteq Records',
         fn = "start" => sessions'[frame.ip].state # "STARTED",
         fn = "end" => sessions'[frame.ip].state # "ENDED",
         UNCHANGED <<defaults, daemon, signalled, rules>>
  PROVE  IInv'
<1>1. frame \in Frames /\ frame.ip \in IPs
  BY DEF IInv, TypeOK, FrameOK
<1>2. proc' = Script(fn, frame.ip, sessions) /\ code' = code
  BY DEF GoesOn, ExecReturnsInto, ExecAborted
<1>3. proc' \in Commands
  BY <1>1, <1>2, ScriptIsCommand, SameHarmless DEF IInv, Records
<1>4. CASE quitNow
  <2>1. loop' = "idle" /\ Hands(Failed)
    BY <1>4 DEF GoesOn, ExecAborted
  <2> QED BY <1>2, <1>3, <2>1, HandsInv
<1>5. CASE ~quitNow
  <2>1. loop' = "exec" /\ frame' = [frame EXCEPT !.fn = fn] /\ reply' = NoReply
    BY <1>5 DEF GoesOn, ExecReturnsInto
  <2>2. /\ frame'.fn = fn /\ frame'.ip = frame.ip /\ frame'.caller = frame.caller
        /\ frame'.todo = frame.todo /\ frame'.freed = frame.freed
        /\ frame'.fresh = frame.fresh /\ frame' \in Frames
    BY <1>1, <2>1 DEF Frames
  <2>3. SuspendedStateHeld'
    BY <2>2 DEF SuspendedStateHeld
  <2>4. TickPointersHeld'
    BY <2>2 DEF IInv, TickPointersHeld
  <2>5. FrameOK'
    BY <2>1, <2>2 DEF IInv, FrameOK, ScriptFns
  <2> QED BY <1>2, <1>3, <2>1, <2>2, <2>3, <2>4, <2>5, NoReplyOK DEF IInv, TypeOK, Maps
<1> QED BY <1>4, <1>5

\* One record entered the state of fn, or nothing changed.
LEMMA ResumedRecords ==
  ASSUME TypeOK, NEW fn \in ScriptFns, frame.ip \in Records
  PROVE  /\ Resumed(fn) \in Maps
         /\ \A ip \in Records : Resumed(fn)[ip] # NoSession
         /\ code = 0 => Resumed(fn)[frame.ip] = Entered(fn, sessions[frame.ip])
         /\ code # 0 => Resumed(fn) = sessions
<1>1. sessions[frame.ip] \in Session
  BY DEF TypeOK, Records
<1>2. Entered(fn, sessions[frame.ip]) \in Session
  BY <1>1, EnteredRecord
<1> QED BY <1>1, <1>2, NoRecordAssumption DEF TypeOK, Maps, Records, Resumed

LEMMA ResumeStartInv ==
  ASSUME IInv, ResumeStart
  PROVE  IInv'
<1>1. frame.fn = "start" /\ Returns(code) /\ UNCHANGED <<defaults, daemon, signalled, rules>>
      /\ frame.fn \in ScriptFns
  BY DEF ResumeStart, Resumes, ScriptFns
<1>2. CASE frame.ip \notin frame.freed
  <2>1. frame.ip \in Records /\ sessions' = Resumed("start")
    BY <1>1, <1>2 DEF IInv, SuspendedStateHeld, ResumeStart
  <2>2. sessions' \in Maps /\ Records \subseteq Records'
    BY <1>1, <2>1, ResumedRecords DEF IInv, Records
  <2> QED BY <1>1, <2>2, ReturnsInv
<1>3. CASE frame.ip \in frame.freed /\ sessions' = sessions
  <2>1. sessions' \in Maps /\ Records \subseteq Records'
    BY <1>3, SameHarmless DEF IInv, Records
  <2> QED BY <1>1, <2>1, ReturnsInv
<1>4. ASSUME NEW ip \in frame.fresh, sessions' = [sessions EXCEPT ![ip] = Entered("start", @)]
      PROVE  IInv'
  <2>1. ip \in Records
    BY <1>4 DEF IInv, FrameOK
  <2>2. Entered("start", sessions[ip]) \in Session
    BY <1>1, <2>1, EnteredRecord DEF IInv, TypeOK, Records
  <2>3. sessions' \in Maps /\ Records \subseteq Records'
    BY <1>4, <2>1, <2>2, NoRecordAssumption DEF IInv, TypeOK, Maps, Records
  <2> QED BY <1>1, <2>3, ReturnsInv
<1> QED BY <1>2, <1>3, <1>4 DEF ResumeStart

LEMMA ResumePauseInv ==
  ASSUME IInv, ResumePause
  PROVE  IInv'
<1>1. /\ frame.fn = "pause" /\ frame.fn \in ScriptFns /\ sessions' = Resumed("pause")
      /\ UNCHANGED <<defaults, daemon, signalled, rules>>
  BY DEF ResumePause, Resumes, ScriptFns
<1>2. frame.ip \in Records \ frame.freed
  BY <1>1 DEF IInv, SuspendedStateHeld
<1>3. sessions' \in Maps /\ Records \subseteq Records'
  BY <1>1, <1>2, ResumedRecords DEF IInv, Records
<1>4. CASE frame.caller \in Setters /\ code = 0 /\ ~Busy /\ ~isExhausted(sessions[frame.ip])
  <2>1. GoesOn("start", sessions)
    BY <1>4 DEF ResumePause
  <2>2. sessions'[frame.ip] = Entered("pause", sessions[frame.ip])
    BY <1>1, <1>2, <1>4, ResumedRecords DEF IInv
  <2>3. sessions'[frame.ip].state = "PAUSED"
    BY <1>1, <1>2, <2>2, EnteredRecord DEF IInv, TypeOK, Records
  <2> QED BY <1>1, <1>2, <1>3, <2>1, <2>3, GoesOnInv
<1>5. CASE ~(frame.caller \in Setters /\ code = 0 /\ ~Busy /\ ~isExhausted(sessions[frame.ip]))
  <2>1. Returns(code)
    BY <1>5 DEF ResumePause
  <2> QED BY <1>1, <1>3, <2>1, ReturnsInv
<1> QED BY <1>4, <1>5

LEMMA ResumeEndInv ==
  ASSUME IInv, ResumeEnd
  PROVE  IInv'
<1>1. /\ frame.fn = "end" /\ frame.fn \in ScriptFns /\ Returns(code)
      /\ UNCHANGED <<defaults, daemon, signalled, rules>>
  BY DEF ResumeEnd, Resumes, ScriptFns
<1>2. frame.ip \in Records \ frame.freed
  BY <1>1 DEF IInv, SuspendedStateHeld
<1>3. CASE code = 0 /\ frame.caller = "deleteSession"
  <2>1. sessions' = removeSession(sessions, frame.ip)
    BY <1>3 DEF ResumeEnd
  <2>2. sessions' \in Maps
    BY <2>1 DEF removeSession, IInv, TypeOK, Maps
  <2> QED BY <1>1, <1>3, <2>2, ReturnsInv
<1>4. CASE ~(code = 0 /\ frame.caller = "deleteSession")
  <2>1. sessions' = Resumed("end")
    BY <1>4 DEF ResumeEnd
  <2>2. sessions' \in Maps /\ Records \subseteq Records'
    BY <1>1, <1>2, <2>1, ResumedRecords DEF IInv, Records
  <2> QED BY <1>1, <2>2, ReturnsInv
<1> QED BY <1>3, <1>4

LEMMA ResumeExhaustInv ==
  ASSUME IInv, ResumeExhaust
  PROVE  IInv'
<1>1. /\ frame.fn = "exhaust" /\ frame.fn \in ScriptFns /\ sessions' = Resumed("exhaust")
      /\ UNCHANGED <<defaults, daemon, signalled, rules>>
  BY DEF ResumeExhaust, Resumes, ScriptFns
<1>2. frame.ip \in Records \ frame.freed /\ sessions[frame.ip].state = "STARTED"
  BY <1>1 DEF IInv, SuspendedStateHeld
<1>3. sessions' \in Maps /\ Records \subseteq Records'
  BY <1>1, <1>2, ResumedRecords DEF IInv, Records
<1>4. sessions'[frame.ip].state # "ENDED"
  <2>1. CASE code = 0
    BY <1>1, <1>2, <2>1, ResumedRecords, EnteredRecord DEF IInv, TypeOK, Records
  <2>2. CASE code # 0
    BY <1>1, <1>2, <2>2, ResumedRecords DEF IInv
  <2> QED BY <2>1, <2>2
<1>5. CASE GoesOn("end", sessions)
  BY <1>1, <1>2, <1>3, <1>4, <1>5, GoesOnInv
<1>6. CASE Returns(code)
  BY <1>1, <1>3, <1>6, ReturnsInv
<1> QED BY <1>5, <1>6 DEF ResumeExhaust

-----------------------------------------------------------------------------
(* Scripts, and the daemon *)

LEMMA ScriptInv ==
  ASSUME IInv, ScriptEffect \/ ScriptExits \/ ScriptFails
  PROVE  IInv'
<1>1. UNCHANGED <<sessions, defaults, frame, daemon, signalled>> /\ reply' = NoReply /\ Busy
  BY DEF ScriptEffect, ScriptExits, ScriptFails
<1>2. proc \in Commands
  BY <1>1 DEF IInv, TypeOK, Busy
<1>3. CASE ScriptEffect
  <2>1. rules' \in [IPs -> Bandwidths \cup {NoRule}]
    BY <1>3, AfterRules DEF ScriptEffect, IInv
  <2>2. proc' \in Commands /\ UNCHANGED <<loop, code>>
    BY <1>2, <1>3 DEF ScriptEffect, Commands
  <2> QED BY <1>1, <2>1, <2>2, StackKept, NoReplyOK DEF IInv, TypeOK
<1>4. CASE ScriptExits \/ ScriptFails
  <2>1. \E r \in {0, Failed} : finishedInternalExec(r) /\ UNCHANGED rules
    BY <1>4 DEF ScriptExits, ScriptFails
  <2>2. /\ proc' = NoCmd /\ loop' \in {"idle", "exec", "exited"} /\ code' \in {0, Failed}
        /\ UNCHANGED rules
        /\ loop = "idle" <=> loop' = "idle"
    BY <2>1 DEF finishedInternalExec, IInv, TypeOK
  <2> QED BY <1>1, <2>2, StackKept, NoReplyOK DEF IInv, TypeOK
<1> QED BY <1>3, <1>4

\* A step that empties the stack.
LEMMA EmptyStack ==
  ASSUME frame' = NoFrame, loop' = "idle"
  PROVE  frame' \in Frames /\ FrameOK' /\ SuspendedStateHeld' /\ TickPointersHeld'
BY DEF NoFrame, NewFrame, Frames, FrameOK, SuspendedStateHeld, TickPointersHeld, ScriptFns

\* A step that suspends main() or a clean-up, which hold no record.
LEMMA PlainStack ==
  ASSUME NEW fn \in {"init", "cleanup"}, frame' = NewFrame(fn, NoIP, fn), loop' # "idle"
  PROVE  frame' \in Frames /\ FrameOK' /\ SuspendedStateHeld' /\ TickPointersHeld'
BY DEF NewFrame, Frames, FrameOK, SuspendedStateHeld, TickPointersHeld, ScriptFns

LEMMA NoSessionsMap == NoSessions \in Maps
BY DEF NoSessions, Maps

LEMMA InitialDefaultsOK == InitialDefaults \in Defaults
BY BandwidthsAssumption, LimitsAssumption DEF InitialDefaults, Defaults, Unlimited, Quotas, Times

LEMMA PlainCommands == init \in Commands /\ clean_up \in Commands
BY DEF init, clean_up, Command, Commands

LEMMA BootInv ==
  ASSUME IInv, Boot
  PROVE  IInv'
<1>1. /\ daemon' = "starting" /\ defaults' = InitialDefaults /\ proc' = init
      /\ loop' = "exec" /\ code' = code /\ frame' = NewFrame("init", NoIP, "init")
      /\ reply' = NoReply /\ signalled' = FALSE /\ UNCHANGED <<sessions, rules>>
  BY DEF Boot, ExecSuspends
<1> QED BY <1>1, PlainStack, PlainCommands, InitialDefaultsOK, NoReplyOK DEF IInv, TypeOK

LEMMA ResumeInitInv ==
  ASSUME IInv, ResumeInit
  PROVE  IInv'
<1>1. /\ daemon' \in {"up", "down", "failing"} /\ frame' = NoFrame /\ reply' = NoReply
      /\ loop' = "idle" /\ UNCHANGED <<sessions, defaults, signalled, rules, proc, code>>
  BY DEF ResumeInit, Resumes, ExecReturns
<1> QED BY <1>1, EmptyStack, NoReplyOK DEF IInv, TypeOK

LEMMA QuitInv ==
  ASSUME IInv, Quit
  PROVE  IInv'
<1>1. /\ daemon' \in {"quitting", daemon} /\ signalled' = TRUE /\ reply' = NoReply
      /\ UNCHANGED <<sessions, defaults, frame, rules, proc>>
      /\ loop' \in {"idle", "exec", "exited"} /\ code' \in {0, Failed}
      /\ loop = "idle" <=> loop' = "idle"
  BY DEF Quit, ExecQuits, runVars, IInv, TypeOK
<1> QED BY <1>1, StackKept, NoReplyOK DEF IInv, TypeOK

LEMMA CleanupInv ==
  ASSUME IInv, cleanup \/ ResumeCleanup
  PROVE  IInv'
<1>1. reply' = NoReply /\ UNCHANGED <<defaults, signalled, rules>>
  BY DEF cleanup, ResumeCleanup, Resumes
<1>2. CASE cleanup /\ ~(Busy \/ quitNow)
  <2>1. /\ proc' = clean_up /\ loop' = "exec" /\ code' = code
        /\ frame' = NewFrame("cleanup", NoIP, "cleanup") /\ UNCHANGED <<sessions, daemon>>
    BY <1>2 DEF cleanup, ExecSuspends
  <2> QED BY <1>1, <2>1, PlainStack, PlainCommands, NoReplyOK DEF IInv, TypeOK
<1>3. CASE (cleanup /\ (Busy \/ quitNow)) \/ ResumeCleanup
  <2>1. CleanedUp /\ proc' \in {proc, clean_up} /\ code' = code /\ loop' = "idle"
    <3>1. CASE cleanup /\ (Busy \/ quitNow)
      <4>1. frame = NoFrame /\ CleanedUp /\ (UNCHANGED runVars \/ ExecAborted(clean_up))
        BY <3>1 DEF cleanup
      <4>2. frame.fn = "none"
        BY <4>1 DEF NoFrame, NewFrame
      <4> QED BY <4>1, <4>2 DEF runVars, ExecAborted, IInv, FrameOK
    <3>2. CASE ResumeCleanup
      BY <3>2 DEF ResumeCleanup, ExecReturns
    <3> QED BY <1>3, <3>1, <3>2
  <2>2. sessions' \in Maps /\ frame' = NoFrame /\ daemon' \in {"exiting", "dying"}
    BY <2>1, NoSessionsMap DEF CleanedUp
  <2> QED BY <1>1, <2>1, <2>2, EmptyStack, PlainCommands, NoReplyOK DEF IInv, TypeOK, Maps
<1> QED BY <1>2, <1>3

LEMMA GoneInv ==
  ASSUME IInv, Gone
  PROVE  IInv'
<1>1. /\ daemon' = "down" /\ sessions' = NoSessions /\ defaults' = InitialDefaults
      /\ frame' = NoFrame /\ reply' = NoReply /\ proc' = NoCmd /\ loop' = "idle"
      /\ code' = Failed /\ signalled' = FALSE
  BY DEF Gone
<1>2. rules' \in [IPs -> Bandwidths \cup {NoRule}]
  BY AfterRules DEF Gone, IInv, TypeOK
<1> QED BY <1>1, <1>2, EmptyStack, NoSessionsMap, InitialDefaultsOK, NoReplyOK
        DEF IInv, TypeOK, Maps

-----------------------------------------------------------------------------
(* The theorems *)

LEMMA InitInv == Init => IInv
<1> SUFFICES ASSUME Init
             PROVE  IInv
  OBVIOUS
<1>1. frame = NoFrame /\ loop = "idle"
  BY DEF Init
<1>2. frame \in Frames /\ FrameOK /\ SuspendedStateHeld /\ TickPointersHeld
  BY <1>1 DEF NoFrame, NewFrame, Frames, FrameOK, SuspendedStateHeld, TickPointersHeld, ScriptFns
<1>3. TypeOK
  BY <1>2, NoSessionsMap, InitialDefaultsOK
     DEF Init, TypeOK, Maps, NoRules, NoReply, Replies
<1> QED BY <1>2, <1>3 DEF IInv

LEMMA NextInv == IInv /\ [Next]_vars => IInv'
<1> SUFFICES ASSUME IInv, [Next]_vars
             PROVE  IInv'
  OBVIOUS
<1>1. CASE Call
  BY <1>1, CallInv
<1>2. CASE \E ip \in IPs : updateQuotaRemaining(ip)
  BY <1>2, QuotaEventInv
<1>3. CASE tick \/ NestedTick
  BY <1>3, TickInv, NestedTickInv
<1>4. CASE TickStep
  BY <1>4, TickVisitInv, TickRestInv DEF TickStep
<1>5. CASE Resume
  BY <1>5, ResumeInitInv, ResumeStartInv, ResumePauseInv, ResumeEndInv, ResumeExhaustInv,
     CleanupInv DEF Resume
<1>6. CASE ScriptEffect \/ ScriptExits \/ ScriptFails
  BY <1>6, ScriptInv
<1>7. CASE Boot \/ Quit \/ cleanup
  BY <1>7, BootInv, QuitInv, CleanupInv
<1>8. CASE Exit \/ SecondSignal \/ Crash
  BY <1>8, GoneInv DEF Exit, SecondSignal, Crash
<1>9. CASE UNCHANGED vars
  <2>1. UNCHANGED <<sessions, defaults, frame, reply, daemon, signalled, rules, proc, loop, code>>
    BY <1>9 DEF vars
  <2> QED BY <2>1, StackKept DEF IInv, TypeOK
<1> QED BY <1>1, <1>2, <1>3, <1>4, <1>5, <1>6, <1>7, <1>8, <1>9 DEF Next

LEMMA Invariant == Spec => []IInv
BY InitInv, NextInv, PTL DEF Spec

\* Every variable keeps its type: no handler reads a record through a pointer
\* that foreach or a lookup did not check, except those that were freed, and no
\* timer or limit leaves its range, in any interleaving of handlers, scripts,
\* signals and crashes.
THEOREM TypeCorrect == Spec => []TypeOK
<1>1. IInv => TypeOK
  BY DEF IInv
<1> QED BY <1>1, Invariant, PTL

\* Re-entrancy is harmless to a suspended handler: what pauseSession(),
\* endSession() and exhaustSession() checked before their scripts holds when
\* el.exec() returns, and so does what startSession() checked unless its record
\* was deleted.
THEOREM ReentrancySafe == Spec => []SuspendedStateHeld
<1>1. IInv => SuspendedStateHeld
  BY DEF IInv
<1> QED BY <1>1, Invariant, PTL

\* The pointers that tick() has yet to follow are records or were freed by a
\* nested call, which deletes ended records alone.
THEOREM TickPointersSafe == Spec => []TickPointersHeld
<1>1. IInv => TickPointersHeld
  BY DEF IInv
<1> QED BY <1>1, Invariant, PTL

-----------------------------------------------------------------------------
(* Nested handlers move no session *)

LEMMA CallSets ==
  ASSUME NEW S, NEW fn, NEW op, NEW ip, NEW ret
  PROVE  /\ Return(op, ip, ret, S) => sessions' = S
         /\ Perform(fn, ip, op, S) => sessions' = S
         /\ PauseAndPlay(op, ip, S) => sessions' = S
<1>1. \A r : Return(op, ip, r, S) => sessions' = S
  BY DEF Return
<1>2. \A f : Perform(f, ip, op, S) => sessions' = S
  BY <1>1 DEF Perform
<1>3. ASSUME PauseAndPlay(op, ip, S)
      PROVE  sessions' = S
  <2>1. CASE S[ip].state = "STARTED"
    BY <1>2, <1>3, <2>1 DEF PauseAndPlay
  <2>2. CASE S[ip].state = "PAUSED"
    BY <1>2, <1>3, <2>2 DEF PauseAndPlay
  <2>3. CASE S[ip].state \notin {"STARTED", "PAUSED"}
    BY <1>1, <1>3, <2>3 DEF PauseAndPlay
  <2> QED BY <2>1, <2>2, <2>3
<1> QED BY <1>1, <1>2, <1>3

\* What a call that leaves the states of the records alone does to them at most.
LEMMA SameStates ==
  ASSUME sessions' = sessions
  PROVE  Harmless(sessions')
BY DEF Harmless

\* Before its script returned, a call has changed no state.
LEMMA CallHarmless ==
  ASSUME IInv, Call
  PROVE  Harmless(sessions')
<1>1. TypeOK
  BY DEF IInv
<1>2. ASSUME NEW ip \in IPs, newSession(ip) \/ startSession(ip)
      PROVE  Harmless(sessions')
  <2>1. sessions' = WithRecord(ip)
    BY <1>2, CallSets DEF newSession, startSession
  <2> QED BY <1>1, <2>1, WithRecordHarmless
<1>3. ASSUME NEW ip \in IPs, pauseSession(ip) \/ playSession(ip) \/ endSession(ip)
      PROVE  Harmless(sessions')
  <2>1. sessions' = sessions
    BY <1>3, CallSets DEF pauseSession, playSession, endSession
  <2> QED BY <2>1, SameStates
<1>4. ASSUME NEW ip \in IPs, deleteSession(ip)
      PROVE  Harmless(sessions')
  <2>1. CASE ip \in Records /\ sessions[ip].state = "ENDED"
    <3>1. sessions' = removeSession(sessions, ip)
      BY <1>4, <2>1, CallSets DEF deleteSession
    <3> QED BY <1>1, <2>1, <3>1, RemovedHarmless
  <2>2. CASE ~(ip \in Records /\ sessions[ip].state = "ENDED")
    <3>1. sessions' = sessions
      BY <1>4, <2>2, CallSets DEF deleteSession
    <3> QED BY <3>1, SameStates
  <2> QED BY <2>1, <2>2
<1>5. ASSUME NEW ip \in IPs,
             \/ updateSession(ip)
             \/ \E bw \in Bandwidths : setBandwidth(ip, bw)
             \/ \E q \in Quotas : setQuota(ip, q)
             \/ \E t \in Times \cap Quotas : setTime(ip, t)
      PROVE  Harmless(sessions')
  <2>1. CASE ip \in Records
    <3>1. \/ sessions' = [sessions EXCEPT ![ip] =
                            [sessions[ip] EXCEPT !.updateTimeRemaining = UPDATE_TIME]]
          \/ \E bw \in Bandwidths :
               sessions' = [sessions EXCEPT ![ip] = [sessions[ip] EXCEPT !.bandwidth = bw]]
          \/ \E q \in Quotas :
               sessions' = [sessions EXCEPT ![ip] = [sessions[ip] EXCEPT !.quotaRemaining = q]]
      BY <1>5, <2>1, CallSets DEF updateSession, setBandwidth, setQuota, setTime
    <3>2. PICK s \in Session : /\ s.state = sessions[ip].state
                               /\ sessions' = [sessions EXCEPT ![ip] = s]
      <4>1. sessions[ip] \in Session
        BY <1>1, <2>1 DEF TypeOK, Records
      <4> QED BY <3>1, <4>1, TimersAssumption DEF Session
    <3> QED BY <1>1, <2>1, <3>2, ChangedHarmless
  <2>2. CASE ip \notin Records
    <3>1. sessions' = sessions
      BY <1>5, <2>2, CallSets DEF updateSession, setBandwidth, setQuota, setTime, NoSuchRecord
    <3> QED BY <3>1, SameStates
  <2> QED BY <2>1, <2>2
<1>6. ASSUME \/ \E bw \in Bandwidths : setDefaultBandWidth(bw)
             \/ \E q \in Quotas : setDefaultQuota(q)
             \/ \E t \in Times : setDefaultTime(t)
             \/ \E d \in Defaults : setDefaultSession(d)
      PROVE  Harmless(sessions')
  <2>1. sessions' = sessions
    BY <1>6, CallSets DEF setDefaultBandWidth, setDefaultQuota, setDefaultTime,
       setDefaultSession, SetDefaults
  <2> QED BY <2>1, SameStates
<1> QED BY <1>2, <1>3, <1>4, <1>5, <1>6 DEF Call

LEMMA TicksHarmless ==
  ASSUME IInv, NestedTick \/ \E ip \in IPs : TickVisit(ip)
  PROVE  Harmless(sessions')
<1>1. CASE NestedTick
  <2>1. \A ip \in IPs : sessions[ip] # NoSession =>
          ip \in Records /\ sessions'[ip] = Visited(sessions, ip)
    BY <1>1 DEF NestedTick, Records
  <2> QED BY <2>1, VisitedRecord DEF IInv, Harmless
<1>2. ASSUME NEW ip \in IPs, TickVisit(ip)
      PROVE  Harmless(sessions')
  <2>1. sessions' = [sessions EXCEPT ![ip] = Visited(sessions, ip)] /\ ip \in Records
    BY <1>2 DEF TickVisit, IInv, TickPointersHeld
  <2> QED BY <2>1, VisitedRecord DEF IInv, TypeOK, Harmless
<1> QED BY <1>1, <1>2

\* Handlers that are dispatched while another is suspended move no session from
\* one state to another.
THEOREM OneTransitionAtATime == Spec => NestedMovesNothing
<1> DEFINE Moves == loop = "exec" /\ loop' = "exec" =>
              \A ip \in Records :
                IF sessions'[ip] = NoSession THEN sessions[ip].state = "ENDED"
                ELSE sessions'[ip].state = sessions[ip].state
<1>1. IInv /\ [Next]_vars => Moves
  <2> SUFFICES ASSUME IInv, [Next]_vars, loop = "exec", loop' = "exec"
               PROVE  Harmless(sessions')
    BY DEF Harmless, Records
  <2>1. frame.fn \notin {"none", "tick"} /\ frame # NoFrame
    BY DEF IInv, FrameOK, NoFrame, NewFrame
  <2>2. CASE Call
    BY <2>2, CallHarmless
  <2>3. CASE \E ip \in IPs : updateQuotaRemaining(ip)
    <3>1. PICK ip \in IPs : updateQuotaRemaining(ip)
      BY <2>3
    <3>2. ip \in Records /\ sessions' = [sessions EXCEPT ![ip].quotaRemaining = Dec(@)]
      BY <3>1 DEF updateQuotaRemaining
    <3>3. sessions[ip] \in Session /\ sessions \in Maps
      BY <3>2 DEF IInv, TypeOK, Records, Maps
    <3>4. sessions'[ip].state = sessions[ip].state /\ sessions'[ip] # NoSession
      <4>1. sessions'[ip] = [sessions[ip] EXCEPT !.quotaRemaining = Dec(@)]
        BY <3>2, <3>3 DEF Maps
      <4>2. Dec(sessions[ip].quotaRemaining) \in Quotas
        BY <3>3, LimitsAssumption, DecBound DEF Session, Unlimited, Quotas, Dec
      <4> QED BY <3>3, <4>1, <4>2, NoRecordAssumption DEF Session
    <3>5. \A h \in IPs \ {ip} : sessions'[h] = sessions[h]
      BY <3>2, <3>3 DEF Maps
    <3> QED BY <3>4, <3>5 DEF Harmless
  <2>4. CASE tick \/ NestedTick \/ TickStep
    BY <2>1, <2>4, TicksHarmless, SameStates DEF TickStep, tick, TickStale, TickDone
  <2>5. CASE Resume
    BY <2>5 DEF Resume, ResumeInit, ResumeStart, ResumePause, ResumeEnd, ResumeExhaust,
       ResumeCleanup, Resumes
  <2>6. CASE ScriptEffect \/ ScriptExits \/ ScriptFails \/ Boot \/ Quit
    BY <2>6, SameStates DEF ScriptEffect, ScriptExits, ScriptFails, Boot, Quit
  <2>7. CASE cleanup \/ Exit \/ SecondSignal \/ Crash
    BY <2>1, <2>7 DEF cleanup, Exit, SecondSignal, Crash, Gone
  <2>8. CASE UNCHANGED vars
    BY <2>8, SameStates DEF vars
  <2> QED BY <2>2, <2>3, <2>4, <2>5, <2>6, <2>7, <2>8 DEF Next
<1> QED BY <1>1, Invariant, PTL DEF Spec, NestedMovesNothing
=============================================================================
