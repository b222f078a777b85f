---------------------------- MODULE CommandRunner ----------------------------
(***************************************************************************)
(* runcommand/runcommand.cpp in full: the child of the QProcess, the timer *)
(* and the connected slots behind the operators of module RunCommand, with *)
(* its three kinds of call.                                                *)
(*                                                                         *)
(* Calls are numbered; the exit status of the child of call n stands as n, *)
(* so that an answer shows whose child it came from.                       *)
(***************************************************************************)
EXTENDS Integers, Sequences, SequencesExt

CONSTANTS
  MaxCalls,             \* bound: the calls of one run
  Kinds,                \* of {"exec", "async", "wait"}: the methods that are called
  Hazards               \* of {"late", "quit", "nofork", "killed"}, see below

(***************************************************************************)
(* "late"   an event is dispatched between el.exit() and the return of     *)
(*          el.exec(), in the same pass of the dispatcher                  *)
(* "quit"   QCoreApplication::quit(), at any time                          *)
(* "nofork" the child cannot be started: QProcess is NotRunning again and  *)
(*          never emits finished()                                         *)
(* "killed" a signal ends the child: its exitCode() means nothing, it is 0 *)
(***************************************************************************)
ASSUME RunnerAssumption ==
  /\ MaxCalls \in Nat \ {0}
  /\ Kinds \subseteq {"exec", "async", "wait"}
  /\ Hazards \subseteq {"late", "quit", "nofork", "killed"}

CallIds == 1 .. MaxCalls
Failed == -1
Results == {Failed, 0} \cup CallIds

VARIABLES
  calls,                \* the calls made so far, see NewCall
  process,              \* the call whose child the QProcess has, 0: NotRunning
  armed,                \* timer is running
  slots,                \* the kinds whose pair of slots is connected, oldest first
  loop, code,           \* el, as in RunCommand
  owner,                \* the call that waits in el.exec(), or 0
  main,                 \* QCoreApplication::exec(): "before", "runs" or "after"
  quitNow,              \* of the thread: no event loop starts
  quitted               \* quit() was called (history)

appVars == <<main, quitNow, quitted>>
vars == <<calls, process, armed, slots, loop, code, owner, appVars>>

\* A call, how far its child has come, and what the caller has been told.
\* runCommand() tells its caller by the signal finished(int, QString).
NewCall(kind, child, answers) == [kind |-> kind, child |-> child, answers |-> answers]

Init ==
  /\ calls = <<>>
  /\ process = 0
  /\ armed = FALSE
  /\ slots = <<>>
  /\ loop = "idle" /\ code = Failed
  /\ owner = 0
  /\ main = "before" /\ quitNow = FALSE /\ quitted = FALSE

-----------------------------------------------------------------------------
(* The calls.  They are made by the start, by handlers, which the main loop *)
(* or the nested loop runs, and by the clean-up.                            *)

MayCall(kind) ==
  /\ kind \in Kinds
  /\ Len(calls) < MaxCalls
  /\ loop # "exited" \/ "late" \in Hazards
  /\ UNCHANGED appVars

\* (mutant) The state of the process is not looked at.
NeverRefuses == FALSE

Refuses == process # 0

Refused(kind) ==
  /\ Refuses
  /\ calls' = Append(calls, NewCall(kind, "none", <<Failed>>))
  /\ UNCHANGED <<process, armed, slots, loop, code, owner>>

Connected(kind) == IF Contains(slots, kind) THEN slots ELSE Append(slots, kind)

\* (mutant) timer.start() is left out.
StartsUntimed(kind, answers) ==
  /\ calls' = Append(calls, NewCall(kind, "alive", answers))
  /\ process' = Len(calls) + 1
  /\ slots' = Connected(kind)
  /\ UNCHANGED armed

\* QProcess::start(), timer.start() and the two connects.  start() by itself
\* ignores a second start.
Starts(kind, answers) ==
  /\ \E child \in {"alive"} \cup ({"nofork"} \cap Hazards) :
       /\ calls' = Append(calls, NewCall(kind, child, answers))
       /\ process' = IF child = "alive" /\ process = 0 THEN Len(calls) + 1 ELSE process
  /\ armed' = TRUE
  /\ slots' = Connected(kind)

runCommand ==
  /\ MayCall("async")
  /\ Refused("async") \/ (~Refuses /\ Starts("async", <<>>) /\ UNCHANGED <<loop, code, owner>>)

\* el.exec() does not recurse, nor does it start after quit(): it returns -1, and
\* the child that was started goes on.
ExecBlocks == loop = "idle" /\ ~quitNow

runCommandExec ==
  /\ MayCall("exec")
  /\ \/ Refused("exec")
     \/ /\ ~Refuses /\ ExecBlocks
        /\ Starts("exec", <<>>)
        /\ loop' = "exec" /\ owner' = Len(calls) + 1
        /\ UNCHANGED code
     \/ /\ ~Refuses /\ ~ExecBlocks
        /\ Starts("exec", <<Failed>>)
        /\ UNCHANGED <<loop, code, owner>>

\* A process of its own, waited for without an event loop.
runCommandWait ==
  /\ MayCall("wait")
  /\ \E result \in {Len(calls) + 1, Failed} \cup (IF "killed" \in Hazards THEN {0} ELSE {}) :
       calls' = Append(calls, NewCall("wait", IF result = 0 THEN "killed" ELSE "exited", <<result>>))
  /\ UNCHANGED <<process, armed, slots, loop, code, owner>>

\* exec() returns to its caller.
ExecReturns ==
  /\ loop = "exited"
  /\ calls' = [calls EXCEPT ![owner].answers = Append(@, code)]
  /\ loop' = "idle" /\ owner' = 0
  /\ UNCHANGED <<process, armed, slots, code, appVars>>

-----------------------------------------------------------------------------
(* The slots *)

MainRuns == main = "runs" /\ ~quitNow
LoopRuns == loop = "exec" \/ (loop = "idle" /\ MainRuns)

\* The end of the child as QProcess reports it.
Status == IF calls[process].child = "exited" THEN process ELSE 0

\* Those who hear finished(result, output): every runCommand() that waits, or
\* else the last one, for whom it is one signal too many.
Accepted(n) == calls[n].kind = "async" /\ calls[n].child # "none"
Listeners ==
  LET waiting == {n \in DOMAIN calls : Accepted(n) /\ calls[n].answers = <<>>} IN
  IF waiting # {} THEN waiting
  ELSE {n \in DOMAIN calls : Accepted(n) /\ \A m \in DOMAIN calls : Accepted(m) => m <= n}

Emitted(cs, results) ==
  [n \in DOMAIN cs |-> IF n \in Listeners
                       THEN [cs[n] EXCEPT !.answers = @ \o results] ELSE cs[n]]

\* (mutant) el.exit() while no one waits in el.exec().
ExitsAnyLoop(cs, asyncResults, execResults) ==
  /\ calls' = Emitted(cs, asyncResults)
  /\ IF execResults # <<>>
     THEN loop' = "exited" /\ code' = Last(execResults) ELSE UNCHANGED <<loop, code>>
  /\ UNCHANGED <<owner, appVars>>

\* What the slots do, given results for those who called finishedInternal() and
\* the last result given to finishedInternalExec(), each empty if not called.
Delivered(cs, asyncResults, execResults) ==
  /\ calls' = Emitted(cs, asyncResults)
  /\ IF execResults # <<>> /\ loop = "exec"
     THEN loop' = "exited" /\ code' = Last(execResults) ELSE UNCHANGED <<loop, code>>
  /\ UNCHANGED <<owner, appVars>>

\* QProcess emits finished(int): the connected slots run, disconnect both
\* signals and stop the timer; there is nothing left to kill.
To(kind, result) == IF Contains(slots, kind) THEN <<result>> ELSE <<>>
Finishes ==
  /\ process # 0 /\ calls[process].child \in {"exited", "killed"}
  /\ LoopRuns
  /\ Delivered(calls, To("async", Status), To("exec", Status))
  /\ process' = 0
  /\ armed' = FALSE
  /\ slots' = <<>>

\* (mutant) The child is killed before the slot disconnects itself.
KillsFirst(kind) ==
  IF process # 0 /\ Contains(slots, kind) THEN <<Status, Failed>> ELSE To(kind, Failed)

\* What the slot of kind hears when the timer fires.  The first slot disconnects
\* itself, kills the child and waits for it; finished(int), which that emits,
\* reaches the second slot, or without a child the time-out does.
HeardAtTimeout(kind) ==
  IF slots[1] = kind \/ process = 0 THEN To(kind, Failed) ELSE To(kind, Status)

Killed == IF process # 0 /\ calls[process].child = "alive"
          THEN [calls EXCEPT ![process].child = "timedout"] ELSE calls

\* (mutant) The time-out gives up waiting and lets the child run.
AbandonsChild ==
  /\ armed /\ LoopRuns
  /\ Delivered(calls, HeardAtTimeout("async"), HeardAtTimeout("exec"))
  /\ armed' = FALSE
  /\ slots' = <<>>
  /\ UNCHANGED process

TimesOut ==
  /\ armed /\ LoopRuns
  /\ Delivered(Killed, HeardAtTimeout("async"), HeardAtTimeout("exec"))
  /\ process' = 0
  /\ armed' = FALSE
  /\ slots' = <<>>

-----------------------------------------------------------------------------
(* Around it *)

ChildEnds ==
  /\ process # 0 /\ calls[process].child = "alive"
  /\ \E child \in {"exited"} \cup ({"killed"} \cap Hazards) :
       calls' = [calls EXCEPT ![process].child = child]
  /\ UNCHANGED <<process, armed, slots, loop, code, owner, appVars>>

\* quit() exits every event loop with 0, whatever code it was to return, and keeps
\* new ones from starting.
Quit ==
  /\ "quit" \in Hazards /\ ~quitNow
  /\ quitNow' = TRUE /\ quitted' = TRUE
  /\ IF loop = "idle" THEN UNCHANGED <<loop, code>> ELSE loop' = "exited" /\ code' = 0
  /\ UNCHANGED <<calls, process, armed, slots, owner, main>>

\* QCoreApplication::exec() forgets an earlier quit() as it begins, and the one that
\* ended its loop before it emits aboutToQuit().
AppExec ==
  /\ main = "before" /\ loop = "idle"
  /\ main' = "runs" /\ quitNow' = FALSE
  /\ UNCHANGED <<calls, process, armed, slots, loop, code, owner, quitted>>

AppExecReturns ==
  /\ main = "runs" /\ quitNow /\ loop = "idle"
  /\ main' = "after" /\ quitNow' = FALSE
  /\ UNCHANGED <<calls, process, armed, slots, loop, code, owner, quitted>>

Next ==
  \/ runCommand \/ runCommandExec \/ runCommandWait \/ ExecReturns
  \/ Finishes \/ TimesOut
  \/ ChildEnds \/ Quit \/ AppExec \/ AppExecReturns

\* The timer fires and suspended callers go on; no child ever has to end.
Spec == Init /\ [][Next]_vars /\ WF_vars(TimesOut) /\ WF_vars(ExecReturns)
-----------------------------------------------------------------------------
(* Properties *)

TypeOK ==
  /\ calls \in Seq([kind : {"exec", "async", "wait"},
                    child : {"none", "alive", "nofork", "exited", "killed", "timedout"},
                    answers : Seq(Results)])
  /\ process \in 0 .. Len(calls)
  /\ armed \in BOOLEAN
  /\ main \in {"before", "runs", "after"} /\ quitNow \in BOOLEAN /\ quitted \in BOOLEAN
  /\ slots \in {<<>>, <<"exec">>, <<"async">>, <<"exec", "async">>, <<"async", "exec">>}
  /\ loop \in {"idle", "exec", "exited"} /\ code \in Results
  /\ owner \in 0 .. Len(calls)
  /\ owner = 0 <=> loop = "idle"

\* No child runs without a timer and a slot that wait for it, the child of a call
\* that el.exec() refused included: the runner would refuse every call from then on.
ChildrenWatched == process # 0 => armed /\ slots # <<>>

\* Nobody is told twice: of a child that ends and a timer that fires, only the
\* first is heard, although killing the child makes it end as well.
AnsweredOnce == \A n \in DOMAIN calls : Len(calls[n].answers) <= 1

\* runcommand.cpp:101, "@returns exitStatus or -1 on timeout or failure": a caller
\* is told the status of the child it started, or -1.  The exceptions: 0 when quit()
\* ended its wait or a signal its child; and when a child could not be started, its
\* caller may be told what a later child returns, and that later child is killed by
\* a time-out that its own caller does not hear of.
AnswersOwnStatus ==
  \A n \in DOMAIN calls : \A i \in DOMAIN calls[n].answers :
    LET answer == calls[n].answers[i] IN
    \/ answer \in {n, Failed}
    \/ answer = 0 /\ (calls[n].child = "killed" \/ (quitted /\ calls[n].kind = "exec"))
    \/ calls[n].child = "nofork"
    \/ answer = 0 /\ calls[n].child = "timedout"
         /\ \E m \in 1 .. n - 1 : calls[m].child = "nofork"

\* Every call that was accepted is answered, by the timer if need be, while the
\* program has an event loop to answer it from: its own or the main loop.
Waiting(n) == n \in DOMAIN calls /\ calls[n].answers = <<>>
NoLoop == loop = "idle" /\ ~MainRuns
EveryCallAnswered == \A n \in CallIds : Waiting(n) ~> (NoLoop \/ ~Waiting(n))

\* The controller, which makes no other calls, may think of it as module RunCommand:
\* as long as children can be started, every step is one of that module's operators.
AsSeen == INSTANCE RunCommand WITH NoCmd <- 0, proc <- process
OnlyExec == \A n \in DOMAIN calls : calls[n].kind = "exec" /\ calls[n].child # "nofork"
SeenAsRunCommand ==
  [][OnlyExec' =>
       \/ \E n \in CallIds :
            AsSeen!ExecSuspends(n) \/ AsSeen!ExecRefused(n) \/ AsSeen!ExecAborted(n)
       \/ \E result \in Results : AsSeen!finishedInternalExec(result)
       \/ AsSeen!ExecReturns \/ AsSeen!ExecQuits]_<<process, loop, code>>
=============================================================================
