----------------------------- MODULE SessionView -----------------------------
(***************************************************************************)
(* One session as its client sees it: its state, what is left of its       *)
(* update timer, the transition under way and the answers.  Event loops,   *)
(* scripts, the other timers, limits and clients are left out; whether a   *)
(* script is refused or fails, and when time and quota run out, is open.   *)
(* Module Controller implements it for every client, but for a record that *)
(* is hit through the pointer of a deleted one.                            *)
(***************************************************************************)
EXTENDS Integers

CONSTANT UPDATE_TIME

ASSUME ViewAssumption == UPDATE_TIME \in Nat \ {0}

VARIABLES
  state,                \* of the record, or "none"
  left,                 \* updateTimeRemaining, 0 without a record
  doing,                \* the function whose script runs: "none", "start", "pause",
                        \*   "end", "exhaust", or "lost": a start without its record
  by,                   \* the call it is part of, "tick" or "none"
  answer                \* what this step answers: [op, ret], or NoAnswer

viewVars == <<state, left, doing, by, answer>>

Failed == -1
NoAnswer == [op |-> "none", ret |-> 0]
Setters == {"setBandwidth", "setQuota", "setTime"}
Operations == {"newSession", "startSession", "pauseSession", "playSession", "endSession",
          "deleteSession", "updateSession"} \cup Setters

ViewInit ==
  /\ state = "none" /\ left = 0
  /\ doing = "none" /\ by = "none"
  /\ answer = NoAnswer

Recorded == state # "none"

\* startSession() and newSession() make the record there is not.
Creates(op) ==
  IF ~Recorded /\ op \in {"newSession", "startSession"}
  THEN state' = "UNINITIALIZED" /\ left' = UPDATE_TIME
  ELSE UNCHANGED <<state, left>>

Answers(op, ret) == answer' = [op |-> op, ret |-> ret]
Silent == answer' = NoAnswer

\* (mutant) updateSession() that only looks whether the session is there.
UpdatesNothing(op) ==
  /\ Answers(op, 0)
  /\ Creates(op)
  /\ UNCHANGED <<doing, by>>

\* The call has nothing left to do.
Done(op) ==
  CASE op \in {"startSession", "playSession"} -> state = "STARTED"
    [] op = "pauseSession" -> state = "PAUSED"
    [] op \in {"endSession", "deleteSession"} -> state = "ENDED"
    [] op = "newSession" -> TRUE
    [] OTHER -> Recorded

\* What a call does that needs no script.
Acts(op) ==
  /\ Answers(op, 0)
  /\ CASE op = "updateSession" -> left' = UPDATE_TIME /\ UNCHANGED <<state, doing>>
       [] op = "deleteSession" -> /\ state' = "none" /\ left' = 0
                                  /\ doing' = IF doing = "start" THEN "lost" ELSE doing
       [] OTHER                -> Creates(op) /\ UNCHANGED doing
  /\ UNCHANGED by

Refuses(op) ==
  /\ Answers(op, Failed)
  /\ Creates(op)
  /\ UNCHANGED <<doing, by>>

\* The functions with a script that op calls first.
Needs(op) ==
  CASE op = "startSession" /\ state # "STARTED" -> {"start"}
    [] op = "playSession" /\ state = "PAUSED" -> {"start"}
    [] op = "pauseSession" /\ state = "STARTED" -> {"pause"}
    [] op \in {"endSession", "deleteSession"} /\ state \notin {"none", "ENDED"} -> {"end"}
    [] op \in Setters /\ state = "STARTED" -> {"pause"}
    [] op \in Setters /\ state = "PAUSED" -> {"start"}
    [] OTHER -> {}

Begins(op) ==
  /\ doing = "none"
  /\ by' = op
  /\ doing' \in Needs(op)
  /\ Creates(op)
  /\ Silent

Call(op) == (Acts(op) /\ Done(op)) \/ (Refuses(op) /\ ~Done(op)) \/ Begins(op)

\* What a function enters.
Entered ==
  CASE doing \in {"start", "lost"} -> "STARTED"
    [] doing = "pause" -> "PAUSED"
    [] doing = "end" -> IF by = "deleteSession" THEN "none" ELSE "ENDED"
    [] doing = "exhaust" -> "EXHAUSTED"

\* The script succeeded or failed.  A start whose record was deleted writes to none,
\* or to the record that was allocated in its place.
Enters(success) ==
  \/ (~success \/ doing = "lost") /\ UNCHANGED <<state, left>>
  \/ /\ success /\ (doing = "lost" => Recorded)
     /\ state' = Entered
     /\ left' = CASE Entered = "STARTED" -> UPDATE_TIME [] Entered = "none" -> 0 [] OTHER -> left

\* The function returns to the call or to the tick.
Ends(success) ==
  /\ doing # "none"
  /\ Enters(success)
  /\ doing' = "none" /\ by' = "none"
  /\ IF by = "tick" THEN Silent
     ELSE Answers(by, IF success \/ by \in Setters THEN 0 ELSE Failed)

\* A setter plays the session it has paused; a tick ends the session it has
\* exhausted, or could not exhaust, when the update timer is at 0 by then.
GoesOn ==
  /\ \/ doing = "pause" /\ by \in Setters /\ Enters(TRUE) /\ doing' = "start"
     \/ /\ doing = "exhaust" /\ left = 0
        /\ \E success \in BOOLEAN : Enters(success)
        /\ doing' = "end"
  /\ Silent
  /\ UNCHANGED by

Dec(n) == IF n > 0 THEN n - 1 ELSE n
Counts == left' = IF state \in {"STARTED", "EXHAUSTED"} THEN Dec(left) ELSE left

\* A tick that starts no script, or is refused it.  None fires within a tick.
Ticks ==
  /\ by # "tick"
  /\ Counts /\ Silent
  /\ UNCHANGED <<state, doing, by>>

\* (mutant) A tick that ends started sessions only.
TickBeginsOnStarted ==
  /\ doing = "none"
  /\ \/ state = "STARTED" /\ doing' = "exhaust"
     \/ state = "STARTED" /\ Dec(left) = 0 /\ doing' = "end"
     \/ state = "PAUSED" /\ doing' = "start"
  /\ by' = "tick"
  /\ Counts /\ Silent
  /\ UNCHANGED state

\* A tick whose script runs.
TickBegins ==
  /\ doing = "none"
  /\ \/ state = "STARTED" /\ doing' = "exhaust"
     \/ state \in {"STARTED", "EXHAUSTED"} /\ Dec(left) = 0 /\ doing' = "end"
     \/ state = "PAUSED" /\ doing' = "start"
  /\ by' = "tick"
  /\ Counts /\ Silent
  /\ UNCHANGED state

\* A tick that removes the record.
TickForgets ==
  /\ state = "ENDED"
  /\ state' = "none" /\ left' = 0
  /\ doing' = IF doing = "start" THEN "lost" ELSE doing
  /\ Silent
  /\ UNCHANGED by

Others == Silent /\ UNCHANGED <<state, left, doing, by>>

ViewNext ==
  \/ Others \/ Ticks
  \/ GoesOn \/ TickBegins \/ TickForgets
  \/ \E success \in BOOLEAN : Ends(success)
  \/ \E op \in Operations : Call(op)

ViewSpec == ViewInit /\ [][ViewNext]_viewVars
=============================================================================
