------------------------------ MODULE Lifecycle ------------------------------
(***************************************************************************)
(* main.cpp, handle_signals.c and the constructors and destructors that    *)
(* main() runs: from the first signal mask, over gw_init and the D-Bus     *)
(* registration, to the two clean-ups and the end of the process, with     *)
(* terminal signals at any point.  What handlers do to sessions is module  *)
(* Controller's; of them only the script that may be running is seen here. *)
(***************************************************************************)
EXTENDS Naturals

CONSTANTS
  DBUS_RETRIES,         \* dbus.h
  Hazards               \* what may go wrong, see HazardKinds

(***************************************************************************)
(* "misconfigured" server.ini names no interfaces                          *)
(* "nobus"         the system bus is not there                             *)
(* "refused"       the bus refuses a registration, any number of times     *)
(* "fail"          a script fails before it changes the rules              *)
(* "signal"        SIGINT, SIGTERM, SIGXCPU...: sent by someone            *)
(* "fault"         SIGSEGV, SIGBUS...: raised by an instruction            *)
(***************************************************************************)
HazardKinds == {"misconfigured", "nobus", "refused", "fail", "signal", "fault"}

ASSUME LifecycleAssumption == DBUS_RETRIES \in Nat /\ Hazards \subseteq HazardKinds

VARIABLES
  phase,                \* where main() is: "off" or as below
  tries,                \* retries, of the loop that phase is in
  script,               \* the child that runs, "gw_init", "gw_clean_up" or "host", if any
  chains,               \* the chains of the gateway are in the kernel
  pending,              \* a signal waits for the mask to be lifted
  continued,            \* static int continued: a signal was handled
  quitNow,              \* of Qt's thread data: exec() returns -1 at once
  happened              \* history: which of "unbuilt" (Controller() threw), "interrupted"
                        \*   (a signal came while a script ran, or in ~Controller),
                        \*   "failed", "killed" and "unheard" (a signal came while main()
                        \*   got ready for its loop) befell this life of the daemon

vars == <<phase, tries, script, chains, pending, continued, quitNow, happened>>

(***************************************************************************)
(* "masked" handle_signals() runs;  "bare" signals are handled, there is   *)
(* no qApp;  "app" the constructor of Controller up to its script;  "init" *)
(* it waits for gw_init;  "service", "object" the constructor of the       *)
(* adaptor;  "main" app.exec();  "quitting" aboutToQuit;  "unwinding"      *)
(* ~Controller;  "closing" its members and the rest of main()              *)
(***************************************************************************)
Starting == {"masked", "bare", "app", "init", "service", "object"}
CleanUps == {"quitting", "unwinding"}

NoScript == [name |-> "none", applied |-> FALSE]

Init ==
  /\ phase = "off"
  /\ tries = 0
  /\ script = NoScript
  /\ chains = FALSE /\ pending = FALSE /\ continued = FALSE /\ quitNow = FALSE
  /\ happened = {}

Busy == script # NoScript
Runs(name) == script' = [name |-> name, applied |-> FALSE]

\* The constructor or the clean-up waits in el.exec() for its own script.
Waits == \/ phase = "init"
         \/ phase \in CleanUps /\ script.name = "gw_clean_up"

\* main() goes on to the next phase.
Go(next) == phase' = next /\ tries' = 0

\* app.exec() forgets a quit() that was made before it.
ExecForgets == quitNow' = (quitNow /\ phase' # "main")

-----------------------------------------------------------------------------
(* Start *)

\* handle_signals(): every signal is blocked while the handlers are installed.
Start ==
  /\ phase = "off"
  /\ Go("masked")
  /\ pending' = FALSE /\ continued' = FALSE /\ quitNow' = FALSE /\ happened' = {}
  /\ UNCHANGED <<script, chains>>

\* The mask is lifted.  A signal that waited finds no qApp to quit: _exit().
Unmask ==
  /\ phase = "masked"
  /\ Go(IF pending THEN "off" ELSE "bare")
  /\ pending' = FALSE
  /\ happened' = IF pending THEN happened \cup {"killed"} ELSE happened
  /\ UNCHANGED <<script, chains, continued, quitNow>>

CreateApp ==
  /\ phase = "bare"
  /\ Go("app")
  /\ UNCHANGED <<script, chains, pending, continued, quitNow, happened>>

\* Controller::Controller().  It throws when server.ini names no interfaces, or
\* when a signal has come: gw_init is started, the exec() that should wait for it
\* answers -1.  When it throws there is no ~Controller.
Construct ==
  /\ phase = "app"
  /\ \/ ~quitNow /\ Go("init") /\ Runs("gw_init") /\ UNCHANGED happened
     \/ /\ \/ "misconfigured" \in Hazards /\ UNCHANGED script
           \/ quitNow /\ Runs("gw_init")
        /\ Go("closing")
        /\ happened' = happened \cup {"unbuilt"}
  /\ UNCHANGED <<chains, pending, continued, quitNow>>

\* (mutants) A limit that is off by one, a count that starts again.
GivesUpEarly(retries) == retries + 1 >= DBUS_RETRIES
CountAgain(retries) == (retries + 1) % DBUS_RETRIES

GivesUp(retries) == retries >= DBUS_RETRIES
Counted(retries) == retries + 1

\* One round of while(!register() && retries++ < DBUS_RETRIES) sleep(1), in
\* registerService() and registerObject(): the success of the last round is
\* taken for a failure, and then the adaptor's constructor throws.
Register(next) ==
  /\ \/ Go(IF GivesUp(tries) THEN "unwinding" ELSE next)
     \/ /\ "refused" \in Hazards
        /\ IF GivesUp(tries) THEN Go("unwinding") ELSE tries' = Counted(tries) /\ UNCHANGED phase
  /\ ExecForgets
  /\ UNCHANGED <<script, chains, pending, continued, happened>>

registerService == phase = "service" /\ Register("object")
registerObject  == phase = "object" /\ Register("main")

NoBus ==
  /\ "nobus" \in Hazards
  /\ phase = "service" /\ tries = 0
  /\ Go("unwinding")
  /\ UNCHANGED <<script, chains, pending, continued, quitNow, happened>>

-----------------------------------------------------------------------------
(* Scripts *)

\* A handler in app.exec() runs a script.
HandlerRuns ==
  /\ phase = "main"
  /\ ~Busy
  /\ Runs("host")
  /\ UNCHANGED <<phase, tries, chains, pending, continued, quitNow, happened>>

ScriptEffect ==
  /\ Busy /\ ~script.applied
  /\ script' = [script EXCEPT !.applied = TRUE]
  /\ chains' = CASE script.name = "gw_init" -> TRUE
                 [] script.name = "gw_clean_up" -> FALSE
                 [] OTHER -> chains
  /\ UNCHANGED <<phase, tries, pending, continued, quitNow, happened>>

\* What comes after a script for which main() waited.
After(ok) ==
  CASE phase = "init" -> IF ok THEN "service" ELSE "closing"
    [] phase = "quitting" -> "unwinding"
    [] phase = "unwinding" -> "closing"

\* The end of a child is noticed by an event loop: the one that waits for it, or
\* app.exec().
Notices(ok) ==
  /\ script' = NoScript
  /\ \/ Waits /\ Go(After(ok))
     \/ phase = "main" /\ UNCHANGED <<phase, tries>>
  /\ UNCHANGED <<chains, pending, continued, quitNow>>

ScriptExits == Busy /\ script.applied /\ Notices(TRUE) /\ UNCHANGED happened

ScriptFails ==
  /\ "fail" \in Hazards
  /\ Busy /\ ~script.applied
  /\ Notices(FALSE)
  /\ happened' = happened \cup {"failed"}

-----------------------------------------------------------------------------
(* End *)

\* (mutants) A clean-up that waits for its turn, one that leaves out the script.
CleanupQueues ==
  /\ phase \in CleanUps
  /\ ~Busy
  /\ Runs("gw_clean_up")
  /\ UNCHANGED <<phase, tries, chains, pending, continued, quitNow, happened>>
CleanupForgets ==
  /\ phase \in CleanUps
  /\ Go(After(FALSE))
  /\ UNCHANGED <<script, chains, pending, continued, quitNow, happened>>

\* Controller::cleanup().  A busy process refuses gw_clean_up, and after a quit()
\* that app.exec() has not forgotten nobody waits for it.
cleanup ==
  /\ phase \in CleanUps
  /\ ~Waits
  /\ IF Busy THEN UNCHANGED script ELSE Runs("gw_clean_up")
  /\ IF Busy \/ quitNow THEN Go(After(FALSE)) ELSE UNCHANGED <<phase, tries>>
  /\ UNCHANGED <<chains, pending, continued, quitNow, happened>>

\* The process is gone, by return from main(), abort() in qFatal() or _exit().
\* A child that runs is killed, or does its work yet.
Gone ==
  /\ Go("off")
  /\ script' = NoScript
  /\ chains' \in {chains} \cup
       (CASE script = [name |-> "gw_init", applied |-> FALSE]     -> {TRUE}
          [] script = [name |-> "gw_clean_up", applied |-> FALSE] -> {FALSE}
          [] OTHER -> {})
  /\ UNCHANGED <<pending, continued, quitNow>>

Close == phase = "closing" /\ Gone /\ UNCHANGED happened

-----------------------------------------------------------------------------
(* Signals *)

\* qApp->quit() makes the loops that run return, and every exec() that is called
\* until app.exec() begins or has returned.  In app.exec() that is the way down; a
\* script that was waited for goes on alone; and where no loop runs main() goes on
\* as if there had been no signal, until it would wait for a script.
Quits ==
  \/ /\ phase = "main"
     /\ Go("quitting")
     /\ happened' = IF Busy THEN happened \cup {"interrupted"} ELSE happened
     /\ UNCHANGED quitNow
  \/ /\ Waits
     /\ Go(After(TRUE))
     /\ happened' = happened \cup {"interrupted"}
          \cup (IF phase = "init" THEN {"unheard"} ELSE {})
     /\ quitNow' = TRUE
  \/ /\ phase # "main" /\ ~Waits
     /\ UNCHANGED <<phase, tries>>
     /\ happened' = happened
          \cup (IF phase \in {"service", "object"} THEN {"unheard"} ELSE {})
          \cup (IF phase \in CleanUps THEN {"interrupted"} ELSE {})
     /\ quitNow' = TRUE

\* handler() and sig_clean_up(): the first signal asks qApp to quit, the second,
\* or one without a qApp, ends the process.
Signal ==
  /\ "signal" \in Hazards
  /\ \/ /\ phase = "masked" /\ pending' = TRUE
        /\ UNCHANGED <<phase, tries, script, chains, continued, quitNow, happened>>
     \/ /\ phase \notin {"off", "masked"}
        /\ IF phase = "bare" \/ continued
           THEN Gone /\ happened' = happened \cup {"killed"}
           ELSE Quits /\ continued' = TRUE /\ UNCHANGED <<script, chains, pending>>

\* The handler returns to the instruction that raised the signal, which raises
\* it again.
Fault ==
  /\ "fault" \in Hazards
  /\ phase # "off"
  /\ Gone
  /\ happened' = happened \cup {"killed"}

-----------------------------------------------------------------------------
Next ==
  \/ Start \/ Unmask \/ CreateApp \/ Construct
  \/ registerService \/ registerObject \/ NoBus
  \/ HandlerRuns \/ ScriptEffect \/ ScriptExits \/ ScriptFails
  \/ cleanup \/ Close \/ Signal \/ Fault

\* main() goes on, and scripts end.  Nobody owes a start, a signal or the
\* success of a registration.
Fairness ==
  /\ WF_vars(Unmask \/ CreateApp \/ Construct \/ registerService \/ registerObject \/ cleanup \/ Close)
  /\ WF_vars(ScriptEffect) /\ WF_vars(ScriptExits)

Spec == Init /\ [][Next]_vars /\ Fairness
-----------------------------------------------------------------------------
(* Properties *)

\* controller.cpp:50, "Do our best to tidy up our mess": the daemon that has gone
\* leaves no chains, whether it was asked to quit or failed to register on the bus,
\* and whatever an earlier life left.  What excuses it: ends that are not
\* ~Controller's, a script that failed, a signal that came while a script ran or in
\* ~Controller, and one that came while main() got ready for its loop: when the
\* registration fails after that, nobody waits for the clean-up of ~Controller, and
\* ~QProcess kills it.
Excuses == {"unbuilt", "interrupted", "failed", "killed", "unheard"}
LeavesNothing == phase = "off" /\ happened \cap Excuses = {} => ~chains

\* dbus.h:6, DBUS_RETRIES: the daemon gives up on a bus that is there only after as
\* many registrations were refused.
GivesUpLate ==
  [][(phase \in {"service", "object"} /\ phase' = "unwinding") =>
       \/ tries = DBUS_RETRIES
       \/ "nobus" \in Hazards /\ phase = "service" /\ tries = 0]_vars

\* However the registrations go, the start comes to an end.
StartEnds == phase \in Starting ~> phase \in {"main", "off"}

\* handle_signals.c:15, "The handled signals are always terminal": a handled signal
\* brings the daemon down, unless it came while gw_init ran or between it and
\* app.exec(), which forgets the quit(): that daemon serves as if nobody had asked.
SignalsTerminal == (continued /\ "unheard" \notin happened) ~> phase = "off"
=============================================================================
