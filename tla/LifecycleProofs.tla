--------------------------- MODULE LifecycleProofs ---------------------------
(***************************************************************************)
(* Theorems about Lifecycle, for every DBUS_RETRIES, every set of hazards  *)
(* and any number of lives of the daemon.                                  *)
(***************************************************************************)
EXTENDS Lifecycle, TLAPS

Phases == Starting \cup CleanUps \cup {"off", "main", "closing"}
Scripts == [name : {"none", "gw_init", "gw_clean_up", "host"}, applied : BOOLEAN]
Events == {"unbuilt", "interrupted", "failed", "killed", "unheard"}

LifeTypeOK ==
  /\ phase \in Phases
  /\ tries \in 0 .. DBUS_RETRIES
  /\ script \in Scripts
  /\ chains \in BOOLEAN /\ pending \in BOOLEAN
  /\ continued \in BOOLEAN /\ quitNow \in BOOLEAN
  /\ happened \subseteq Events

\* Nothing happened in this life that would excuse chains left behind.
Undisturbed == happened \cap Excuses = {}

Idle == script = NoScript
ChainsGone == chains = FALSE
NoQuit == quitNow = FALSE
Cleaning == script.name = "gw_clean_up" /\ (script.applied = TRUE => ChainsGone)

\* No script runs before the constructor's, disturbed or not.
Quiet == phase \in {"off", "masked", "bare", "app"} => Idle

\* What runs in a phase of an undisturbed life, and where the chains are gone.
Orderly ==
  Undisturbed =>
    /\ phase \in {"service", "object"} => Idle
    /\ phase = "init" => script.name = "gw_init"
    /\ phase = "main" => Idle \/ script.name = "host"
    /\ phase \in {"quitting", "unwinding"} => Idle \/ Cleaning
    /\ phase = "closing" => Idle /\ ChainsGone
    /\ phase = "off" => ChainsGone
    /\ phase \in {"init", "service", "object", "main", "quitting", "unwinding"} => NoQuit

IInv == LifeTypeOK /\ Quiet /\ Orderly

-----------------------------------------------------------------------------
\* No script, and a script that has begun.
LEMMA ScriptTypes ==
  /\ NoScript \in Scripts
  /\ \A name \in {"gw_init", "gw_clean_up", "host"} :
       Runs(name) => script' \in Scripts /\ script'.name = name /\ script'.applied = FALSE
<1>1. NoScript \in Scripts
  BY DEF NoScript, Scripts
<1>2. ASSUME NEW name \in {"gw_init", "gw_clean_up", "host"}, Runs(name)
      PROVE  script' \in Scripts /\ script'.name = name /\ script'.applied = FALSE
  BY <1>2 DEF Runs, Scripts
<1> QED BY <1>1, <1>2

\* The end of the process keeps the types.
LEMMA GoneTypes ==
  ASSUME LifeTypeOK, Gone, happened' \subseteq Events
  PROVE  LifeTypeOK' /\ phase' = "off"
<1>1. phase' = "off" /\ tries' = 0 /\ script' = NoScript /\ UNCHANGED <<pending, continued, quitNow>>
  BY DEF Gone, Go
<1>2. chains' \in BOOLEAN
  BY DEF Gone, LifeTypeOK
<1> QED BY <1>1, <1>2, LifecycleAssumption, ScriptTypes DEF LifeTypeOK, Phases

LEMMA InitLife == Init => IInv
<1> SUFFICES ASSUME Init
             PROVE  IInv
  OBVIOUS
<1>1. phase = "off" /\ script = NoScript /\ ChainsGone
  BY DEF Init, ChainsGone
<1>2. LifeTypeOK
  <2>1. script \in Scripts /\ phase \in Phases /\ tries \in 0 .. DBUS_RETRIES
    BY LifecycleAssumption, ScriptTypes DEF Init, Phases
  <2>2. /\ chains \in BOOLEAN /\ pending \in BOOLEAN
        /\ continued \in BOOLEAN /\ quitNow \in BOOLEAN
    BY DEF Init
  <2>3. happened \subseteq Events
    BY DEF Init
  <2> QED BY <2>1, <2>2, <2>3 DEF LifeTypeOK
<1>3. Quiet /\ Orderly
  BY <1>1 DEF Orderly, Quiet, Idle
<1> QED BY <1>2, <1>3 DEF IInv

\* The way from the first mask to the script of the constructor.
LEMMA StartLife ==
  ASSUME IInv, Start \/ Unmask \/ CreateApp \/ Construct
  PROVE  IInv'
<1>1. LifeTypeOK'
  <2>1. script' \in Scripts
    BY ScriptTypes DEF IInv, LifeTypeOK, Start, Unmask, CreateApp, Construct
  <2>2. phase' \in Phases /\ tries' = 0
    BY DEF Start, Unmask, CreateApp, Construct, Go, Phases, Starting
  <2>3. happened' \subseteq Events
    BY DEF IInv, LifeTypeOK, Start, Unmask, CreateApp, Construct, Events
  <2>4. /\ chains' \in BOOLEAN /\ pending' \in BOOLEAN
        /\ continued' \in BOOLEAN /\ quitNow' \in BOOLEAN
    BY DEF IInv, LifeTypeOK, Start, Unmask, CreateApp, Construct
  <2> QED BY <2>1, <2>2, <2>3, <2>4, LifecycleAssumption DEF LifeTypeOK
<1>2. Quiet'
  BY DEF IInv, Quiet, Start, Unmask, CreateApp, Construct, Go, Idle
<1>3. Orderly'
  <2>1. \/ phase' \in {"masked", "bare", "app"}
        \/ phase' = "init" /\ script'.name = "gw_init" /\ NoQuit'
        \/ phase' \in {"off", "closing"} /\ ~Undisturbed'
    BY ScriptTypes DEF IInv, LifeTypeOK, Start, Unmask, CreateApp, Construct, Go, NoQuit,
       Undisturbed, Excuses
  <2> QED BY <2>1 DEF Orderly
<1> QED BY <1>1, <1>2, <1>3 DEF IInv

\* A round of a registration, and a bus that is not there.
LEMMA RegisterLife ==
  ASSUME IInv, registerService \/ registerObject \/ NoBus
  PROVE  IInv'
<1>1. /\ phase \in {"service", "object"} /\ phase' \in {"service", "object", "main", "unwinding"}
      /\ UNCHANGED <<script, chains, pending, continued, happened>>
      /\ tries' = 0 \/ (~GivesUp(tries) /\ tries' = Counted(tries))
      /\ NoQuit => NoQuit'
  BY DEF registerService, registerObject, Register, NoBus, Go, ExecForgets, NoQuit
<1>2. tries' \in 0 .. DBUS_RETRIES
  BY <1>1, LifecycleAssumption DEF IInv, LifeTypeOK, GivesUp, Counted
<1>3. LifeTypeOK'
  <2>1. quitNow' \in BOOLEAN
    BY DEF IInv, LifeTypeOK, registerService, registerObject, Register, NoBus, ExecForgets
  <2> QED BY <1>1, <1>2, <2>1 DEF IInv, LifeTypeOK, Phases, Starting, CleanUps
<1>4. Quiet'
  BY <1>1 DEF Quiet
<1>5. Orderly'
  BY <1>1 DEF IInv, Orderly, Undisturbed, Idle
<1> QED BY <1>3, <1>4, <1>5 DEF IInv

\* A script that has its effect: that of gw_clean_up is that the chains are gone.
LEMMA EffectLife ==
  ASSUME IInv, ScriptEffect
  PROVE  IInv'
<1>1. /\ Busy /\ script' = [script EXCEPT !.applied = TRUE]
      /\ UNCHANGED <<phase, tries, pending, continued, quitNow, happened>>
  BY DEF ScriptEffect
<1>2. script' \in Scripts /\ script'.name = script.name
  BY <1>1 DEF IInv, LifeTypeOK, Scripts
<1>3. chains' \in BOOLEAN
  BY DEF ScriptEffect, IInv, LifeTypeOK
<1>4. script.name = "gw_clean_up" => ChainsGone'
  BY DEF ScriptEffect, ChainsGone
<1>5. ~Idle
  BY <1>1 DEF Busy, Idle
<1>6. LifeTypeOK'
  BY <1>1, <1>2, <1>3 DEF IInv, LifeTypeOK
<1>7. Quiet'
  BY <1>1, <1>5 DEF IInv, Quiet
<1>8. Orderly'
  <2>1. SUFFICES ASSUME Undisturbed'
                 PROVE  Orderly'
    BY DEF Orderly
  <2>2. Undisturbed
    BY <1>1, <2>1 DEF Undisturbed
  <2>3. \/ phase = "init" /\ script.name = "gw_init"
        \/ phase = "main" /\ script.name = "host"
        \/ phase \in {"quitting", "unwinding"} /\ script.name = "gw_clean_up"
        \/ phase \in {"masked", "bare", "app"}
    BY <1>5, <2>2 DEF IInv, LifeTypeOK, Phases, Starting, CleanUps, Quiet, Orderly,
       Cleaning
  <2>4. NoQuit => NoQuit'
    BY <1>1 DEF NoQuit
  <2> QED BY <1>1, <1>2, <1>4, <2>2, <2>3, <2>4 DEF IInv, Orderly, Cleaning
<1> QED BY <1>6, <1>7, <1>8 DEF IInv

LEMMA HandlerLife ==
  ASSUME IInv, HandlerRuns
  PROVE  IInv'
<1>1. /\ phase = "main" /\ script' \in Scripts /\ script'.name = "host"
      /\ UNCHANGED <<phase, tries, chains, pending, continued, quitNow, happened>>
  BY ScriptTypes DEF HandlerRuns
<1>2. LifeTypeOK' /\ Quiet'
  BY <1>1 DEF IInv, LifeTypeOK, Quiet
<1>3. (Undisturbed => Undisturbed /\ NoQuit) => (Undisturbed' => NoQuit')
  BY <1>1 DEF Undisturbed, NoQuit
<1>4. Undisturbed => NoQuit
  BY <1>1 DEF IInv, Orderly
<1> QED BY <1>1, <1>2, <1>3, <1>4 DEF IInv, Orderly

\* What main() goes on to after a script for which it waited.
LEMMA AfterPhases ==
  ASSUME Waits, NEW ok \in BOOLEAN
  PROVE  /\ phase = "init" => After(ok) = IF ok THEN "service" ELSE "closing"
         /\ phase = "quitting" => After(ok) = "unwinding"
         /\ phase = "unwinding" => After(ok) = "closing"
         /\ After(ok) \in {"service", "unwinding", "closing"}
BY DEF Waits, After, CleanUps

\* The end of a script: a clean-up that had its effect is over.
LEMMA NoticesLife ==
  ASSUME IInv, ScriptExits \/ ScriptFails
  PROVE  IInv'
<1>1. /\ script' = NoScript /\ Busy /\ UNCHANGED <<chains, pending, continued, quitNow>>
      /\ happened' \in {happened, happened \cup {"failed"}}
  BY DEF ScriptExits, ScriptFails, Notices
<1>2. PICK ok \in BOOLEAN : Notices(ok)
  BY DEF ScriptExits, ScriptFails
<1>3. CASE phase = "main" /\ UNCHANGED <<phase, tries>>
  <2>1. LifeTypeOK'
    BY <1>1, <1>3, ScriptTypes DEF IInv, LifeTypeOK, Events
  <2>2. Undisturbed' => Undisturbed
    BY <1>1 DEF Undisturbed
  <2>3. Orderly'
    BY <1>1, <1>3, <2>2 DEF IInv, Orderly, Idle, NoQuit
  <2> QED BY <1>1, <1>3, <2>1, <2>3 DEF IInv, Quiet, Idle
<1>4. CASE Waits /\ Go(After(ok))
  <2>1. phase' = After(ok) /\ tries' = 0 /\ phase' \in {"service", "unwinding", "closing"}
    BY <1>4, AfterPhases DEF Go
  <2>2. LifeTypeOK'
    BY <1>1, <2>1, ScriptTypes, LifecycleAssumption
       DEF IInv, LifeTypeOK, Events, Phases, Starting, CleanUps
  <2>3. ASSUME Undisturbed', phase' = "closing"
        PROVE  ChainsGone'
    <3>1. Undisturbed /\ ScriptExits
      BY <2>3 DEF Undisturbed, Excuses, ScriptExits, ScriptFails
    <3>2. phase = "unwinding" /\ script.name = "gw_clean_up"
      <4>1. phase # "main"
        BY <1>4 DEF Waits, CleanUps
      <4>2. phase' = After(TRUE)
        BY <3>1, <4>1 DEF ScriptExits, Notices, Go
      <4> QED BY <1>4, <2>3, <4>2, AfterPhases DEF Waits, CleanUps
    <3>3. Cleaning
      BY <1>1, <3>1, <3>2 DEF Busy, IInv, Orderly, Idle
    <3>4. script.applied
      BY <3>1 DEF ScriptExits
    <3>5. script.applied = TRUE
      BY <3>4 DEF IInv, LifeTypeOK, Scripts
    <3>6. ChainsGone
      BY <3>3, <3>5 DEF Cleaning
    <3> QED BY <1>1, <3>6 DEF ChainsGone
  <2>4. ASSUME Undisturbed', phase' \in {"service", "unwinding"}
        PROVE  NoQuit'
    BY <1>1, <1>4, <2>4 DEF IInv, Orderly, Undisturbed, Waits, CleanUps, NoQuit
  <2>5. Quiet' /\ Orderly'
    BY <1>1, <2>1, <2>3, <2>4 DEF Quiet, Orderly, Idle
  <2> QED BY <2>2, <2>5 DEF IInv
<1> QED BY <1>2, <1>3, <1>4 DEF Notices

\* A clean-up: in an undisturbed life its script is neither refused nor abandoned.
LEMMA CleanupLife ==
  ASSUME IInv, cleanup
  PROVE  IInv'
<1>1. /\ phase \in {"quitting", "unwinding"} /\ ~Waits
      /\ UNCHANGED <<chains, pending, continued, quitNow, happened>>
      /\ Undisturbed => NoQuit
      /\ NoQuit <=> ~quitNow
  BY DEF cleanup, CleanUps, IInv, LifeTypeOK, Orderly, NoQuit
<1>2. CASE ~Busy /\ ~quitNow
  <2>1. /\ script' \in Scripts /\ script'.name = "gw_clean_up" /\ script'.applied = FALSE
        /\ UNCHANGED <<phase, tries>>
    BY <1>2, ScriptTypes DEF cleanup
  <2>2. LifeTypeOK' /\ Quiet'
    BY <1>1, <2>1 DEF IInv, LifeTypeOK, Quiet
  <2> QED BY <1>1, <2>1, <2>2 DEF IInv, Orderly, Cleaning, NoQuit, Undisturbed
<1>3. CASE Busy \/ quitNow
  <2>1. phase' \in {"unwinding", "closing"} /\ tries' = 0 /\ script' \in Scripts
    BY <1>1, <1>3, ScriptTypes DEF cleanup, Go, After, IInv, LifeTypeOK
  <2>2. ~Undisturbed
    BY <1>1, <1>3 DEF IInv, Orderly, Idle, Cleaning, Waits, CleanUps, Busy
  <2>3. LifeTypeOK' /\ Quiet'
    BY <1>1, <2>1, LifecycleAssumption DEF IInv, LifeTypeOK, Quiet, Phases, CleanUps
  <2> QED BY <1>1, <2>2, <2>3 DEF IInv, Orderly, Undisturbed
<1> QED BY <1>2, <1>3

\* The end of main() keeps what the clean-up did; other ends are excuses.
LEMMA EndLife ==
  ASSUME IInv, Close \/ (Gone /\ happened' = happened \cup {"killed"})
  PROVE  IInv'
<1>1. LifeTypeOK' /\ phase' = "off" /\ script' = NoScript
  BY GoneTypes DEF IInv, LifeTypeOK, Events, Close, Gone
<1>2. ASSUME Undisturbed'
      PROVE  ChainsGone'
  <2>1. Close /\ Undisturbed
    BY <1>2 DEF Undisturbed, Excuses, Close
  <2>2. Idle /\ ChainsGone
    BY <2>1 DEF Close, IInv, Orderly
  <2> QED BY <2>1, <2>2 DEF Close, Gone, Idle, NoScript, ChainsGone
<1>3. Quiet' /\ Orderly'
  BY <1>1, <1>2 DEF Quiet, Orderly, Idle
<1> QED BY <1>1, <1>3 DEF IInv

\* quit(): it leaves a life undisturbed only when no script runs.
LEMMA QuitsLife ==
  ASSUME IInv, Quits, phase \notin {"off", "bare", "masked"}, continued' = TRUE, UNCHANGED <<script, chains, pending>>
  PROVE  IInv'
<1>1. CASE phase = "main"
  <2>1. /\ phase' = "quitting" /\ tries' = 0
        /\ happened' = IF Busy THEN happened \cup {"interrupted"} ELSE happened
        /\ UNCHANGED quitNow
    BY <1>1 DEF Quits, Go, Waits, CleanUps
  <2>2. LifeTypeOK' /\ Quiet'
    BY <2>1, LifecycleAssumption DEF IInv, LifeTypeOK, Quiet, Phases, CleanUps, Events
  <2>3. Undisturbed' => Idle' /\ Undisturbed
    BY <2>1 DEF Undisturbed, Excuses, Busy, Idle
  <2> QED BY <1>1, <2>1, <2>2, <2>3 DEF IInv, Orderly, NoQuit
<1>2. CASE Waits
  <2>1. /\ phase' \in {"service", "unwinding", "closing"} /\ tries' = 0
        /\ happened' \subseteq happened \cup {"interrupted", "unheard"}
        /\ "interrupted" \in happened' /\ quitNow' = TRUE
    BY <1>2, AfterPhases DEF Quits, Go, Waits, CleanUps
  <2>2. LifeTypeOK' /\ Quiet'
    BY <2>1, LifecycleAssumption
       DEF IInv, LifeTypeOK, Quiet, Phases, Starting, CleanUps, Events
  <2> QED BY <2>1, <2>2 DEF IInv, Orderly, Undisturbed, Excuses
<1>3. CASE phase # "main" /\ ~Waits
  <2>1. /\ UNCHANGED <<phase, tries>> /\ quitNow' = TRUE
        /\ happened \subseteq happened' /\ happened' \subseteq happened \cup {"unheard", "interrupted"}
        /\ phase \in {"service", "object"} => "unheard" \in happened'
        /\ phase \in {"quitting", "unwinding"} => "interrupted" \in happened'
    BY <1>3 DEF Quits, CleanUps
  <2>2. LifeTypeOK' /\ Quiet'
    BY <2>1 DEF IInv, LifeTypeOK, Quiet, Idle, Events
  <2>3. Undisturbed' => Undisturbed /\ phase \in {"app", "closing"}
    BY <1>3, <2>1 DEF IInv, LifeTypeOK, Phases, Starting, CleanUps, Waits, Undisturbed, Excuses
  <2> QED BY <2>1, <2>2, <2>3 DEF IInv, Orderly, Idle, ChainsGone
<1> QED BY <1>1, <1>2, <1>3

LEMMA SignalLife ==
  ASSUME IInv, Signal
  PROVE  IInv'
<1>1. CASE phase = "masked" /\ pending' = TRUE
           /\ UNCHANGED <<phase, tries, script, chains, continued, quitNow, happened>>
  <2>1. LifeTypeOK' /\ Quiet'
    BY <1>1 DEF IInv, LifeTypeOK, Quiet, Idle
  <2> QED BY <1>1, <2>1 DEF IInv, Orderly
<1>2. CASE Gone /\ happened' = happened \cup {"killed"}
  BY <1>2, EndLife
<1>3. CASE /\ Quits /\ phase \notin {"off", "bare", "masked"}
           /\ continued' = TRUE /\ UNCHANGED <<script, chains, pending>>
  BY <1>3, QuitsLife
<1> QED BY <1>1, <1>2, <1>3 DEF Signal

-----------------------------------------------------------------------------
(* The theorems *)

LEMMA NextLife == IInv /\ [Next]_vars => IInv'
<1> SUFFICES ASSUME IInv, [Next]_vars
             PROVE  IInv'
  OBVIOUS
<1>1. CASE Start \/ Unmask \/ CreateApp \/ Construct
  BY <1>1, StartLife
<1>2. CASE registerService \/ registerObject \/ NoBus
  BY <1>2, RegisterLife
<1>3. CASE HandlerRuns \/ ScriptEffect \/ ScriptExits \/ ScriptFails
  BY <1>3, HandlerLife, EffectLife, NoticesLife
<1>4. CASE cleanup \/ Close \/ Signal \/ Fault
  BY <1>4, CleanupLife, EndLife, SignalLife DEF Fault
<1>5. CASE UNCHANGED vars
  BY <1>5 DEF vars, IInv, LifeTypeOK, Quiet, Orderly, Idle, Cleaning, ChainsGone, NoQuit, Undisturbed
<1> QED BY <1>1, <1>2, <1>3, <1>4, <1>5 DEF Next

LEMMA LifeInvariant == Spec => []IInv
BY InitLife, NextLife, PTL DEF Spec

\* controller.cpp:50, "Do our best to tidy up our mess": whatever an earlier life left
\* and however the registrations go, a daemon that comes down by itself or at a signal
\* to app.exec() between scripts leaves no chains in the kernel.
THEOREM CleansAfterItself == Spec => []LeavesNothing
<1>1. IInv => LeavesNothing
  BY DEF IInv, LifeTypeOK, Orderly, ChainsGone, Undisturbed, LeavesNothing
<1> QED BY <1>1, LifeInvariant, PTL

\* dbus.h:6: with a bus that is there the daemon gives up after DBUS_RETRIES refused
\* registrations and not before, in each of the two loops.
THEOREM RetriesCounted == Spec => GivesUpLate
<1> DEFINE Late == (phase \in {"service", "object"} /\ phase' = "unwinding") =>
              \/ tries = DBUS_RETRIES
              \/ "nobus" \in Hazards /\ phase = "service" /\ tries = 0
<1>1. IInv /\ [Next]_vars => Late
  <2> SUFFICES ASSUME IInv, [Next]_vars, phase \in {"service", "object"}, phase' = "unwinding"
               PROVE  \/ tries = DBUS_RETRIES
                      \/ "nobus" \in Hazards /\ phase = "service" /\ tries = 0
    OBVIOUS
  <2>1. CASE registerService \/ registerObject
    <3>1. GivesUp(tries)
      BY <2>1 DEF registerService, registerObject, Register, Go
    <3> QED BY <3>1, LifecycleAssumption DEF GivesUp, IInv, LifeTypeOK
  <2>2. CASE NoBus
    BY <2>2 DEF NoBus
  <2>3. CASE ~(registerService \/ registerObject \/ NoBus)
    BY <2>3 DEF Next, vars, Start, Unmask, CreateApp, Construct, HandlerRuns, ScriptEffect,
       ScriptExits, ScriptFails, Notices, Waits, CleanUps, cleanup, Close, Signal, Fault,
       Quits, Gone, Go
  <2> QED BY <2>1, <2>2, <2>3
<1> QED BY <1>1, LifeInvariant, PTL DEF Spec, GivesUpLate
=============================================================================
