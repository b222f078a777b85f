----------------------------- MODULE RunCommand -----------------------------
(***************************************************************************)
(* runcommand/runcommand.cpp: one QProcess, one QEventLoop and one timer,  *)
(* shared by every handler of the daemon.  runCommandExec() starts a bash  *)
(* child and blocks its caller in a nested event loop, so other handlers   *)
(* are dispatched while the caller is suspended.                           *)
(*                                                                         *)
(* Exit statuses are abstracted to 0 and Failed: every caller compares the *)
(* result with 0 only.                                                     *)
(***************************************************************************)
EXTENDS Integers

CONSTANT NoCmd          \* no child: QProcess::NotRunning

VARIABLES
  proc,                 \* the command the child runs, or NoCmd
  loop,                 \* QEventLoop el: "idle", "exec", or "exited" (exit()
                        \*   was called, exec() has not returned yet)
  code                  \* the code given to el.exit(), read when "exited"

runVars == <<proc, loop, code>>

Failed == -1            \* a non-zero exit status, a timeout, or a refusal

\* The guard of runCommandExec(): the process is Starting or Running.
Busy == proc # NoCmd

\* runCommandExec(cmd) by a handler that owns the CPU: the child is started
\* and the caller is suspended in el.exec().
ExecSuspends(cmd) ==
  /\ ~Busy
  /\ proc' = cmd
  /\ loop' = "exec"
  /\ UNCHANGED code

\* runCommandExec(cmd) that returns Failed at once.  A busy process refuses.
\* When the process has finished but its owner's exec() has not returned, the
\* child is started, el.exec() refuses to recurse and returns -1: the child
\* runs detached, no handler waits for it.
ExecRefused(cmd) ==
  /\ Busy \/ loop # "idle"
  /\ proc' = IF Busy THEN proc ELSE cmd
  /\ UNCHANGED <<loop, code>>

\* runCommandExec(cmd) after QCoreApplication::quit(), by a caller that does not
\* wait any more: the child is started, but el.exec() returns -1 at once, as does
\* every event loop until the application's exec() begins or ends.
ExecAborted(cmd) ==
  /\ ~Busy
  /\ loop # "exec"
  /\ proc' = cmd
  /\ loop' = "idle"
  /\ UNCHANGED code

\* (mutant) The slot forgets el.exit().
finishedWithoutExit(result) ==
  /\ Busy
  /\ loop # "exited"
  /\ proc' = NoCmd
  /\ UNCHANGED <<loop, code>>

\* finishedInternalExec(result): the child ended, or the 5 s timer fired and
\* it was killed.  el.exit() has no effect on a loop that is not executing.
finishedInternalExec(result) ==
  /\ Busy
  /\ loop # "exited"
  /\ proc' = NoCmd
  /\ IF loop = "exec" THEN loop' = "exited" /\ code' = result
                      ELSE UNCHANGED <<loop, code>>

\* el.exec() returns to the suspended caller, which does not block again.
ExecReturns ==
  /\ loop = "exited"
  /\ loop' = "idle"
  /\ UNCHANGED <<proc, code>>

\* el.exec() returns to its caller, which blocks again for another command.
ExecReturnsInto(cmd) ==
  /\ loop = "exited"
  /\ ~Busy
  /\ proc' = cmd
  /\ loop' = "exec"
  /\ UNCHANGED code

\* QCoreApplication::quit() exits every event loop of the thread with code 0,
\* whatever the child has done so far and whatever code was to be returned.
ExecQuits ==
  /\ loop # "idle"
  /\ loop' = "exited"
  /\ code' = 0
  /\ UNCHANGED proc
=============================================================================
