---------------------------- MODULE LauncherProcess ----------------------------
(* How the launcher window starts, watches and stops the runtime
   (launcher-qt/launcher_window.cpp).  One GUI thread runs every handler; it
   blocks in waitForStarted and waitForFinished while the runtime, a process of
   its own, goes on.  QProcess is external: state() changes, and finished and
   errorOccurred are delivered, inside those waits or when the event loop
   runs.  Each wait may time out. *)
EXTENDS Naturals

CONSTANT MaxOutput       \* chunks of output that one runtime writes, a bound of the model

ASSUME OutputAssumption == MaxOutput \in Nat

VARIABLES
  proc,       \* process_.state()
  child,      \* the runtime: how far it is, or how it ended
  written,    \* chunks of output it has written
  unread,     \* of these, the ones the launcher has not read
  logged,     \* of these, the ones in the log file of this run
  log,        \* log_file_.isOpen()
  preflight,  \* preflight_running_
  running,    \* the buttons as setRunning left them: TRUE offers Stop only
  status,     \* the status line
  gui,        \* what the GUI thread does
  purpose,    \* why it waits for the end of the runtime
  launched,   \* history: the last launch was a validation
  overdue     \* history: which wait for this runtime has run out of time

output == <<written, unread, logged>>
processVars == <<proc, child, output, log, preflight, running, status, gui, purpose,
                 launched, overdue>>

Ends == {"exit0", "exitN", "crash"}

ProcessInit ==
  /\ proc = "notRunning" /\ child = "none" /\ log = FALSE
  /\ written = 0 /\ unread = 0 /\ logged = 0
  /\ preflight = FALSE /\ running = FALSE /\ status = "ready"
  /\ gui = "idle" /\ purpose = "none" /\ launched = FALSE /\ overdue = "none"

--------------------------------------------------------------------------------
(* The runtime, and what the operating system does with it. *)

ChildWrites ==
  /\ child \in {"up", "asked"} /\ written < MaxOutput
  /\ written' = written + 1 /\ unread' = unread + 1
  /\ UNCHANGED <<proc, child, logged, log, preflight, running, status, gui, purpose, launched, overdue>>

(* It ends by itself, or because it was asked to (SIGTERM runs its orderly
   shutdown); a killed runtime has crashed for QProcess. *)
ChildEnds ==
  /\ \/ child \in {"up", "asked"} /\ child' \in Ends
     \/ child = "killed" /\ child' = "crash"
  /\ UNCHANGED <<proc, output, log, preflight, running, status, gui, purpose, launched, overdue>>

--------------------------------------------------------------------------------
(* Handlers of the signals of QProcess. *)

(* appendProcessOutput *)
ReadOutput(open) ==
  /\ logged' = IF open THEN logged + unread ELSE logged
  /\ unread' = 0
  /\ UNCHANGED written

AppendOutput ==
  /\ gui \notin {"waitStarted", "closed"} /\ unread > 0
  /\ ReadOutput(log)
  /\ UNCHANGED <<proc, child, log, preflight, running, status, gui, purpose, launched, overdue>>

Verdict(how) ==
  CASE how = "crash" -> "crashed"
    [] how = "exit0" -> IF preflight THEN "validationPassed" ELSE "completed"
    [] how = "exitN" -> "stopped"

(* The handler that leaves the buttons to stopRuntime. *)
OnFinishedKeepingButtons ==
  /\ proc = "running" /\ child \in Ends
  /\ ReadOutput(log)
  /\ proc' = "notRunning" /\ log' = FALSE /\ preflight' = FALSE /\ UNCHANGED running
  /\ status' = Verdict(child)

(* processFinished: the output that is left, then the end of the log, of the
   preflight mark and of the running state, and the verdict. *)
OnFinished ==
  /\ proc = "running" /\ child \in Ends
  /\ ReadOutput(log)
  /\ proc' = "notRunning" /\ log' = FALSE /\ preflight' = FALSE /\ running' = FALSE
  /\ status' = Verdict(child)

(* processError(FailedToStart) *)
OnFailedToStart ==
  /\ proc = "starting" /\ child \in {"spawned", "asked"}
  /\ proc' = "notRunning" /\ child' = "none"
  /\ log' = FALSE /\ running' = FALSE

(* The event loop, and the waits for the end, find that the start is over. *)
LateStart ==
  /\ gui \in {"idle", "waitFinished", "waitKilled"} /\ proc = "starting"
  /\ \/ /\ proc' = "running" /\ child' = IF child = "spawned" THEN "up" ELSE child
        /\ UNCHANGED <<log, running, status>>
     \/ OnFailedToStart /\ status' = "startFailed"
  /\ UNCHANGED <<output, preflight, gui, purpose, launched, overdue>>

Finished ==
  /\ gui = "idle"
  /\ OnFinished
  /\ UNCHANGED <<child, gui, purpose, launched, overdue>>

--------------------------------------------------------------------------------
(* launchRuntime and its two callers, validateConfiguration and startRuntime. *)

Refusal(check) == IF check THEN "validationFailed" ELSE "couldNotStart"

(* A profile, the plan, the runtime file, the output folder or the log refuses. *)
LaunchRefused(check) ==
  /\ gui = "idle" /\ ~running /\ proc = "notRunning"
  /\ status' = Refusal(check)
  /\ UNCHANGED <<proc, child, output, log, preflight, running, gui, purpose, launched, overdue>>

(* A mark that is only ever set. *)
MarkPreflightOnce(check) == preflight' = (preflight \/ check)
MarkPreflight(check) == preflight' = check

Launch(check) ==
  /\ gui = "idle" /\ ~running /\ proc = "notRunning"
  /\ log' = TRUE
  /\ MarkPreflight(check)
  /\ proc' = "starting" /\ child' = "spawned"
  /\ written' = 0 /\ unread' = 0 /\ logged' = 0
  /\ gui' = "waitStarted"
  /\ launched' = check /\ overdue' = "none"
  /\ UNCHANGED <<running, status, purpose>>

Started ==
  /\ gui = "waitStarted" /\ proc = "starting"
  /\ proc' = "running" /\ child' = "up" /\ running' = TRUE
  /\ status' = IF preflight THEN "validating" ELSE "running"
  /\ gui' = "idle"
  /\ UNCHANGED <<output, log, preflight, purpose, launched, overdue>>

(* errorOccurred comes first, then waitForStarted answers false. *)
StartFails ==
  /\ gui = "waitStarted"
  /\ OnFailedToStart
  /\ status' = Refusal(preflight)
  /\ gui' = "idle"
  /\ UNCHANGED <<output, preflight, purpose, launched, overdue>>

(* waitForStarted answers false after three seconds, and the runtime is still
   on its way: the log is closed and the user is told that it did not start. *)
StartTimesOut ==
  /\ gui = "waitStarted" /\ proc = "starting"
  /\ log' = FALSE
  /\ status' = Refusal(preflight)
  /\ gui' = "idle"
  /\ overdue' = "start"
  /\ UNCHANGED <<proc, child, output, preflight, running, purpose, launched>>

--------------------------------------------------------------------------------
(* stopRuntime, closeEvent and the destructor. *)

Terminated(c) == IF c \in {"spawned", "up"} THEN "asked" ELSE c
NotKilled(c) == c           \* kill forgotten
Killed(c) == IF c \in Ends THEN c ELSE "killed"

Stop ==
  /\ gui = "idle" /\ running /\ proc # "notRunning"
  /\ status' = "stopping"
  /\ child' = Terminated(child)
  /\ gui' = "waitFinished" /\ purpose' = "stop"
  /\ UNCHANGED <<proc, output, log, preflight, running, launched, overdue>>

Close ==
  /\ gui = "idle"
  /\ IF proc = "notRunning"
     THEN /\ gui' = "closed" /\ log' = FALSE
          /\ ReadOutput(log)
          /\ UNCHANGED <<child, status, purpose>>
     ELSE /\ status' = "stopping"
          /\ child' = Terminated(child)
          /\ gui' = "waitFinished" /\ purpose' = "close"
          /\ UNCHANGED <<output, log>>
  /\ UNCHANGED <<proc, preflight, running, launched, overdue>>

(* No runtime is left when a wait returns: the buttons are put back, or the
   launcher closes (its destructor finds nothing to do). *)
Release ==
  /\ purpose' = "none"
  /\ gui' = IF purpose = "stop" THEN "idle" ELSE "closed"

WaitSeesEnd ==
  /\ gui \in {"waitFinished", "waitKilled"}
  /\ OnFinished
  /\ Release
  /\ UNCHANGED <<child, launched, overdue>>

WaitSeesFailure ==
  /\ gui \in {"waitFinished", "waitKilled"} /\ proc = "notRunning"
  /\ running' = FALSE
  /\ Release
  /\ UNCHANGED <<proc, child, output, log, preflight, status, launched, overdue>>

GraceIsOver ==
  /\ gui = "waitFinished" /\ proc # "notRunning"
  /\ child' = Killed(child)
  /\ gui' = "waitKilled"
  /\ UNCHANGED <<proc, output, log, preflight, running, status, purpose, launched, overdue>>

(* The second wait runs out as well: stopRuntime returns all the same.  A
   closing launcher goes on to its destructor, which stops the runtime once
   more, and after that QProcess kills what it still owns. *)
KillIsOverdue ==
  /\ gui = "waitKilled" /\ proc # "notRunning"
  /\ overdue' = IF overdue = "start" THEN overdue ELSE "end"
  /\ CASE purpose = "stop" -> /\ gui' = "idle" /\ purpose' = "none" /\ running' = FALSE
                              /\ UNCHANGED <<output, log>>
       [] purpose = "close" -> /\ gui' = "waitFinished" /\ purpose' = "destroy" /\ running' = FALSE
                               /\ UNCHANGED <<output, log>>
       [] purpose = "destroy" -> /\ gui' = "closed" /\ purpose' = "none" /\ log' = FALSE
                                 /\ ReadOutput(log)
                                 /\ UNCHANGED running
  /\ child' = IF purpose = "destroy" THEN Killed(child) ELSE child
  /\ UNCHANGED <<proc, preflight, status, launched>>

--------------------------------------------------------------------------------
ProcessNext ==
  \/ ChildWrites \/ ChildEnds
  \/ AppendOutput \/ LateStart \/ Finished
  \/ \E check \in BOOLEAN : Launch(check) \/ LaunchRefused(check)
  \/ Started \/ StartFails \/ StartTimesOut
  \/ Stop \/ Close
  \/ WaitSeesEnd \/ WaitSeesFailure \/ GraceIsOver \/ KillIsOverdue

(* What the GUI thread, the event loop and the kernel do by themselves: waits
   end, signals are delivered, a killed process goes away.  The runtime itself
   need not end, not even when it is asked to. *)
ProcessFairness ==
  /\ WF_processVars(AppendOutput) /\ WF_processVars(Finished) /\ WF_processVars(LateStart)
  /\ WF_processVars(Started \/ StartFails \/ StartTimesOut)
  /\ WF_processVars(WaitSeesEnd \/ WaitSeesFailure \/ GraceIsOver \/ KillIsOverdue)
  /\ WF_processVars(child = "killed" /\ ChildEnds)

ProcessSpec == ProcessInit /\ [][ProcessNext]_processVars /\ ProcessFairness

--------------------------------------------------------------------------------
(* The variables keep their types. *)
ProcessTypeOK ==
  /\ proc \in {"notRunning", "starting", "running"}
  /\ child \in {"none", "spawned", "up", "asked", "killed"} \cup Ends
  /\ written \in 0..MaxOutput /\ unread \in 0..MaxOutput /\ logged \in 0..MaxOutput
  /\ log \in BOOLEAN /\ preflight \in BOOLEAN /\ running \in BOOLEAN /\ launched \in BOOLEAN
  /\ status \in {"ready", "validating", "running", "stopping", "validationFailed",
                 "couldNotStart", "startFailed", "crashed", "validationPassed",
                 "completed", "stopped"}
  /\ gui \in {"idle", "waitStarted", "waitFinished", "waitKilled", "closed"}
  /\ purpose \in {"none", "stop", "close", "destroy"}
  /\ overdue \in {"none", "start", "end"}

(* Whenever the user can act, Stop is offered if there is a runtime to stop,
   unless a wait with a time limit (for the start in launchRuntime, for the end
   of a killed process in stopRuntime) ran out on this very runtime, and is not
   offered if there is none; and a closed launcher leaves no runtime behind
   that was not killed. *)
RuntimeIsSupervised ==
  /\ gui = "idle" /\ running => proc # "notRunning"
  /\ gui = "idle" /\ proc # "notRunning" /\ overdue = "none" => running
  /\ gui = "closed" => child \in {"none", "killed"} \cup Ends

(* When the end of a run is announced, the log of the run holds every chunk the
   runtime wrote, the last ones included, unless the launch had given the run
   up as not started; and the announcement is about this run: a validation
   passed only if a validation was launched and the runtime ended with 0. *)
VerdictIsTrue ==
  gui # "waitStarted" =>
  /\ status \in {"crashed", "validationPassed", "completed", "stopped"} =>
       unread = 0 /\ (overdue # "start" => logged = written)
  /\ status = "validationPassed" => launched /\ child = "exit0"
  /\ status = "completed" => ~launched /\ child = "exit0"

(* A stop that the user asked for, or that closing began, ends: the runtime is
   gone, also one that ignores the request. *)
StopEnds == gui = "waitFinished" ~> proc = "notRunning" \/ gui = "closed"

================================================================================
