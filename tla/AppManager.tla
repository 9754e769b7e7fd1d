----------------------------- MODULE AppManager -----------------------------
(***************************************************************************)
(* The processes rocket starts: App, AppRunInfo and AppManager.            *)
(*                                                                         *)
(* An App holds a weak_ptr to its AppRunInfo; AppManager::runInfos owns    *)
(* it, and only AppManager::update drops it.  App::isRunning is therefore  *)
(* a statement about that list, not about the process: between the death   *)
(* of the process and the update that reads its pid from the pipe the app  *)
(* still counts as running.  An app is launched only while it has no run   *)
(* info, so an app has at most one process, and the state of that process  *)
(* is kept under the app's name:                                           *)
(*                                                                         *)
(*   none     no run info                                                  *)
(*   forked   fork returned in the parent, the child has not run setpgid   *)
(*   running  executing                    stopped  stopped by SIGSTOP     *)
(*   zombie   dead, not waited for         reaped   its pid is in the pipe *)
(***************************************************************************)
EXTENDS Naturals

CONSTANTS
  App,       \* the apps, named by their draft path; the order is the path order
  ForkRace   \* TRUE: the child may run setpgid after the launcher signals its group

ASSUME AppAssumption == App \subseteq Nat \ {0}
ASSUME ForkRaceAssumption == ForkRace \in BOOLEAN

NoApp == 0    \* the empty path

VARIABLE am   \* the processes, their run infos and the pending SIGCHLD

ProcState == {"none", "forked", "running", "stopped", "zombie", "reaped"}
Alive == {"forked", "running", "stopped"}

Manager == [proc    : [App -> ProcState],
            paused  : [App -> BOOLEAN],    \* AppRunInfo::paused
            term    : [App -> BOOLEAN],    \* SIGTERM was delivered
            sigchld : BOOLEAN]             \* SIGCHLD is pending for rocket

NoProcesses == [proc    |-> [a \in App |-> "none"],
                paused  |-> [a \in App |-> FALSE],
                term    |-> [a \in App |-> FALSE],
                sigchld |-> FALSE]

-----------------------------------------------------------------------------
(* What App's member functions see and do: m is the manager before.        *)

IsRunning(m, a) == m.proc[a] # "none"
IsPaused(m, a) == IsRunning(m, a) /\ m.paused[a]

\* An app's code is being executed.
Executing(m, a) == m.proc[a] \in {"forked", "running"}

\* The assertion at the head of App::pause.
CanPause(m, a) == IsRunning(m, a) /\ ~IsPaused(m, a)

Launched(m, a) ==
  [proc    |-> [m.proc EXCEPT ![a] = IF ForkRace THEN "forked" ELSE "running"],
   paused  |-> [m.paused EXCEPT ![a] = FALSE],
   term    |-> [m.term EXCEPT ![a] = FALSE],
   sigchld |-> m.sigchld]

\* Marked, but not signalled.
PauseUnsignalled(m, a) == [m EXCEPT !.paused[a] = TRUE]

\* App::pause.  kill(-pid, SIGSTOP) finds no such group until the child has run setpgid;
\* the result is ignored and the run info is marked paused all the same.
Pause(m, a) ==
  [proc    |-> [m.proc EXCEPT ![a] = IF @ = "running" THEN "stopped" ELSE @],
   paused  |-> [m.paused EXCEPT ![a] = TRUE],
   term    |-> m.term,
   sigchld |-> m.sigchld]

Continued(s) == IF s = "stopped" THEN "running" ELSE s

Resume(m, a) ==
  [proc    |-> [m.proc EXCEPT ![a] = Continued(@)],
   paused  |-> [m.paused EXCEPT ![a] = FALSE],
   term    |-> m.term,
   sigchld |-> m.sigchld]

\* ::stop: a paused app is continued first, or SIGTERM would stay pending.
\* paused is not reset.
Terminate(m, a) ==
  [proc    |-> [m.proc EXCEPT ![a] = IF m.paused[a] THEN Continued(@) ELSE @],
   paused  |-> m.paused,
   term    |-> [m.term EXCEPT ![a] = @ \/ m.proc[a] \in {"running", "stopped"}],
   sigchld |-> m.sigchld]

\* AppManager::update drains the pipe.
Update(m) ==
  [proc    |-> [a \in App |-> IF m.proc[a] = "reaped" THEN "none" ELSE m.proc[a]],
   paused  |-> [a \in App |-> m.paused[a] /\ m.proc[a] # "reaped"],
   term    |-> [a \in App |-> m.term[a] /\ m.proc[a] # "reaped"],
   sigchld |-> m.sigchld]

\* Without the SIGCONT.
TerminateAllStopped(m) ==
  [m EXCEPT !.term = [a \in App |-> m.term[a] \/ m.proc[a] \in {"running", "stopped"}]]

\* AppManager::~AppManager stops whatever still has a run info.
TerminateAll(m) ==
  [proc    |-> [a \in App |-> IF m.paused[a] THEN Continued(m.proc[a]) ELSE m.proc[a]],
   paused  |-> m.paused,
   term    |-> [a \in App |-> m.term[a] \/ m.proc[a] \in {"running", "stopped"}],
   sigchld |-> m.sigchld]

-----------------------------------------------------------------------------
(* Steps of the child processes and of the signal handler.                 *)

Moved(a, state, sigchld) ==
  [proc    |-> [am.proc EXCEPT ![a] = state],
   paused  |-> am.paused,
   term    |-> am.term,
   sigchld |-> sigchld]

\* The child gets to setpgid(0, 0), the first thing it does after fork.
Setpgid(a) ==
  /\ am.proc[a] = "forked"
  /\ am' = Moved(a, "running", am.sigchld)

\* The child ends, of itself or killed; a stopped process can only be killed.
Exit(a) ==
  /\ am.proc[a] \in Alive
  /\ am' = Moved(a, "zombie", TRUE)

\* Reaps a single child, although one SIGCHLD may stand for several deaths.
OnSigChildOnce ==
  /\ am.sigchld
  /\ \E a \in App :
       /\ am.proc[a] = "zombie"
       /\ am' = Moved(a, "reaped", FALSE)

\* AppManager::onSigChild: one pending signal, every zombie waited for, each
\* pid written to the pipe.
OnSigChild ==
  /\ am.sigchld
  /\ am' = [proc    |-> [a \in App |-> IF am.proc[a] = "zombie" THEN "reaped"
                                       ELSE am.proc[a]],
            paused  |-> am.paused,
            term    |-> am.term,
            sigchld |-> FALSE]

\* poll reports the read end of the pipe.
PipeReadable == \E a \in App : am.proc[a] = "reaped"

AMTypeOK == am \in Manager

=============================================================================
