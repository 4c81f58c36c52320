---------------------------- MODULE GameSession ----------------------------
(***************************************************************************)
(* A game session of the daemon: the pipe handler (one thread, one request *)
(* at a time), the supervisor threads that LaunchOptimizedGame starts, the *)
(* stop signal they share through ACTIVE_SUPERVISOR_STOP, the game, the    *)
(* applications closed for it, and the daemon's start and end.             *)
(*                                                                         *)
(* The settings appear as OptimizationCoordinator describes them from the  *)
(* outside: an apply saves the present settings in the record and tunes    *)
(* them, a recovery restores what the record holds and deletes it.         *)
(***************************************************************************)
EXTENDS FiniteSets

CONSTANTS
    Supervisors,  \* threads start_background_supervision may start
    Apps,         \* Tier 2 applications
    None,         \* ACTIVE_SUPERVISOR_STOP is None
    Requests,     \* the requests clients send
    OneSession,   \* TRUE: sessions do not overlap, and no other process applies
    Faults        \* the kinds of failure that may happen

RequestKinds == {"launch", "apply", "rollback", "purge", "shutdown"}

FaultKinds ==
    { "purge",     \* an application outlives the purge, or its path is unknown
      "apply",     \* apply_optimizations fails
      "persist",   \* its record cannot be written
      "restore",   \* the record cannot be read, or its settings not be restored
      "relaunch",  \* an application cannot be started again
      "open",      \* OpenProcess of the running game is refused
      "crash" }    \* the daemon is killed

ASSUME SessionAssumption ==
    /\ None \notin Supervisors
    /\ Requests \subseteq RequestKinds
    /\ OneSession \in BOOLEAN
    /\ Faults \subseteq FaultKinds

VARIABLES
    up,          \* the daemon runs
    req,         \* what the handler does next
    collected,   \* backups in the handler's hands
    registered,  \* ACTIVE_SUPERVISOR_STOP: whose signal it holds
    stop,        \* the stop signal of each supervisor
    sup,         \* where each supervisor is
    backups,     \* the TerminatedAppBackups it still has to relaunch
    gone,        \* the game process it attached to has exited
    game,        \* the game runs
    running,     \* applications that run
    closed,      \* applications the optimizer closed, not started again since
    settings,    \* "baseline" or "tuned"
    record       \* active_transaction.json: "none", or what it restores

daemon == <<up, req, collected, registered, stop>>
threads == <<sup, backups, gone>>
system == <<settings, record>>
vars == <<up, req, collected, registered, stop, sup, backups, gone, game,
          running, closed, settings, record>>

-----------------------------------------------------------------------------
(* State                                                                   *)

Steps == {"idle", "apply", "register", "launch", "recover", "exit"}
Attached == {"open", "wait"}
Live == {"poll"} \cup Attached \cup {"check", "relaunch", "recover"}

IsLive(s) == sup[s] \in Live

TypeOK ==
    /\ up \in BOOLEAN
    /\ req \in Steps
    /\ collected \subseteq Apps
    /\ registered \in Supervisors \cup {None}
    /\ stop \in [Supervisors -> BOOLEAN]
    /\ sup \in [Supervisors -> Live \cup {"unborn", "done"}]
    /\ backups \in [Supervisors -> SUBSET Apps]
    /\ gone \in [Supervisors -> BOOLEAN]
    /\ game \in BOOLEAN
    /\ running \subseteq Apps /\ closed \subseteq Apps
    /\ settings \in {"baseline", "tuned"}
    /\ record \in {"none", "baseline", "tuned"}
    /\ collected # {} => req \in {"apply", "register"}
    /\ registered # None => sup[registered] # "unborn"

\* The daemon has just started on an untouched machine.
Init ==
    /\ up = TRUE
    /\ req = "idle"
    /\ collected = {}
    /\ registered = None
    /\ stop = [s \in Supervisors |-> FALSE]
    /\ sup = [s \in Supervisors |-> "unborn"]
    /\ backups = [s \in Supervisors |-> {}]
    /\ gone = [s \in Supervisors |-> FALSE]
    /\ game \in BOOLEAN
    /\ running \in SUBSET Apps
    /\ closed = {}
    /\ settings = "baseline"
    /\ record = "none"

-----------------------------------------------------------------------------
(* Effects                                                                 *)

\* apply_optimizations: the record holds what was there before.  If it fails
\* at Game Mode it restores nothing and deletes the record file; a record that
\* cannot be written is passed over.
Apply ==
    \/ settings' = "tuned" /\ record' = settings
    \/ "persist" \in Faults /\ settings' = "tuned" /\ UNCHANGED record
    \/ "apply" \in Faults /\ record' = "none" /\ UNCHANGED settings

\* recover_orphaned_transaction: it deletes the record also when restoring
\* failed, but not when it could not read it.
Recover ==
    \/ /\ settings' = IF record = "none" THEN settings ELSE record
       /\ record' = "none"
    \/ /\ "restore" \in Faults
       /\ record' \in {"none", record}
       /\ UNCHANGED settings

\* terminate_tier2_background_processes: every running application is closed
\* and its path kept.  Either may fail: a process may outlive its termination,
\* and the path of one that is closed may be unknown.
Purge(kept) ==
    \E killed \in SUBSET running :
       /\ killed # running \/ kept # running => "purge" \in Faults
       /\ kept \subseteq running
       /\ running' = running \ killed
       /\ closed' = closed \cup killed

\* Mutant of Stopped: the signal is taken from its place and not raised.
StoppedNever == stop

\* The registered supervisor, if any, is told to stop.
Stopped ==
    [s \in Supervisors |-> stop[s] \/ s = registered]

\* Nothing of an earlier session is left.
Quiet ==
    /\ record = "none"
    /\ \A s \in Supervisors : ~IsLive(s)

Request(kind) ==
    /\ up
    /\ req = "idle"
    /\ kind \in Requests

-----------------------------------------------------------------------------
(* handle_request_authorized                                               *)

\* LaunchOptimizedGame, after the Vanguard check: close the applications, ...
Launch ==
    /\ Request("launch")
    /\ OneSession => Quiet
    /\ \E s \in Supervisors : sup[s] = "unborn"
    /\ \E kept \in SUBSET Apps : Purge(kept) /\ collected' = kept
    /\ req' = "apply"
    /\ UNCHANGED <<up, registered, stop, threads, game, system>>

\* ... apply, whatever comes of it, ...
LaunchApply ==
    /\ req = "apply"
    /\ Apply
    /\ req' = "register"
    /\ UNCHANGED <<up, collected, registered, stop, threads, game, running, closed>>

\* Mutant of LaunchSupervisor: the supervisor is given a copy of the backups.
LaunchSupervisorCloned ==
    /\ req = "register"
    /\ \E s \in Supervisors :
          /\ sup[s] = "unborn"
          /\ stop' = Stopped
          /\ registered' = s
          /\ sup' = [sup EXCEPT ![s] = "poll"]
          /\ backups' = [backups EXCEPT ![s] = collected]
    /\ req' = "launch"
    /\ UNCHANGED <<up, collected, gone, game, running, closed, system>>

\* ... cancel the previous supervisor, register and start the new one, ...
LaunchSupervisor ==
    /\ req = "register"
    /\ \E s \in Supervisors :
          /\ sup[s] = "unborn"
          /\ stop' = Stopped
          /\ registered' = s
          /\ sup' = [sup EXCEPT ![s] = "poll"]
          /\ backups' = [backups EXCEPT ![s] = collected]
    /\ collected' = {}
    /\ req' = "launch"
    /\ UNCHANGED <<up, gone, game, running, closed, system>>

\* ... and hand over to the Riot client, which starts the game later or never.
LaunchGame ==
    /\ req = "launch"
    /\ req' = "idle"
    /\ UNCHANGED <<up, collected, registered, stop, threads, game, running,
                   closed, system>>

ApplyOptimizations ==
    /\ Request("apply")
    /\ OneSession => Quiet
    /\ Apply
    /\ UNCHANGED <<daemon, threads, game, running, closed>>

\* RollbackOptimizations: take and raise the stop signal, ...
Rollback ==
    /\ Request("rollback")
    /\ stop' = Stopped
    /\ registered' = None
    /\ req' = "recover"
    /\ UNCHANGED <<up, collected, threads, game, running, closed, system>>

\* ... then restore.
RollbackRecover ==
    /\ req = "recover"
    /\ Recover
    /\ req' = "idle"
    /\ UNCHANGED <<up, collected, registered, stop, threads, game, running, closed>>

\* PurgeBloatware counts the backups and drops them.
PurgeBloatware ==
    /\ Request("purge")
    /\ \E kept \in SUBSET Apps : Purge(kept)
    /\ UNCHANGED <<daemon, threads, game, system>>

ShutdownDaemon ==
    /\ Request("shutdown")
    /\ stop' = Stopped
    /\ registered' = None
    /\ req' = "exit"
    /\ UNCHANGED <<up, collected, threads, game, running, closed, system>>

\* The process ends, and its threads with it.
Gone ==
    /\ up' = FALSE
    /\ req' = "idle"
    /\ collected' = {}
    /\ registered' = None
    /\ sup' = [s \in Supervisors |-> IF IsLive(s) THEN "done" ELSE sup[s]]
    /\ UNCHANGED <<stop, backups, gone, game, running, closed, system>>

Exit  == up /\ req = "exit" /\ Gone
Crash == up /\ "crash" \in Faults /\ Gone

\* main: check_and_recover(None) looks for snapshot.json, which a session does
\* not write; then the server starts.
Boot ==
    /\ ~up
    /\ up' = TRUE
    /\ UNCHANGED <<req, collected, registered, stop, threads, game, running,
                   closed, system>>

-----------------------------------------------------------------------------
(* start_background_supervision                                            *)

Go(s, where) == sup' = [sup EXCEPT ![s] = where]

\* Polls until the game is there, or the stop signal.
Poll(s) ==
    /\ sup[s] = "poll"
    /\ \/ stop[s] /\ Go(s, "done")
       \/ ~stop[s] /\ game /\ Go(s, "open")
    /\ UNCHANGED <<daemon, backups, gone, game, running, closed, system>>

\* optimize_game_process; then wait_for_game_exit opens the process.  If that
\* fails the supervisor takes it for a cancellation and is done.
OpenGame(s) ==
    /\ sup[s] = "open"
    /\ \/ ~gone[s] /\ Go(s, "wait")
       \/ (gone[s] \/ "open" \in Faults) /\ Go(s, "done")
    /\ UNCHANGED <<daemon, backups, gone, game, running, closed, system>>

\* Mutant of Wait: a wait without a time limit does not notice the signal.
WaitInfinite(s) ==
    /\ sup[s] = "wait"
    /\ gone[s]
    /\ Go(s, "check")
    /\ UNCHANGED <<daemon, backups, gone, game, running, closed, system>>

\* Wakes up every second: for the stop signal, or because the game exited.
Wait(s) ==
    /\ sup[s] = "wait"
    /\ \/ stop[s] /\ Go(s, "done")
       \/ gone[s] /\ Go(s, "check")
    /\ UNCHANGED <<daemon, backups, gone, game, running, closed, system>>

\* Mutant of Check: without applications to start again there is nothing to do.
CheckNothingClosed(s) ==
    /\ sup[s] = "check"
    /\ Go(s, IF stop[s] \/ backups[s] = {} THEN "done" ELSE "relaunch")
    /\ UNCHANGED <<daemon, backups, gone, game, running, closed, system>>

\* The last look at the stop signal.
Check(s) ==
    /\ sup[s] = "check"
    /\ Go(s, IF stop[s] THEN "done" ELSE "relaunch")
    /\ UNCHANGED <<daemon, backups, gone, game, running, closed, system>>

\* relaunch_applications, one application; a failure is passed over.
Relaunch(s) ==
    /\ sup[s] = "relaunch"
    /\ \E app \in backups[s] :
          /\ backups' = [backups EXCEPT ![s] = @ \ {app}]
          /\ \/ running' = running \cup {app} /\ closed' = closed \ {app}
             \/ "relaunch" \in Faults /\ UNCHANGED <<running, closed>>
    /\ UNCHANGED <<daemon, sup, gone, game, system>>

AllRelaunched(s) ==
    /\ sup[s] = "relaunch"
    /\ backups[s] = {}
    /\ Go(s, "recover")
    /\ UNCHANGED <<daemon, backups, gone, game, running, closed, system>>

PostMatchRecover(s) ==
    /\ sup[s] = "recover"
    /\ Recover
    /\ Go(s, "done")
    /\ UNCHANGED <<daemon, backups, gone, game, running, closed>>

-----------------------------------------------------------------------------
(* The rest of the machine                                                 *)

GameStarts ==
    /\ ~game
    /\ game' = TRUE
    /\ UNCHANGED <<daemon, threads, running, closed, system>>

GameExits ==
    /\ game
    /\ game' = FALSE
    /\ gone' = [s \in Supervisors |-> gone[s] \/ sup[s] \in Attached]
    /\ UNCHANGED <<daemon, sup, backups, running, closed, system>>

UserStarts(app) ==
    /\ app \notin running
    /\ running' = running \cup {app}
    /\ closed' = closed \ {app}
    /\ UNCHANGED <<daemon, threads, game, system>>

\* `valopt optimize' and `valopt restore' run in a process of their own.
CliOptimizes ==
    /\ ~OneSession
    /\ Apply
    /\ UNCHANGED <<daemon, threads, game, running, closed>>

CliRestores ==
    /\ ~OneSession
    /\ Recover
    /\ UNCHANGED <<daemon, threads, game, running, closed>>

HandlerStep == LaunchApply \/ LaunchSupervisor \/ LaunchGame \/ RollbackRecover \/ Exit

SupervisorStep(s) ==
    \/ Poll(s) \/ OpenGame(s) \/ Wait(s) \/ Check(s)
    \/ Relaunch(s) \/ AllRelaunched(s) \/ PostMatchRecover(s)

ClientRequest ==
    Launch \/ ApplyOptimizations \/ Rollback \/ PurgeBloatware \/ ShutdownDaemon

Next ==
    \/ ClientRequest
    \/ HandlerStep
    \/ \E s \in Supervisors : SupervisorStep(s)
    \/ Crash \/ Boot
    \/ GameStarts \/ GameExits
    \/ \E app \in Apps : UserStarts(app)
    \/ CliOptimizes \/ CliRestores

Spec == Init /\ [][Next]_vars

\* The operating system schedules the daemon's threads, and every wait in them
\* is bounded; clients, the user and the game need not do anything.
FairSpec ==
    /\ Spec
    /\ WF_vars(HandlerStep)
    /\ \A s \in Supervisors : WF_vars(SupervisorStep(s))

-----------------------------------------------------------------------------
(* Properties                                                              *)

\* However requests, exits and restarts follow each other, a live supervisor that
\* was not told to stop is the registered one, so that there is at most one, and
\* the next launch, rollback or shutdown can still reach it.  (It does not say
\* that a cancelled one restores nothing: past its last look at the signal,
\* supervisor.rs:328, it goes on to relaunch and recover.)
OneUncancelledSupervisor ==
    \A s \in Supervisors : IsLive(s) /\ ~stop[s] => registered = s

\* While its uncancelled supervisor waits for the game to exit, the settings
\* stay tuned, and the record leads back to the baseline.
TunedWhilePlaying ==
    \A s \in Supervisors :
       sup[s] \in Attached /\ ~stop[s] => settings = "tuned" /\ record = "baseline"

\* "Upon game exit, triggers post-match application relaunch and restores
\* baseline optimizations": once the supervisor waits for it, an exit of the
\* game is followed by both, unless the session is cancelled or the daemon ends.
ExitRestores ==
    \A s \in Supervisors :
       /\ (sup[s] = "wait" /\ gone[s]) ~>
             (settings = "baseline" /\ record = "none") \/ stop[s] \/ ~up
       /\ \A app \in Apps :
             (sup[s] = "wait" /\ gone[s] /\ app \in backups[s]) ~>
                app \notin closed \/ stop[s] \/ ~up

\* A supervisor that was told to stop ends, wherever the signal meets it: no
\* thread is leaked.
CancelledSupervisorEnds ==
    \A s \in Supervisors : stop[s] ~> ~IsLive(s)

-----------------------------------------------------------------------------
(* The strengthening that makes TunedWhilePlaying inductive                *)

\* Sessions do not overlap, and the coordinator does its work.
SafeSession ==
    /\ OneSession
    /\ Faults \cap {"apply", "persist", "restore"} = {}

SessionInv ==
    /\ OneUncancelledSupervisor
    /\ req \in {"recover", "exit"} => registered = None
    /\ \A s, t \in Supervisors : IsLive(s) /\ IsLive(t) => s = t
    /\ \/ settings = "baseline" /\ record = "none"
       \/ settings = "tuned" /\ record = "baseline"
    /\ req \in {"apply", "register"} => \A s \in Supervisors : ~IsLive(s)
    /\ req = "apply" => record = "none"
    /\ req = "register" => record = "baseline"
    /\ \A s \in Supervisors : IsLive(s) /\ ~stop[s] => record = "baseline"

=============================================================================
