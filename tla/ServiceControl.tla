--------------------------- MODULE ServiceControl ---------------------------
(***************************************************************************)
(* Background services (services.rs) and the commands pause-services and   *)
(* resume-services of the command line, which may run at the same time.    *)
(* The service control manager stops a service in its own time.            *)
(***************************************************************************)
EXTENDS FiniteSets

CONSTANTS
    Services,       \* TARGET_TIER3_SERVICES
    ServiceFaults   \* "control": a stop is not accepted, "start": a start fails

VARIABLES
    svc,        \* service -> state
    pausing,    \* services the pausing command still has to handle, and the one
    stopping,   \* whose stop it waits for
    resuming,   \* services the resuming command still has to handle
    command,    \* which of the two commands run
    asked,      \* history: services told to stop since the resuming command began
    missed      \* history: its start calls that had no effect

serviceVars == <<svc, pausing, stopping, resuming, command, asked, missed>>

AllRunning == svc = [s \in Services |-> "running"]

ServiceInit ==
    /\ svc \in [Services -> {"running", "stopped"}]
    /\ pausing = {} /\ stopping = {} /\ resuming = {}
    /\ command = {}
    /\ asked = {} /\ missed = {}

PauseServices ==
    /\ "pause" \notin command
    /\ command' = command \cup {"pause"}
    /\ pausing' = Services
    /\ UNCHANGED <<svc, stopping, resuming, asked, missed>>

\* stop_service tells a running service to stop and waits for it; whether the
\* control call succeeded is not looked at.  Other services are passed over.
StopService(s) ==
    /\ "pause" \in command /\ stopping = {} /\ s \in pausing
    /\ pausing' = pausing \ {s}
    /\ \/ /\ svc[s] = "running"
          /\ svc' = [svc EXCEPT ![s] = "stop_pending"]
          /\ stopping' = {s} /\ asked' = asked \cup {s}
       \/ /\ svc[s] = "running" /\ "control" \in ServiceFaults
          /\ stopping' = {s} /\ UNCHANGED <<svc, asked>>
       \/ /\ svc[s] # "running"
          /\ UNCHANGED <<svc, stopping, asked>>
    /\ UNCHANGED <<resuming, command, missed>>

\* The service was seen stopped, or two seconds have passed.
StopWaited ==
    /\ stopping # {}
    /\ stopping' = {}
    /\ UNCHANGED <<svc, pausing, resuming, command, asked, missed>>

\* The pausing process prints its backups and ends; nothing keeps them.
PauseEnds ==
    /\ "pause" \in command /\ pausing = {} /\ stopping = {}
    /\ command' = command \ {"pause"}
    /\ UNCHANGED <<svc, pausing, stopping, resuming, asked, missed>>

\* External: the service reaches the end of its stop.
ServiceStops(s) ==
    /\ svc[s] = "stop_pending"
    /\ svc' = [svc EXCEPT ![s] = "stopped"]
    /\ UNCHANGED <<pausing, stopping, resuming, command, asked, missed>>

\* (Mutant: only services that are stopped by now are resumed.)
SeenStopped == {s \in Services : svc[s] = "stopped"}

\* resume-services marks every target service as paused by the optimizer.
ResumeTargets == Services

ResumeServices ==
    /\ "resume" \notin command
    /\ command' = command \cup {"resume"}
    /\ resuming' = ResumeTargets
    /\ asked' = {} /\ missed' = {}
    /\ UNCHANGED <<svc, pausing, stopping>>

\* StartServiceW takes effect on a stopped service only; its error is passed over.
StartService(s) ==
    /\ "resume" \in command /\ s \in resuming
    /\ resuming' = resuming \ {s}
    /\ \/ /\ svc[s] = "stopped"
          /\ svc' = [svc EXCEPT ![s] = "running"]
          /\ UNCHANGED missed
       \/ /\ svc[s] # "stopped" \/ "start" \in ServiceFaults
          /\ missed' = missed \cup {s}
          /\ UNCHANGED svc
    /\ UNCHANGED <<pausing, stopping, command, asked>>

ResumeEnds ==
    /\ "resume" \in command /\ resuming = {}
    /\ command' = command \ {"resume"}
    /\ UNCHANGED <<svc, pausing, stopping, resuming, asked, missed>>

ServiceNext ==
    \/ PauseServices \/ StopWaited \/ PauseEnds \/ ResumeServices \/ ResumeEnds
    \/ \E s \in Services : StopService(s) \/ ServiceStops(s) \/ StartService(s)

ServiceSpec == ServiceInit /\ [][ServiceNext]_serviceVars

-----------------------------------------------------------------------------
(* Properties                                                              *)

\* When resume-services ends, a service is stopped only if its start call had no
\* effect (it was still stopping, or StartServiceW failed, and the error is
\* dropped), or if a pause told it to stop in the meantime: also a service that
\* the pause had given up waiting for is started again.
ResumeReachesEveryService ==
    [][ \A s \in Services :
          ResumeEnds /\ svc[s] = "stopped" => s \in asked \cup missed ]_serviceVars

=============================================================================
