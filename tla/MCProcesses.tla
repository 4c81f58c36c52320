----------------------------- MODULE MCProcesses -----------------------------
(* Three pids, a protected shell and an application on the user's desktop.  *)
EXTENDS ProcessControl, ServiceControl

AllRight == [c \in Checks |-> "yes"]

MachinesSeen == {AllRight,
                 [AllRight EXCEPT !["test_signing_off"] = "unreadable"],
                 [AllRight EXCEPT !["vgk"] = "unreadable"]}

Core(class, group, cpus) ==
    [relation |-> "core", class |-> class, group |-> group, cpus |-> cpus]

Other(relation) == [relation |-> relation]

\* A uniform processor; a hybrid one with a fast core in another group, whose
\* buffer is cut before its last core.
FirmwareSeen ==
    { <<Core(0, 0, {0}), Core(0, 0, {1})>>,
      <<Core(0, 0, {0}), Other("cache"), Core(1, 0, {1}), Core(1, 1, {2}),
        Other("cut"), Core(2, 0, {3})>> }

(***************************************************************************)
(* Processes and services share no state.  So that the run explores both   *)
(* and not every combination of them, services are handled on a machine    *)
(* without programs.                                                       *)
(***************************************************************************)
Quiet == pc = "idle" /\ Running = {} /\ events = 0 /\ spawned = {} /\ ~elevated

\* At first one pid is free.
MCInit ==
    /\ Init /\ ServiceInit
    /\ Running # {} => AllRunning
    /\ Cardinality(Running) <= 2

MCNext ==
    \/ Next /\ UNCHANGED serviceVars
    \/ Quiet /\ ServiceNext /\ UNCHANGED vars

MCSpec == MCInit /\ [][MCNext]_<<vars, serviceVars>>

=============================================================================
