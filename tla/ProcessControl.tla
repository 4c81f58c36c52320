--------------------------- MODULE ProcessControl ---------------------------
(***************************************************************************)
(* The processes of the machine as the optimizer handles them              *)
(* (terminator.rs, supervisor.rs, valorant_launcher.rs): the purge of      *)
(* background applications, the launch of the game, the tuning of its      *)
(* process and the relaunch of what was closed.  The user starts and       *)
(* closes programs meanwhile, and Windows gives the pids of dead processes *)
(* to new ones.                                                            *)
(***************************************************************************)
EXTENDS Integers, LaunchPreflight

CONSTANTS
    Pids,       \* process ids in use
    Programs,   \* what the user runs
    Machines,   \* readings of the Vanguard prerequisites
    Firmware,   \* processor records the machine may report
    Events,     \* how often the user starts or ends a program (a bound)
    Faults      \* a subset of AllFaults

(***************************************************************************)
(* A process cannot be opened ("open"), its image path cannot be read      *)
(* ("path"), it survives TerminateProcess ("survive"); no desktop user's   *)
(* token is to be had ("token"), a process cannot be created ("spawn"), a  *)
(* closed program's file is moved away ("moved").                          *)
(***************************************************************************)
AllFaults == {"open", "path", "survive", "token", "spawn", "moved"}

Images == Programs \cup {Game, RiotClient, CefUi}

\* A process held open: where it runs, whether its path is known, what it is.
Handles == [pid : Pids, path : BOOLEAN, image : Images]

ASSUME ProcessAssumption ==
    /\ Pids \subseteq Nat /\ IsFiniteSet(Pids)
    /\ Machines \subseteq [Checks -> Readings]
    /\ \A buffer \in Firmware : buffer \in Seq(Records)
    /\ Events \in Nat
    /\ Faults \subseteq AllFaults
    /\ None \notin Images \cup Handles

VARIABLES
    table,     \* pid -> the image that runs there, or None
    pc,        \* what the optimizer does next
    task,      \* for whom it terminates processes: "purge", "launch" or "cef"
    listing,   \* the process snapshot: pid -> image when it was taken
    todo,      \* pids of the snapshot still to be visited
    handle,    \* the process it holds open
    backups,   \* TerminatedAppBackups, in order
    mask,      \* p_core_affinity_mask of the supervisor's configuration
    firmware,  \* the records it was computed from
    pinned,    \* affinity of the game process, None if unrestricted
    elevated,  \* the daemon runs as administrator
    events,    \* user events so far
    killed,    \* history: images of the processes the walk terminated
    owed,      \* history: image -> processes this launch opened, path known, less
               \* the relaunches tried
    closed,    \* history: images it closed, path known, no relaunch tried yet
    spawned    \* history: [image, desktop] of the processes with elevated rights

processVars == <<table, listing, todo, handle, backups, events>>
launchVars == <<mask, firmware, pinned>>
history == <<killed, owed, closed, spawned>>
vars == <<pc, task, elevated, processVars, launchVars, history>>

Nobody == [i \in Images |-> 0]
Running == {p \in Pids : table[p] # None}
Runs(image) == \E p \in Pids : table[p] = image
Free == {p \in Pids : table[p] = None /\ (handle = None \/ handle.pid # p)}

TypeOK ==
    /\ table \in [Pids -> Images \cup {None}]
    /\ pc \in {"idle", "visit", "close", "prepared", "poll", "tune", "play", "relaunch"}
    /\ task \in {"purge", "launch", "cef"}
    /\ listing \in [Pids -> Images \cup {None}]
    /\ todo \subseteq Pids
    /\ handle \in {None} \cup Handles
    /\ handle # None <=> pc = "close"
    /\ backups \in Seq(Images)
    /\ elevated \in BOOLEAN
    /\ events \in 0 .. Events
    /\ owed \in [Images -> Int] /\ closed \subseteq Images /\ killed \subseteq Images

Init ==
    /\ table \in [Pids -> Programs \cup {CefUi, None}]
    /\ pc = "idle" /\ task = "purge"
    /\ listing = [p \in Pids |-> None] /\ todo = {} /\ handle = None
    /\ backups = << >> /\ events = 0
    /\ mask = None /\ firmware = << >> /\ pinned = None
    /\ elevated \in BOOLEAN
    /\ killed = {} /\ owed = Nobody /\ closed = {} /\ spawned = {}

-----------------------------------------------------------------------------
(* Terminating processes                                                   *)

\* terminate_tier2_background_processes takes a snapshot of all processes and
\* keeps walking it, however old it has become.
Scan(for, wanted) ==
    /\ listing' = table
    /\ todo' = {p \in Running : table[p] \in wanted}
    /\ task' = for
    /\ pc' = "visit"

Tier2 == {i \in Images : classify_process(i) = 2}

PurgeBloatware ==
    /\ pc = "idle"
    /\ Scan("purge", Tier2)
    /\ backups' = << >>
    /\ UNCHANGED <<table, handle, events, launchVars, elevated, history>>

\* OpenProcess by pid: what it opens is whatever runs there now.  The purge of
\* the Riot Client's interface looks at the path of the open process first.
Visit ==
    /\ pc = "visit" /\ todo # {}
    /\ LET p == Min(todo) IN
       /\ todo' = todo \ {p}
       /\ \/ /\ table[p] # None
             /\ assert_safe_to_kill(listing[p])
             /\ task = "cef" => table[p] \in {CefUi, RiotClient}
             /\ \E path \in {TRUE} \cup (IF "path" \in Faults THEN {FALSE} ELSE {}) :
                    handle' = [pid |-> p, path |-> path, image |-> table[p]]
             /\ pc' = "close"
          \/ /\ \/ table[p] = None
                \/ task = "cef" /\ table[p] \notin {CefUi, RiotClient}
                \/ "open" \in Faults
             /\ UNCHANGED <<pc, handle>>
    /\ UNCHANGED <<table, task, listing, backups, events, launchVars, elevated, history>>

\* (Mutant: a backup is kept whoever purges.)
BackedUpByAnyPurge(h) == h.path

\* A backup is made of every process that could be opened and has a path, also
\* if TerminateProcess failed on it.  Only the launch keeps what it collects.
BackedUp(h) == h.path /\ task = "launch"

CloseHandle == handle' = None

\* WM_CLOSE, up to one second, then TerminateProcess, whose result is ignored.
CloseProcess ==
    /\ pc = "close"
    /\ \E gone \in {TRUE} \cup (IF "survive" \in Faults THEN {FALSE} ELSE {}) :
        /\ table' = IF gone THEN [table EXCEPT ![handle.pid] = None] ELSE table
        /\ killed' = IF gone /\ table[handle.pid] # None
                     THEN killed \cup {handle.image} ELSE killed
        /\ closed' = IF gone /\ handle.path /\ task = "launch"
                     THEN closed \cup {handle.image} ELSE closed
    /\ owed' = IF handle.path /\ task = "launch"
               THEN [owed EXCEPT ![handle.image] = @ + 1] ELSE owed
    /\ backups' = IF BackedUp(handle) THEN Append(backups, handle.image) ELSE backups
    /\ CloseHandle
    /\ pc' = "visit"
    /\ UNCHANGED <<task, elevated, listing, todo, events, launchVars, spawned>>

VisitedAll ==
    /\ pc = "visit" /\ todo = {}
    /\ \/ task = "purge" /\ pc' = "idle"
       \/ task = "launch" /\ pc' = "prepared"
       \/ task = "cef" /\ pc' = "play"
    /\ listing' = [p \in Pids |-> None] /\ killed' = {}
    /\ UNCHANGED <<task, elevated, table, todo, handle, backups, events, launchVars,
                   owed, closed, spawned>>

-----------------------------------------------------------------------------
(* Starting processes                                                      *)

\* How a process may be created: with the daemon's own token if it is not
\* elevated ("own"); else with the token of the desktop user ("given"), which
\* may be missing ("none") or not be accepted ("refused").
Desktop ==
    IF ~elevated THEN {"own"}
    ELSE (IF Free # {} THEN {"given"} ELSE {})
         \cup (IF "token" \in Faults THEN {"none"} ELSE {})
         \cup (IF "spawn" \in Faults \/ Free = {} THEN {"refused"} ELSE {})

\* A second Riot Client hands over to the first and ends (external).
Created(image, desktop, deescalated) ==
    /\ IF image = RiotClient /\ Runs(image) THEN UNCHANGED table
       ELSE \E p \in Free : table' = [table EXCEPT ![p] = image]
    /\ spawned' = IF elevated /\ ~deescalated
                  THEN spawned \cup {[image |-> image, desktop |-> desktop]}
                  ELSE spawned

NotCreated == UNCHANGED <<table, spawned>>

\* ShellExecuteW starts the handler of the riotclient URI itself, so the new
\* process has the daemon's rights.
ShellOpensRiotClient == Created(RiotClient, "shell", FALSE)

\* std::process::Command: the new process inherits the daemon's token.
SpawnDirectly(image, desktop) ==
    \/ Created(image, desktop, FALSE)
    \/ ("spawn" \in Faults \/ Free = {}) /\ NotCreated

\* launch_game falls back to a direct spawn also when the user's token is refused.
LaunchRiotClient(image) ==
    \E desktop \in Desktop :
        IF desktop = "given" THEN Created(image, desktop, TRUE)
        ELSE SpawnDirectly(image, desktop)

\* relaunch_single_application: a refused spawn with the user's token is final.
relaunch_single_application(image) ==
    \E desktop \in Desktop :
        \/ desktop = "given" /\ Created(image, desktop, TRUE)
        \/ desktop \in {"own", "none"} /\ SpawnDirectly(image, desktop)
        \/ desktop = "refused" /\ NotCreated

-----------------------------------------------------------------------------
(* A launch, as LaunchOptimizedGame and the supervisor carry it out        *)

\* The Vanguard check and the topology come first.  VAL_OPT_BYPASS_VANGUARD_DEV in
\* the daemon's environment makes the check pass.
LaunchOptimizedGame ==
    /\ pc = "idle"
    /\ \E machine \in Machines, bypass \in BOOLEAN : ensure_compliant(machine, bypass)
    /\ \E buffer \in Firmware :
        /\ firmware' = buffer
        /\ mask' = evaluate_topology(parse_processor_cores(buffer))
    /\ Scan("launch", Tier2)
    /\ backups' = << >>
    /\ UNCHANGED <<elevated, table, handle, events, pinned, history>>

\* A launch that is not compliant is answered with an error and touches nothing.
LaunchRefused ==
    /\ pc = "idle"
    /\ \E machine \in Machines : ~ensure_compliant(machine, FALSE)
    /\ UNCHANGED vars

\* launch_game attaches to a running game; else it starts the Riot Client that it
\* finds on disk; if there is none, or it does not start, it asks the shell to
\* open the Riot URI where that is registered.  When nothing works the supervisor
\* keeps polling all the same.
LaunchGame ==
    /\ pc = "prepared"
    /\ \/ Runs(Game) /\ NotCreated
       \/ /\ ~Runs(Game)
          /\ \E present \in {{}, {"HKLM"}, {"rc_live", "drive"}} :
                LET client == find_riot_client_executable(present) IN
                \/ client # None /\ LaunchRiotClient(RiotClient)
                \/ /\ client = None \/ "spawn" \in Faults
                   /\ ShellOpensRiotClient \/ NotCreated
    /\ pc' = "poll"
    /\ UNCHANGED <<task, elevated, listing, todo, handle, backups, events, launchVars,
                   killed, owed, closed>>

\* The Riot Client starts the game.
GameStarts ==
    /\ pc = "poll"
    /\ Runs(RiotClient) /\ ~Runs(Game)
    /\ \E p \in Free : table' = [table EXCEPT ![p] = Game]
    /\ UNCHANGED <<pc, task, listing, todo, handle, backups, events, launchVars,
                   elevated, history>>

FindGame ==
    /\ pc = "poll"
    /\ Runs(Game)
    /\ pc' = "tune"
    /\ UNCHANGED <<task, processVars, launchVars, elevated, history>>

\* optimize_game_process: priority, affinity, then the Riot Client's interface.
\* A game that cannot be opened is left as it is.
TuneGame ==
    /\ pc = "tune"
    /\ \/ pinned' = mask /\ Scan("cef", {CefUi})
       \/ /\ "open" \in Faults
          /\ pc' = "play" /\ UNCHANGED <<pinned, listing, todo, task>>
    /\ UNCHANGED <<table, handle, backups, events, mask, firmware, elevated, history>>

GameExits ==
    /\ pc = "play"
    /\ table' = [p \in Pids |-> IF table[p] = Game THEN None ELSE table[p]]
    /\ mask' = None /\ firmware' = << >> /\ pinned' = None
    /\ pc' = "relaunch"
    /\ UNCHANGED <<task, elevated, listing, todo, handle, backups, events, history>>

\* (Mutant: the first failed relaunch ends the loop.)
NoneAfterFailure(spawnedOne) == IF spawnedOne THEN Tail(backups) ELSE << >>

\* relaunch_applications goes through every backup; one failure stops nothing.
Remaining(spawnedOne) == Tail(backups)

Relaunch ==
    /\ pc = "relaunch" /\ backups # << >>
    /\ LET image == Head(backups) IN
       /\ \E kind \in {"file"} \cup (IF "moved" \in Faults THEN {"missing"} ELSE {}) :
            IF validate_relaunch_path(kind, image)
            THEN relaunch_single_application(image)
            ELSE NotCreated
       /\ owed' = [owed EXCEPT ![image] = @ - 1]
       /\ closed' = closed \ {image}
    /\ backups' = Remaining(table' # table)
    /\ UNCHANGED <<pc, task, elevated, listing, todo, handle, events, launchVars, killed>>

SessionOver ==
    /\ pc = "relaunch" /\ backups = << >>
    /\ pc' = "idle"
    /\ owed' = Nobody /\ closed' = {} /\ spawned' = {}
    /\ task' = "purge"
    /\ UNCHANGED <<elevated, processVars, launchVars, killed>>

-----------------------------------------------------------------------------
(* The user                                                                *)

UserStarts ==
    /\ events < Events /\ events' = events + 1
    /\ \E p \in Free, i \in Programs : table' = [table EXCEPT ![p] = i]
    /\ UNCHANGED <<pc, task, listing, todo, handle, backups, launchVars, elevated, history>>

UserEnds ==
    /\ events < Events /\ events' = events + 1
    /\ \E p \in Running :
        /\ table[p] \in Programs
        /\ table' = [table EXCEPT ![p] = None]
    /\ UNCHANGED <<pc, task, listing, todo, handle, backups, launchVars, elevated, history>>

Next ==
    \/ PurgeBloatware \/ Visit \/ CloseProcess \/ VisitedAll
    \/ LaunchOptimizedGame \/ LaunchRefused \/ LaunchGame \/ GameStarts
    \/ FindGame \/ TuneGame \/ GameExits \/ Relaunch \/ SessionOver
    \/ UserStarts \/ UserEnds

Spec == Init /\ [][Next]_vars

-----------------------------------------------------------------------------
(* Properties                                                              *)

\* What the table of Tier 0 in safety_db.rs says: its processes are never
\* terminated, whoever walks the processes and however old the listing is.  The
\* code checks the listed name and opens the pid afterwards, which Windows may have
\* given to another process meanwhile.
ProtectedNeverTerminated == killed \cap Tier0Protected = {}

\* When the relaunch after a match is through, every application that the
\* launch really closed, and whose path it knew, has been started again or
\* tried: a failed relaunch does not make the rest be forgotten.
RelaunchForgetsNobody ==
    pc = "relaunch" /\ backups = << >> => closed = {}

\* Nothing is started after a match more often than the launch itself opened a
\* process of it to close it; what the purge of the Riot Client's interface
\* closed during the match stays closed.
OneStartPerProcess == \A i \in Images : owed[i] >= 0

\* What the elevated daemon starts again after a match has its rights only if no
\* desktop user's token could be had.  The Riot Client may get them also when the
\* token is refused or when it is started through its URI.
DeescalatedWhenPossible ==
    \A s \in spawned :
        s.desktop = "none" \/ (s.image = RiotClient /\ s.desktop \in {"refused", "shell"})

\* The game is pinned exactly to the processors of group 0 that belong to cores
\* of the highest class among the records that could be read, and only if there
\* are cores of a lower class too.
PinnedToFastCores ==
    pinned # None =>
        LET cut == {i \in DOMAIN firmware : firmware[i].relation = "cut"}
            cores == {firmware[i] : i \in {j \in DOMAIN firmware :
                        firmware[j].relation = "core" /\ \A k \in cut : j < k}}
            fast == {c \in cores : \A d \in cores : d.class <= c.class}
        IN  /\ fast # cores
            /\ pinned # {}
            /\ pinned = UNION {c.cpus : c \in {d \in fast : d.group = 0}}

=============================================================================
