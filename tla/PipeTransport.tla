--------------------------- MODULE PipeTransport ---------------------------
(***************************************************************************)
(* The named pipe between the graphical interface and the daemon: the      *)
(* daemon's main and listener thread (ipc_server.rs, main.rs), the client  *)
(* side with its spawning of daemons and its in-process fallback           *)
(* (ipc_client.rs, lifecycle.rs), and the interface's callbacks.           *)
(*                                                                         *)
(* Clients are the threads of one interface process: the event-loop thread *)
(* that runs the synchronous callbacks, and the threads the diagnostics    *)
(* callbacks spawn.  They compete for the single pipe instance.            *)
(***************************************************************************)
EXTENDS Naturals, FiniteSets

CONSTANTS
    Clients,    \* threads of the interface that send requests
    Daemons,    \* val-opt-core processes (bounds how many run at a time)
    Asks,       \* Asks[c]: the requests thread c sends
    None,       \* no daemon, no client, no reply
    Faults      \* a subset of AllFaults

AllRequests == {"ApplyOptimizations", "RunBufferbloatTest",
                "LaunchOptimizedGame", "ShutdownDaemon"}

(***************************************************************************)
(* What may go wrong: a daemon executable is not found ("spawn"), the pipe *)
(* cannot be created although it is free ("create"), the handle cannot be  *)
(* duplicated ("duplicate"), the client's token cannot be read ("token"),  *)
(* a handler fails ("handler"), a daemon dies ("crash").                   *)
(***************************************************************************)
AllFaults == {"spawn", "create", "duplicate", "token", "handler", "crash"}

\* What a handler, or the gate in front of it, replies.
Replies == {"ok", "error", "UNAUTHORIZED"}

ASSUME PipeAssumption ==
    /\ Asks \in [Clients -> SUBSET AllRequests]
    /\ Faults \subseteq AllFaults
    /\ None \notin Clients \cup Daemons \cup AllRequests \cup Replies

VARIABLES
    daemon,     \* program counter of each daemon's listener thread
    running,    \* is_running of each daemon's IpcServer
    owner,      \* the daemon that holds the pipe instance
    pipe,       \* state of the instance
    peer,       \* the client at the other end
    authority,  \* is_elevated, as the owner read it for this connection
    inbox,      \* the request line, once the client has written it
    outbox,     \* per client: the reply line waiting to be read
    client,     \* program counter of each client thread
    ask,        \* the request each client is sending
    answer,     \* the response send_request returned
    elevated,   \* the interface process runs as administrator
    times,      \* history: how often each client's request was executed
    lost        \* history: a daemon died while it served this request

serverVars == <<daemon, running, owner, authority>>
pipeVars == <<pipe, peer, inbox, outbox>>
clientVars == <<client, ask, answer, elevated>>
history == <<times, lost>>
vars == <<serverVars, pipeVars, clientVars, history>>

TypeOK ==
    /\ daemon \in [Daemons -> {"off", "boot", "create", "listen", "accept", "read",
                               "handle", "flush", "close", "aborted", "ended"}]
    /\ running \in [Daemons -> BOOLEAN]
    /\ owner \in Daemons \cup {None}
    /\ pipe \in {"none", "listening", "connected", "broken", "disconnected"}
    /\ peer \in Clients \cup {None}
    /\ authority \in BOOLEAN
    /\ inbox \in AllRequests \cup {None}
    /\ outbox \in [Clients -> Replies \cup {None}]
    /\ client \in [Clients -> {"idle", "probe", "handoff", "open", "spawn", "reopen",
                               "write", "read", "local", "done", "gone"}]
    /\ ask \in [Clients -> AllRequests \cup {None}]
    /\ answer \in [Clients -> Replies \cup {None}]
    /\ elevated \in BOOLEAN
    /\ times \in [Clients -> 0 .. 2]
    /\ lost \in [Clients -> BOOLEAN]

Init ==
    /\ daemon = [d \in Daemons |-> "off"]
    /\ running = [d \in Daemons |-> FALSE]
    /\ owner = None /\ pipe = "none" /\ peer = None /\ authority = FALSE
    /\ inbox = None
    /\ outbox = [c \in Clients |-> None]
    /\ client = [c \in Clients |-> "idle"]
    /\ ask = [c \in Clients |-> None]
    /\ answer = [c \in Clients |-> None]
    /\ elevated \in BOOLEAN
    /\ times = [c \in Clients |-> 0]
    /\ lost = [c \in Clients |-> FALSE]

----------------------------------------------------------------------------
(* handle_request_authorized: the gate in front of every handler. *)

Privileged(r) == r \in {"ApplyOptimizations", "ShutdownDaemon"}

Authorized(r, level) == Privileged(r) => level

\* The replies a handler may produce for an authorized request.
Outcomes == {"ok"} \cup (IF "handler" \in Faults THEN {"error"} ELSE {})

\* What the pipe does when its server end goes away: a client keeps what was
\* already written to it and then reads the end of the file.
ServerEndCloses(d) ==
    IF owner = d
    THEN owner' = None /\ pipe' = "none" /\ peer' = None /\ inbox' = None /\ authority' = FALSE
    ELSE UNCHANGED <<owner, pipe, peer, inbox, authority>>

DaemonAt(d, from, to) ==
    /\ daemon[d] = from
    /\ daemon' = [daemon EXCEPT ![d] = to]

ClientAt(c, from, to) ==
    /\ client[c] = from
    /\ client' = [client EXCEPT ![c] = to]

----------------------------------------------------------------------------
(* The daemon.  main recovers a snapshot (modelled in SnapshotStore), sets *)
(* is_running through start, and polls it every half second.               *)

Boot(d) ==
    /\ DaemonAt(d, "boot", "create")
    /\ running' = [running EXCEPT ![d] = TRUE]
    /\ UNCHANGED <<owner, authority, pipeVars, clientVars, history>>

\* (Mutant: without FILE_FLAG_FIRST_PIPE_INSTANCE.)
CreateAnyInstance(d) ==
    /\ DaemonAt(d, "create", "listen")
    /\ owner' = d /\ pipe' = "listening"
    /\ UNCHANGED <<running, authority, peer, inbox, outbox, clientVars, history>>

\* FILE_FLAG_FIRST_PIPE_INSTANCE: the call fails while any daemon holds the name.
\* The thread then returns and leaves is_running set.
CreatePipe(d) ==
    /\ \/ /\ owner = None
          /\ DaemonAt(d, "create", "listen")
          /\ owner' = d /\ pipe' = "listening"
       \/ /\ owner # None \/ "create" \in Faults
          /\ DaemonAt(d, "create", "aborted")
          /\ UNCHANGED <<owner, pipe>>
    /\ UNCHANGED <<running, authority, peer, inbox, outbox, clientVars, history>>

\* The loop's condition and ConnectNamedPipe.  A client that came before the
\* call is accepted (ERROR_PIPE_CONNECTED); one that came and went makes the call
\* fail, and the loop sleeps and tries again without disconnecting.
Listen(d) ==
    /\ \/ /\ running[d] /\ pipe # "broken"
          /\ DaemonAt(d, "listen", "accept")
          /\ pipe' = IF pipe = "connected" THEN pipe ELSE "listening"
       \/ /\ ~running[d]
          /\ DaemonAt(d, "listen", "close")
          /\ UNCHANGED pipe
    /\ UNCHANGED <<running, owner, authority, peer, inbox, outbox, clientVars, history>>

\* is_client_elevated: the client process's token, FALSE when none can be read.
TokenReadings == {elevated} \cup (IF "token" \in Faults THEN {FALSE} ELSE {})

\* A client is connected.  is_running is read again, and is still set: only the
\* listener itself clears it before main has returned.
Accept(d) ==
    /\ pipe \in {"connected", "broken"}
    /\ running[d]
    /\ authority' \in TokenReadings
    /\ \/ DaemonAt(d, "accept", "read")
       \/ "duplicate" \in Faults /\ DaemonAt(d, "accept", "flush")
    /\ UNCHANGED <<running, owner, pipeVars, clientVars, history>>

\* try_clone().unwrap() duplicates the handle once more.  Where that fails the
\* thread panics, which in the release profile (panic = "abort") ends the process.
ClonePanics(d) ==
    /\ "duplicate" \in Faults
    /\ pipe \in {"connected", "broken"}
    /\ running[d]
    /\ DaemonAt(d, "accept", "off")
    /\ running' = [running EXCEPT ![d] = FALSE]
    /\ ServerEndCloses(d)
    /\ UNCHANGED <<outbox, clientVars, history>>

\* read_line: blocks until the client has written, or is gone.
ReadRequest(d) ==
    /\ \/ inbox # None /\ DaemonAt(d, "read", "handle")
       \/ inbox = None /\ pipe = "broken" /\ DaemonAt(d, "read", "flush")
    /\ UNCHANGED <<running, owner, authority, pipeVars, clientVars, history>>

\* The handler runs, its reply is written, and an authorized shutdown ends the loop.
HandleRequest(d) ==
    /\ DaemonAt(d, "handle", "flush")
    /\ \E reply \in IF Authorized(inbox, authority) THEN Outcomes ELSE {"UNAUTHORIZED"} :
          outbox' = IF pipe = "connected" THEN [outbox EXCEPT ![peer] = reply] ELSE outbox
    /\ times' = IF Authorized(inbox, authority) /\ peer # None
                THEN [times EXCEPT ![peer] = @ + 1] ELSE times
    /\ running' = IF inbox = "ShutdownDaemon" /\ authority
                  THEN [running EXCEPT ![d] = FALSE] ELSE running
    /\ UNCHANGED <<owner, authority, pipe, peer, inbox, clientVars, lost>>

\* (Mutant: DisconnectNamedPipe without FlushFileBuffers discards an unread reply.)
DisconnectAtOnce(d) ==
    /\ DaemonAt(d, "flush", "listen")
    /\ outbox' = IF peer # None THEN [outbox EXCEPT ![peer] = None] ELSE outbox
    /\ pipe' = "disconnected" /\ peer' = None /\ inbox' = None /\ authority' = FALSE
    /\ UNCHANGED <<running, owner, clientVars, history>>

\* FlushFileBuffers waits until the client has read; DisconnectNamedPipe then
\* discards the connection.
FlushAndDisconnect(d) ==
    /\ DaemonAt(d, "flush", "listen")
    /\ peer # None => outbox[peer] = None
    /\ pipe' = "disconnected" /\ peer' = None /\ inbox' = None /\ authority' = FALSE
    /\ UNCHANGED <<running, owner, outbox, clientVars, history>>

ClosePipe(d) ==
    /\ DaemonAt(d, "close", "ended")
    /\ ServerEndCloses(d)
    /\ UNCHANGED <<running, outbox, clientVars, history>>

\* main sees is_running cleared and returns, and the process ends with its threads.
\* Dropping the server calls stop, which opens the pipe once and closes it, whoever
\* owns the name by then.
MainReturns(d) ==
    /\ daemon[d] \notin {"off", "boot"}
    /\ ~running[d]
    /\ daemon' = [daemon EXCEPT ![d] = "off"]
    /\ IF owner # d /\ pipe = "listening"
       THEN pipe' = "broken" /\ UNCHANGED <<owner, peer, inbox, authority>>
       ELSE ServerEndCloses(d)
    /\ UNCHANGED <<running, outbox, clientVars, history>>

Crash(d) ==
    /\ "crash" \in Faults
    /\ daemon[d] # "off"
    /\ daemon' = [daemon EXCEPT ![d] = "off"]
    /\ running' = [running EXCEPT ![d] = FALSE]
    /\ lost' = IF owner = d /\ peer # None THEN [lost EXCEPT ![peer] = TRUE] ELSE lost
    /\ ServerEndCloses(d)
    /\ UNCHANGED <<outbox, clientVars, times>>

----------------------------------------------------------------------------
(* The client. *)

\* A callback of the interface: the launch first looks for a daemon.
Click(c, r) ==
    /\ r \in Asks[c]
    /\ ClientAt(c, "idle", IF r = "LaunchOptimizedGame" THEN "probe" ELSE "open")
    /\ ask' = [ask EXCEPT ![c] = r]
    /\ UNCHANGED <<serverVars, pipeVars, answer, elevated, history>>

\* is_daemon_running: WaitNamedPipe for 50 ms.  A pipe that stays busy that long
\* ends the wait with a timeout, which reads as no daemon.
ProbeDaemon(c) ==
    /\ \/ pipe # "none" /\ ClientAt(c, "probe", "open")
       \/ pipe # "listening" /\ ClientAt(c, "probe", "handoff")
    /\ UNCHANGED <<serverVars, pipeVars, ask, answer, elevated, history>>

\* spawn_daemon starts the first executable it finds and sleeps 200 ms, which
\* promises nothing about how far the daemon has come.
SpawnDaemon(c, d) ==
    /\ daemon[d] = "off"
    /\ daemon' = [daemon EXCEPT ![d] = "boot"]
    /\ \/ ClientAt(c, "handoff", "open")
       \/ ClientAt(c, "spawn", "reopen")
    /\ UNCHANGED <<running, owner, authority, pipeVars, ask, answer, elevated, history>>

SpawnFails(c) ==
    /\ "spawn" \in Faults \/ \A d \in Daemons : daemon[d] # "off"
    /\ \/ ClientAt(c, "handoff", "open")
       \/ ClientAt(c, "spawn", "local")
    /\ UNCHANGED <<serverVars, pipeVars, ask, answer, elevated, history>>

\* send_request opens the pipe; while another client holds it the open fails, and
\* so does the second one after a daemon was spawned.
Open(c) ==
    /\ \/ /\ pipe = "listening"
          /\ \/ ClientAt(c, "open", "write")
             \/ ClientAt(c, "reopen", "write")
          /\ pipe' = "connected" /\ peer' = c
       \/ /\ pipe # "listening"
          /\ \/ ClientAt(c, "open", "spawn")
             \/ ClientAt(c, "reopen", "local")
          /\ UNCHANGED <<pipe, peer>>
    /\ UNCHANGED <<serverVars, inbox, outbox, ask, answer, elevated, history>>

Write(c) ==
    /\ \/ /\ peer = c
          /\ ClientAt(c, "write", "read")
          /\ inbox' = ask[c]
       \/ /\ peer # c
          /\ ClientAt(c, "write", "local")
          /\ UNCHANGED inbox
    /\ UNCHANGED <<serverVars, pipe, peer, outbox, ask, answer, elevated, history>>

ClientEndCloses(S) ==
    IF peer \in S THEN pipe' = "broken" /\ peer' = None ELSE UNCHANGED <<pipe, peer>>

\* (Mutant: the end of the file is waited out.)
ReadUntilReply(c) ==
    /\ outbox[c] # None
    /\ ClientAt(c, "read", "done")
    /\ answer' = [answer EXCEPT ![c] = outbox[c]]
    /\ outbox' = [outbox EXCEPT ![c] = None]
    /\ ClientEndCloses({c})
    /\ UNCHANGED <<serverVars, inbox, ask, elevated, history>>

\* (Mutant: an empty line is taken for a success.)
ReadEmptyAsSuccess(c) ==
    /\ outbox[c] # None \/ peer # c
    /\ ClientAt(c, "read", "done")
    /\ answer' = [answer EXCEPT ![c] = IF outbox[c] # None THEN outbox[c] ELSE "ok"]
    /\ outbox' = [outbox EXCEPT ![c] = None]
    /\ ClientEndCloses({c})
    /\ UNCHANGED <<serverVars, inbox, ask, elevated, history>>

\* read_line returns the reply, or nothing when the pipe closed, which does not
\* decode.  Either way send_request drops its end of the pipe.
Read(c) ==
    /\ \/ /\ outbox[c] # None
          /\ ClientAt(c, "read", "done")
          /\ answer' = [answer EXCEPT ![c] = outbox[c]]
          /\ outbox' = [outbox EXCEPT ![c] = None]
       \/ /\ outbox[c] = None /\ peer # c
          /\ ClientAt(c, "read", "local")
          /\ UNCHANGED <<answer, outbox>>
    /\ ClientEndCloses({c})
    /\ UNCHANGED <<serverVars, inbox, ask, elevated, history>>

\* Any error ends here: the request is handled in the interface's own process, as
\* if its caller were an administrator.
RunInProcess(c) ==
    /\ ClientAt(c, "local", "done")
    /\ answer' \in {[answer EXCEPT ![c] = reply] : reply \in Outcomes}
    /\ times' = [times EXCEPT ![c] = @ + 1]
    /\ UNCHANGED <<serverVars, pipeVars, ask, elevated, lost>>

\* The callback of each thread in S is over: nothing of the request is kept.
Forget(S) ==
    /\ ask' = [c \in Clients |-> IF c \in S THEN None ELSE ask[c]]
    /\ answer' = [c \in Clients |-> IF c \in S THEN None ELSE answer[c]]
    /\ times' = [c \in Clients |-> IF c \in S THEN 0 ELSE times[c]]
    /\ lost' = [c \in Clients |-> IF c \in S THEN FALSE ELSE lost[c]]

\* The callback shows the answer.
Return(c) ==
    /\ ClientAt(c, "done", "idle")
    /\ Forget({c})
    /\ UNCHANGED <<serverVars, pipeVars, elevated>>

\* An acknowledged launch ends the interface with all of its threads.
Unload(c) ==
    /\ client[c] = "done"
    /\ ask[c] = "LaunchOptimizedGame" /\ answer[c] = "ok"
    /\ client' = [x \in Clients |-> "gone"]
    /\ outbox' = [x \in Clients |-> None]
    /\ ClientEndCloses(Clients)
    /\ Forget(Clients)
    /\ UNCHANGED <<serverVars, inbox, elevated>>

\* The user starts the interface again.
StartAgain ==
    /\ \A c \in Clients : client[c] = "gone"
    /\ client' = [c \in Clients |-> "idle"]
    /\ UNCHANGED <<serverVars, pipeVars, ask, answer, elevated, history>>

----------------------------------------------------------------------------
DaemonStep(d) ==
    \/ Boot(d) \/ CreatePipe(d) \/ Listen(d) \/ Accept(d) \/ ClonePanics(d)
    \/ ReadRequest(d) \/ HandleRequest(d) \/ FlushAndDisconnect(d) \/ ClosePipe(d)

ClientStep(c) ==
    \/ ProbeDaemon(c) \/ SpawnFails(c) \/ Open(c) \/ Write(c) \/ Read(c)
    \/ RunInProcess(c)
    \/ \E d \in Daemons : SpawnDaemon(c, d)

Next ==
    \/ \E d \in Daemons : DaemonStep(d) \/ MainReturns(d) \/ Crash(d)
    \/ \E c \in Clients : ClientStep(c) \/ Return(c) \/ Unload(c)
    \/ \E c \in Clients : \E r \in AllRequests : Click(c, r)
    \/ StartAgain

(***************************************************************************)
(* Threads that can run do run: the daemon's listener and main, and a      *)
(* client inside send_request.  Nobody has to click, and the interface     *)
(* need not be started again.                                              *)
(***************************************************************************)
Fairness ==
    /\ \A d \in Daemons : WF_vars(DaemonStep(d)) /\ WF_vars(MainReturns(d))
    /\ \A c \in Clients : WF_vars(ClientStep(c)) /\ WF_vars(Return(c) \/ Unload(c))

Spec == Init /\ [][Next]_vars /\ Fairness

----------------------------------------------------------------------------
(* Properties. *)

\* The daemons serve one request at a time between them, although busy clients spawn
\* further daemons: only the owner of the pipe gets past CreateNamedPipeW.
OneRequestInService ==
    \A d, e \in Daemons :
        {daemon[d], daemon[e]} \subseteq {"accept", "read", "handle", "flush"} => d = e

\* A request is executed at most once, by a daemon or in the interface, unless a daemon
\* died while it served the request: a reply that was written is never discarded.
AtMostOnce == \A c \in Clients : times[c] <= 1 \/ lost[c]

\* What send_request returns is true of this request: a success or failure means the
\* handler ran, a refusal means that it did not.
ReplyTellsTruth ==
    \A c \in Clients :
        client[c] = "done" =>
            /\ answer[c] \in {"ok", "error"} => times[c] >= 1
            /\ answer[c] = "UNAUTHORIZED" => times[c] = 0 /\ Privileged(ask[c])

\* Every click is answered: neither a busy pipe, a daemon that could not create the
\* pipe, died or panicked, nor a listener that hears nobody keeps a client waiting.
RequestAnswered ==
    \A c \in Clients : client[c] \notin {"idle", "gone"} ~> client[c] \in {"done", "gone"}

=============================================================================
