----------------------------- MODULE PipeProofs -----------------------------
(***************************************************************************)
(* What is proved of PipeTransport for every set of clients and daemons,   *)
(* whatever goes wrong: one request in service, at most one execution of a *)
(* request, and the truth of every answer.                                 *)
(***************************************************************************)
EXTENDS PipeTransport, TLAPS

-----------------------------------------------------------------------------
(* The inductive invariant                                                 *)

\* Where a daemon's listener holds the pipe instance.
Holding == {"listen", "accept", "read", "handle", "flush", "close"}

\* A listener is past CreateNamedPipeW exactly if it owns the instance.
OwnerInv ==
    /\ \A d \in Daemons : daemon[d] \in Holding <=> owner = d
    /\ owner = None => pipe = "none"

\* The instance has a client exactly while it is connected, waits for one only
\* before the listener has accepted it, and keeps a request line no longer than
\* its connection.
InstanceInv ==
    /\ pipe = "connected" <=> peer # None
    /\ pipe = "listening" =>
          \A d \in Daemons : owner = d => daemon[d] \in {"listen", "accept", "close"}
    /\ inbox # None => pipe \in {"connected", "broken"}
    /\ \A d \in Daemons : daemon[d] = "handle" => inbox # None

\* The client at the other end is inside send_request, what it has written is its
\* request, and until the handler has run nothing has been executed or replied.
PeerInv ==
    \A c \in Clients : peer = c =>
        /\ client[c] \in {"write", "read"}
        /\ client[c] = "write" => inbox = None
        /\ client[c] = "read" => inbox = ask[c]
        /\ \A d \in Daemons : owner = d /\ daemon[d] # "flush" =>
              times[c] = 0 /\ outbox[c] = None

\* The places of a client that is not connected, or not any more.
Apart == {"idle", "probe", "handoff", "open", "spawn", "reopen", "gone", "local", "done"}

\* How often a client's request was executed, by where the client is: a client that
\* reads on has a reply to read, or nothing happened yet, or its daemon died.
CountInv ==
    \A c \in Clients :
        /\ client[c] \in Apart \cup {"write"} => outbox[c] = None
        /\ client[c] \in (Apart \ {"local", "done"}) => times[c] = 0 /\ ~lost[c]
        /\ client[c] = "write" => times[c] = 0
        /\ client[c] = "read" => times[c] <= 1 /\ (times[c] = 0 \/ lost[c] \/ outbox[c] # None)
        /\ client[c] = "local" => times[c] <= 1 /\ (times[c] = 0 \/ lost[c])
        /\ client[c] = "done" => times[c] <= 1 \/ lost[c]

\* A reply that waits to be read is true, and so is the one that was returned.
TellsTruth(c, reply) ==
    /\ reply \in {"ok", "error"} => times[c] >= 1
    /\ reply = "UNAUTHORIZED" => times[c] = 0 /\ Privileged(ask[c])

ReplyInv ==
    \A c \in Clients :
        /\ TellsTruth(c, outbox[c])
        /\ client[c] = "done" => TellsTruth(c, answer[c])

PipeInv == TypeOK /\ OwnerInv /\ InstanceInv /\ PeerInv /\ CountInv /\ ReplyInv

-----------------------------------------------------------------------------
(* The steps keep it                                                       *)

\* What HandleRequest finds and does: its client, if it still has one, has waited
\* unserved for the reply to the request in the inbox, and gets it.
LEMMA Handled ==
  ASSUME TypeOK, OwnerInv, InstanceInv, PeerInv,
         NEW d \in Daemons, HandleRequest(d)
  PROVE  /\ owner = d /\ inbox # None
         /\ peer = None => times' = times /\ outbox' = outbox
         /\ peer # None =>
              /\ peer \in Clients /\ client[peer] = "read" /\ inbox = ask[peer]
              /\ times[peer] = 0 /\ outbox[peer] = None
              /\ \A c \in Clients \ {peer} : times'[c] = times[c] /\ outbox'[c] = outbox[c]
              /\ \/ times'[peer] = 1 /\ outbox'[peer] \in {"ok", "error"}
                 \/ /\ times'[peer] = 0 /\ outbox'[peer] = "UNAUTHORIZED"
                    /\ Privileged(ask[peer])
  <1> USE PipeAssumption DEF TypeOK
  <1>1. owner = d /\ inbox # None /\ daemon[d] = "handle"
    BY DEF OwnerInv, InstanceInv, Holding, HandleRequest, DaemonAt
  <1>2. CASE peer = None
    BY <1>1, <1>2 DEF HandleRequest, InstanceInv
  <1>3. CASE peer # None
    <2>1. /\ peer \in Clients /\ client[peer] = "read" /\ inbox = ask[peer]
          /\ times[peer] = 0 /\ outbox[peer] = None /\ pipe = "connected"
      BY <1>1, <1>3 DEF PeerInv, InstanceInv
    <2>2. PICK reply \in IF Authorized(inbox, authority) THEN Outcomes ELSE {"UNAUTHORIZED"} :
             outbox' = [outbox EXCEPT ![peer] = reply]
      BY <2>1 DEF HandleRequest
    <2>3. times' = IF Authorized(inbox, authority)
                   THEN [times EXCEPT ![peer] = 1] ELSE times
      BY <1>3, <2>1 DEF HandleRequest
    <2>4. Outcomes \subseteq {"ok", "error"}
      BY DEF Outcomes
    <2> QED BY <1>1, <1>3, <2>1, <2>2, <2>3, <2>4 DEF Authorized
  <1> QED BY <1>2, <1>3

\* Every step keeps the types: no count exceeds two.
LEMMA TypeStep ==
  ASSUME TypeOK, OwnerInv, InstanceInv, PeerInv, CountInv, [Next]_vars
  PROVE  TypeOK'
  <1> USE PipeAssumption DEF TypeOK, serverVars, pipeVars, clientVars, history
  <1>1. ASSUME NEW d \in Daemons, Boot(d) PROVE TypeOK'
    BY <1>1 DEF Boot, DaemonAt
  <1>2. ASSUME NEW d \in Daemons, CreatePipe(d) PROVE TypeOK'
    BY <1>2 DEF CreatePipe, DaemonAt
  <1>3. ASSUME NEW d \in Daemons, Listen(d) PROVE TypeOK'
    BY <1>3 DEF Listen, DaemonAt
  <1>4. ASSUME NEW d \in Daemons, Accept(d) PROVE TypeOK'
    BY <1>4 DEF Accept, DaemonAt, TokenReadings
  <1>5. ASSUME NEW d \in Daemons, ReadRequest(d) PROVE TypeOK'
    BY <1>5 DEF ReadRequest, DaemonAt
  <1>6. ASSUME NEW d \in Daemons, HandleRequest(d) PROVE TypeOK'
    <2>0. peer # None => times[peer] = 0
      BY <1>6, Handled
    <2>1. times' \in [Clients -> 0 .. 2]
      BY <1>6, <2>0 DEF HandleRequest
    <2>2. outbox' \in [Clients -> Replies \cup {None}]
      BY <1>6 DEF HandleRequest, Outcomes, Replies
    <2>3. running' \in [Daemons -> BOOLEAN]
      BY <1>6 DEF HandleRequest
    <2> QED BY <1>6, <2>1, <2>2, <2>3 DEF HandleRequest, DaemonAt
  <1>7. ASSUME NEW d \in Daemons, FlushAndDisconnect(d) PROVE TypeOK'
    BY <1>7 DEF FlushAndDisconnect, DaemonAt
  <1>8. ASSUME NEW d \in Daemons, ClosePipe(d) PROVE TypeOK'
    BY <1>8 DEF ClosePipe, DaemonAt, ServerEndCloses
  <1>9. ASSUME NEW d \in Daemons, MainReturns(d) PROVE TypeOK'
    BY <1>9 DEF MainReturns, ServerEndCloses
  <1>10. ASSUME NEW d \in Daemons, Crash(d) PROVE TypeOK'
    BY <1>10 DEF Crash, ServerEndCloses
  <1>11. ASSUME NEW c \in Clients, ProbeDaemon(c) PROVE TypeOK'
    BY <1>11 DEF ProbeDaemon, ClientAt
  <1>12. ASSUME NEW c \in Clients, SpawnFails(c) PROVE TypeOK'
    BY <1>12 DEF SpawnFails, ClientAt
  <1>13. ASSUME NEW c \in Clients, Open(c) PROVE TypeOK'
    BY <1>13 DEF Open, ClientAt
  <1>14. ASSUME NEW c \in Clients, Write(c) PROVE TypeOK'
    BY <1>14 DEF Write, ClientAt
  <1>15. ASSUME NEW c \in Clients, Read(c) PROVE TypeOK'
    BY <1>15 DEF Read, ClientAt, ClientEndCloses
  <1>16. ASSUME NEW c \in Clients, RunInProcess(c) PROVE TypeOK'
    <2>1. PICK reply \in Outcomes : answer' = [answer EXCEPT ![c] = reply]
      BY <1>16 DEF RunInProcess
    <2>2. reply \in Replies
      BY <2>1 DEF Outcomes, Replies
    <2>3. times[c] <= 1
      BY <1>16 DEF RunInProcess, ClientAt, CountInv
    <2>4. times' \in [Clients -> 0 .. 2]
      BY <1>16, <2>3 DEF RunInProcess
    <2> QED BY <1>16, <2>1, <2>2, <2>4 DEF RunInProcess, ClientAt
  <1>17. ASSUME NEW c \in Clients, Return(c) PROVE TypeOK'
    <2>1. /\ ask' \in [Clients -> AllRequests \cup {None}]
          /\ answer' \in [Clients -> Replies \cup {None}]
      BY <1>17 DEF Return, Forget
    <2>2. times' \in [Clients -> 0 .. 2]
      BY <1>17 DEF Return, Forget
    <2>3. lost' \in [Clients -> BOOLEAN]
      <3>1. \A x \in Clients : (IF x \in {c} THEN FALSE ELSE lost[x]) \in BOOLEAN
        OBVIOUS
      <3> QED BY <1>17, <3>1, Zenon DEF Return, Forget
    <2> QED BY <1>17, <2>1, <2>2, <2>3 DEF Return, ClientAt
  <1>18. ASSUME NEW c \in Clients, Unload(c) PROVE TypeOK'
    BY <1>18 DEF Unload, ClientEndCloses, Forget
  <1>19. ASSUME NEW c \in Clients, NEW d \in Daemons, SpawnDaemon(c, d) PROVE TypeOK'
    BY <1>19 DEF SpawnDaemon, ClientAt
  <1>20. ASSUME NEW c \in Clients, NEW r \in AllRequests, Click(c, r) PROVE TypeOK'
    BY <1>20 DEF Click, ClientAt
  <1>21. ASSUME StartAgain PROVE TypeOK'
    BY <1>21 DEF StartAgain
  <1>22. ASSUME NEW d \in Daemons, ClonePanics(d) PROVE TypeOK'
    BY <1>22 DEF ClonePanics, DaemonAt, ServerEndCloses
  <1>23. CASE UNCHANGED vars
    BY <1>23 DEF vars
  <1> QED
    BY <1>1, <1>2, <1>3, <1>4, <1>5, <1>6, <1>7, <1>8, <1>9, <1>10, <1>11,
       <1>12, <1>13, <1>14, <1>15, <1>16, <1>17, <1>18, <1>19, <1>20, <1>21, <1>22,
       <1>23
    DEF Next, DaemonStep, ClientStep

\* Ownership of the instance follows the listeners.
LEMMA OwnerStep ==
  ASSUME TypeOK, OwnerInv, InstanceInv, [Next]_vars
  PROVE  OwnerInv'
  <1> USE PipeAssumption DEF TypeOK, OwnerInv, InstanceInv, Holding, serverVars, pipeVars,
        clientVars, history
  <1>1. ASSUME NEW d \in Daemons, Boot(d) PROVE OwnerInv'
    BY <1>1 DEF Boot, DaemonAt
  <1>2. ASSUME NEW d \in Daemons, CreatePipe(d) PROVE OwnerInv'
    BY <1>2 DEF CreatePipe, DaemonAt
  <1>3. ASSUME NEW d \in Daemons, Listen(d) PROVE OwnerInv'
    BY <1>3 DEF Listen, DaemonAt
  <1>4. ASSUME NEW d \in Daemons, Accept(d) PROVE OwnerInv'
    BY <1>4 DEF Accept, DaemonAt, TokenReadings
  <1>5. ASSUME NEW d \in Daemons, ReadRequest(d) PROVE OwnerInv'
    BY <1>5 DEF ReadRequest, DaemonAt
  <1>6. ASSUME NEW d \in Daemons, HandleRequest(d) PROVE OwnerInv'
    BY <1>6 DEF HandleRequest, DaemonAt, Outcomes, Authorized
  <1>7. ASSUME NEW d \in Daemons, FlushAndDisconnect(d) PROVE OwnerInv'
    BY <1>7 DEF FlushAndDisconnect, DaemonAt
  <1>8. ASSUME NEW d \in Daemons, ClosePipe(d) PROVE OwnerInv'
    BY <1>8 DEF ClosePipe, DaemonAt, ServerEndCloses
  <1>9. ASSUME NEW d \in Daemons, MainReturns(d) PROVE OwnerInv'
    BY <1>9 DEF MainReturns, ServerEndCloses
  <1>10. ASSUME NEW d \in Daemons, Crash(d) PROVE OwnerInv'
    BY <1>10 DEF Crash, ServerEndCloses
  <1>11. ASSUME NEW c \in Clients, ProbeDaemon(c) PROVE OwnerInv'
    BY <1>11 DEF ProbeDaemon, ClientAt
  <1>12. ASSUME NEW c \in Clients, SpawnFails(c) PROVE OwnerInv'
    BY <1>12 DEF SpawnFails, ClientAt
  <1>13. ASSUME NEW c \in Clients, Open(c) PROVE OwnerInv'
    BY <1>13 DEF Open, ClientAt
  <1>14. ASSUME NEW c \in Clients, Write(c) PROVE OwnerInv'
    BY <1>14 DEF Write, ClientAt
  <1>15. ASSUME NEW c \in Clients, Read(c) PROVE OwnerInv'
    BY <1>15 DEF Read, ClientAt, ClientEndCloses
  <1>16. ASSUME NEW c \in Clients, RunInProcess(c) PROVE OwnerInv'
    BY <1>16 DEF RunInProcess, ClientAt, Outcomes
  <1>17. ASSUME NEW c \in Clients, Return(c) PROVE OwnerInv'
    BY <1>17 DEF Return, ClientAt, Forget
  <1>18. ASSUME NEW c \in Clients, Unload(c) PROVE OwnerInv'
    BY <1>18 DEF Unload, ClientEndCloses, Forget
  <1>19. ASSUME NEW c \in Clients, NEW d \in Daemons, SpawnDaemon(c, d) PROVE OwnerInv'
    BY <1>19 DEF SpawnDaemon, ClientAt
  <1>20. ASSUME NEW c \in Clients, NEW r \in AllRequests, Click(c, r) PROVE OwnerInv'
    BY <1>20 DEF Click, ClientAt
  <1>21. ASSUME StartAgain PROVE OwnerInv'
    BY <1>21 DEF StartAgain
  <1>22. ASSUME NEW d \in Daemons, ClonePanics(d) PROVE OwnerInv'
    BY <1>22 DEF ClonePanics, DaemonAt, ServerEndCloses
  <1>23. CASE UNCHANGED vars
    BY <1>23 DEF vars
  <1> QED
    BY <1>1, <1>2, <1>3, <1>4, <1>5, <1>6, <1>7, <1>8, <1>9, <1>10, <1>11,
       <1>12, <1>13, <1>14, <1>15, <1>16, <1>17, <1>18, <1>19, <1>20, <1>21, <1>22,
       <1>23
    DEF Next, DaemonStep, ClientStep

\* The instance's state, its client and its request line agree.
LEMMA InstanceStep ==
  ASSUME TypeOK, OwnerInv, InstanceInv, PeerInv, [Next]_vars
  PROVE  InstanceInv'
  <1> USE PipeAssumption DEF TypeOK, OwnerInv, InstanceInv, PeerInv, Holding, serverVars,
        pipeVars, clientVars, history
  <1>1. ASSUME NEW d \in Daemons, Boot(d) PROVE InstanceInv'
    BY <1>1 DEF Boot, DaemonAt
  <1>2. ASSUME NEW d \in Daemons, CreatePipe(d) PROVE InstanceInv'
    BY <1>2 DEF CreatePipe, DaemonAt
  <1>3. ASSUME NEW d \in Daemons, Listen(d) PROVE InstanceInv'
    BY <1>3 DEF Listen, DaemonAt
  <1>4. ASSUME NEW d \in Daemons, Accept(d) PROVE InstanceInv'
    BY <1>4 DEF Accept, DaemonAt, TokenReadings
  <1>5. ASSUME NEW d \in Daemons, ReadRequest(d) PROVE InstanceInv'
    BY <1>5 DEF ReadRequest, DaemonAt
  <1>6. ASSUME NEW d \in Daemons, HandleRequest(d) PROVE InstanceInv'
    BY <1>6 DEF HandleRequest, DaemonAt, Outcomes, Authorized
  <1>7. ASSUME NEW d \in Daemons, FlushAndDisconnect(d) PROVE InstanceInv'
    BY <1>7 DEF FlushAndDisconnect, DaemonAt
  <1>8. ASSUME NEW d \in Daemons, ClosePipe(d) PROVE InstanceInv'
    BY <1>8 DEF ClosePipe, DaemonAt, ServerEndCloses
  <1>9. ASSUME NEW d \in Daemons, MainReturns(d) PROVE InstanceInv'
    BY <1>9 DEF MainReturns, ServerEndCloses
  <1>10. ASSUME NEW d \in Daemons, Crash(d) PROVE InstanceInv'
    BY <1>10 DEF Crash, ServerEndCloses
  <1>11. ASSUME NEW c \in Clients, ProbeDaemon(c) PROVE InstanceInv'
    BY <1>11 DEF ProbeDaemon, ClientAt
  <1>12. ASSUME NEW c \in Clients, SpawnFails(c) PROVE InstanceInv'
    BY <1>12 DEF SpawnFails, ClientAt
  <1>13. ASSUME NEW c \in Clients, Open(c) PROVE InstanceInv'
    BY <1>13 DEF Open, ClientAt
  <1>14. ASSUME NEW c \in Clients, Write(c) PROVE InstanceInv'
    BY <1>14 DEF Write, ClientAt
  <1>15. ASSUME NEW c \in Clients, Read(c) PROVE InstanceInv'
    BY <1>15 DEF Read, ClientAt, ClientEndCloses
  <1>16. ASSUME NEW c \in Clients, RunInProcess(c) PROVE InstanceInv'
    BY <1>16 DEF RunInProcess, ClientAt, Outcomes
  <1>17. ASSUME NEW c \in Clients, Return(c) PROVE InstanceInv'
    BY <1>17 DEF Return, ClientAt, Forget
  <1>18. ASSUME NEW c \in Clients, Unload(c) PROVE InstanceInv'
    BY <1>18 DEF Unload, ClientEndCloses, Forget
  <1>19. ASSUME NEW c \in Clients, NEW d \in Daemons, SpawnDaemon(c, d) PROVE InstanceInv'
    BY <1>19 DEF SpawnDaemon, ClientAt
  <1>20. ASSUME NEW c \in Clients, NEW r \in AllRequests, Click(c, r) PROVE InstanceInv'
    BY <1>20 DEF Click, ClientAt
  <1>21. ASSUME StartAgain PROVE InstanceInv'
    BY <1>21 DEF StartAgain
  <1>22. ASSUME NEW d \in Daemons, ClonePanics(d) PROVE InstanceInv'
    BY <1>22 DEF ClonePanics, DaemonAt, ServerEndCloses
  <1>23. CASE UNCHANGED vars
    BY <1>23 DEF vars
  <1> QED
    BY <1>1, <1>2, <1>3, <1>4, <1>5, <1>6, <1>7, <1>8, <1>9, <1>10, <1>11,
       <1>12, <1>13, <1>14, <1>15, <1>16, <1>17, <1>18, <1>19, <1>20, <1>21, <1>22,
       <1>23
    DEF Next, DaemonStep, ClientStep

\* Nothing is executed for a connected client before its handler runs.
LEMMA PeerStep ==
  ASSUME TypeOK, OwnerInv, InstanceInv, PeerInv, CountInv, [Next]_vars
  PROVE  PeerInv'
  <1> USE PipeAssumption DEF TypeOK, OwnerInv, InstanceInv, PeerInv, CountInv, Holding,
        Apart, serverVars, pipeVars, clientVars, history
  <1>1. ASSUME NEW d \in Daemons, Boot(d) PROVE PeerInv'
    BY <1>1 DEF Boot, DaemonAt
  <1>2. ASSUME NEW d \in Daemons, CreatePipe(d) PROVE PeerInv'
    BY <1>2 DEF CreatePipe, DaemonAt
  <1>3. ASSUME NEW d \in Daemons, Listen(d) PROVE PeerInv'
    BY <1>3 DEF Listen, DaemonAt
  <1>4. ASSUME NEW d \in Daemons, Accept(d) PROVE PeerInv'
    BY <1>4 DEF Accept, DaemonAt, TokenReadings
  <1>5. ASSUME NEW d \in Daemons, ReadRequest(d) PROVE PeerInv'
    BY <1>5 DEF ReadRequest, DaemonAt
  <1>6. ASSUME NEW d \in Daemons, HandleRequest(d) PROVE PeerInv'
    BY <1>6 DEF HandleRequest, DaemonAt, Outcomes, Authorized
  <1>7. ASSUME NEW d \in Daemons, FlushAndDisconnect(d) PROVE PeerInv'
    BY <1>7 DEF FlushAndDisconnect, DaemonAt
  <1>8. ASSUME NEW d \in Daemons, ClosePipe(d) PROVE PeerInv'
    BY <1>8 DEF ClosePipe, DaemonAt, ServerEndCloses
  <1>9. ASSUME NEW d \in Daemons, MainReturns(d) PROVE PeerInv'
    BY <1>9 DEF MainReturns, ServerEndCloses
  <1>10. ASSUME NEW d \in Daemons, Crash(d) PROVE PeerInv'
    BY <1>10 DEF Crash, ServerEndCloses
  <1>11. ASSUME NEW c \in Clients, ProbeDaemon(c) PROVE PeerInv'
    BY <1>11 DEF ProbeDaemon, ClientAt
  <1>12. ASSUME NEW c \in Clients, SpawnFails(c) PROVE PeerInv'
    BY <1>12 DEF SpawnFails, ClientAt
  <1>13. ASSUME NEW c \in Clients, Open(c) PROVE PeerInv'
    BY <1>13 DEF Open, ClientAt
  <1>14. ASSUME NEW c \in Clients, Write(c) PROVE PeerInv'
    BY <1>14 DEF Write, ClientAt
  <1>15. ASSUME NEW c \in Clients, Read(c) PROVE PeerInv'
    BY <1>15 DEF Read, ClientAt, ClientEndCloses
  <1>16. ASSUME NEW c \in Clients, RunInProcess(c) PROVE PeerInv'
    BY <1>16 DEF RunInProcess, ClientAt, Outcomes
  <1>17. ASSUME NEW c \in Clients, Return(c) PROVE PeerInv'
    BY <1>17 DEF Return, ClientAt, Forget
  <1>18. ASSUME NEW c \in Clients, Unload(c) PROVE PeerInv'
    BY <1>18 DEF Unload, ClientEndCloses, Forget
  <1>19. ASSUME NEW c \in Clients, NEW d \in Daemons, SpawnDaemon(c, d) PROVE PeerInv'
    BY <1>19 DEF SpawnDaemon, ClientAt
  <1>20. ASSUME NEW c \in Clients, NEW r \in AllRequests, Click(c, r) PROVE PeerInv'
    BY <1>20 DEF Click, ClientAt
  <1>21. ASSUME StartAgain PROVE PeerInv'
    BY <1>21 DEF StartAgain
  <1>22. ASSUME NEW d \in Daemons, ClonePanics(d) PROVE PeerInv'
    BY <1>22 DEF ClonePanics, DaemonAt, ServerEndCloses
  <1>23. CASE UNCHANGED vars
    BY <1>23 DEF vars
  <1> QED
    BY <1>1, <1>2, <1>3, <1>4, <1>5, <1>6, <1>7, <1>8, <1>9, <1>10, <1>11,
       <1>12, <1>13, <1>14, <1>15, <1>16, <1>17, <1>18, <1>19, <1>20, <1>21, <1>22,
       <1>23
    DEF Next, DaemonStep, ClientStep

\* A client that turns to the fallback has not been served, unless its daemon died.
LEMMA CountStep ==
  ASSUME TypeOK, OwnerInv, InstanceInv, PeerInv, CountInv, [Next]_vars
  PROVE  CountInv'
  <1> USE PipeAssumption DEF TypeOK, OwnerInv, InstanceInv, PeerInv, CountInv, Holding,
        Apart, serverVars, pipeVars, clientVars, history
  <1>1. ASSUME NEW d \in Daemons, Boot(d) PROVE CountInv'
    BY <1>1 DEF Boot, DaemonAt
  <1>2. ASSUME NEW d \in Daemons, CreatePipe(d) PROVE CountInv'
    BY <1>2 DEF CreatePipe, DaemonAt
  <1>3. ASSUME NEW d \in Daemons, Listen(d) PROVE CountInv'
    BY <1>3 DEF Listen, DaemonAt
  <1>4. ASSUME NEW d \in Daemons, Accept(d) PROVE CountInv'
    BY <1>4 DEF Accept, DaemonAt, TokenReadings
  <1>5. ASSUME NEW d \in Daemons, ReadRequest(d) PROVE CountInv'
    BY <1>5 DEF ReadRequest, DaemonAt
  <1>6. ASSUME NEW d \in Daemons, HandleRequest(d) PROVE CountInv'
    <2>1. UNCHANGED <<client, lost>>
      BY <1>6 DEF HandleRequest
    <2>2. \A c \in Clients :
             \/ times'[c] = times[c] /\ outbox'[c] = outbox[c]
             \/ client[c] = "read" /\ times'[c] <= 1 /\ outbox'[c] # None
      BY <1>6, Handled DEF Replies
    <2> HIDE DEF TypeOK, OwnerInv, InstanceInv, PeerInv
    <2> QED BY <2>1, <2>2
  <1>7. ASSUME NEW d \in Daemons, FlushAndDisconnect(d) PROVE CountInv'
    BY <1>7 DEF FlushAndDisconnect, DaemonAt
  <1>8. ASSUME NEW d \in Daemons, ClosePipe(d) PROVE CountInv'
    BY <1>8 DEF ClosePipe, DaemonAt, ServerEndCloses
  <1>9. ASSUME NEW d \in Daemons, MainReturns(d) PROVE CountInv'
    BY <1>9 DEF MainReturns, ServerEndCloses
  <1>10. ASSUME NEW d \in Daemons, Crash(d) PROVE CountInv'
    BY <1>10 DEF Crash, ServerEndCloses
  <1>11. ASSUME NEW c \in Clients, ProbeDaemon(c) PROVE CountInv'
    BY <1>11 DEF ProbeDaemon, ClientAt
  <1>12. ASSUME NEW c \in Clients, SpawnFails(c) PROVE CountInv'
    BY <1>12 DEF SpawnFails, ClientAt
  <1>13. ASSUME NEW c \in Clients, Open(c) PROVE CountInv'
    BY <1>13 DEF Open, ClientAt
  <1>14. ASSUME NEW c \in Clients, Write(c) PROVE CountInv'
    BY <1>14 DEF Write, ClientAt
  <1>15. ASSUME NEW c \in Clients, Read(c) PROVE CountInv'
    BY <1>15 DEF Read, ClientAt, ClientEndCloses
  <1>16. ASSUME NEW c \in Clients, RunInProcess(c) PROVE CountInv'
    BY <1>16 DEF RunInProcess, ClientAt, Outcomes
  <1>17. ASSUME NEW c \in Clients, Return(c) PROVE CountInv'
    BY <1>17 DEF Return, ClientAt, Forget
  <1>18. ASSUME NEW c \in Clients, Unload(c) PROVE CountInv'
    BY <1>18 DEF Unload, ClientEndCloses, Forget
  <1>19. ASSUME NEW c \in Clients, NEW d \in Daemons, SpawnDaemon(c, d) PROVE CountInv'
    BY <1>19 DEF SpawnDaemon, ClientAt
  <1>20. ASSUME NEW c \in Clients, NEW r \in AllRequests, Click(c, r) PROVE CountInv'
    BY <1>20 DEF Click, ClientAt
  <1>21. ASSUME StartAgain PROVE CountInv'
    BY <1>21 DEF StartAgain
  <1>22. ASSUME NEW d \in Daemons, ClonePanics(d) PROVE CountInv'
    BY <1>22 DEF ClonePanics, DaemonAt, ServerEndCloses
  <1>23. CASE UNCHANGED vars
    BY <1>23 DEF vars
  <1> QED
    BY <1>1, <1>2, <1>3, <1>4, <1>5, <1>6, <1>7, <1>8, <1>9, <1>10, <1>11,
       <1>12, <1>13, <1>14, <1>15, <1>16, <1>17, <1>18, <1>19, <1>20, <1>21, <1>22,
       <1>23
    DEF Next, DaemonStep, ClientStep

\* No step makes a reply untrue.
LEMMA ReplyStep ==
  ASSUME TypeOK, OwnerInv, InstanceInv, PeerInv, CountInv, ReplyInv, [Next]_vars
  PROVE  ReplyInv'
  <1> USE PipeAssumption DEF TypeOK, OwnerInv, InstanceInv, PeerInv, CountInv, ReplyInv,
        TellsTruth, Holding, Apart, Replies, serverVars, pipeVars, clientVars, history
  <1>1. ASSUME NEW d \in Daemons, Boot(d) PROVE ReplyInv'
    BY <1>1 DEF Boot, DaemonAt
  <1>2. ASSUME NEW d \in Daemons, CreatePipe(d) PROVE ReplyInv'
    BY <1>2 DEF CreatePipe, DaemonAt
  <1>3. ASSUME NEW d \in Daemons, Listen(d) PROVE ReplyInv'
    BY <1>3 DEF Listen, DaemonAt
  <1>4. ASSUME NEW d \in Daemons, Accept(d) PROVE ReplyInv'
    BY <1>4 DEF Accept, DaemonAt, TokenReadings
  <1>5. ASSUME NEW d \in Daemons, ReadRequest(d) PROVE ReplyInv'
    BY <1>5 DEF ReadRequest, DaemonAt
  <1>6. ASSUME NEW d \in Daemons, HandleRequest(d) PROVE ReplyInv'
    <2>1. UNCHANGED <<client, ask, answer, lost>>
      BY <1>6 DEF HandleRequest
    <2> HIDE DEF TypeOK, OwnerInv, InstanceInv, PeerInv, Holding
    <2> QED BY <1>6, <2>1, Handled
  <1>7. ASSUME NEW d \in Daemons, FlushAndDisconnect(d) PROVE ReplyInv'
    BY <1>7 DEF FlushAndDisconnect, DaemonAt
  <1>8. ASSUME NEW d \in Daemons, ClosePipe(d) PROVE ReplyInv'
    BY <1>8 DEF ClosePipe, DaemonAt, ServerEndCloses
  <1>9. ASSUME NEW d \in Daemons, MainReturns(d) PROVE ReplyInv'
    BY <1>9 DEF MainReturns, ServerEndCloses
  <1>10. ASSUME NEW d \in Daemons, Crash(d) PROVE ReplyInv'
    BY <1>10 DEF Crash, ServerEndCloses
  <1>11. ASSUME NEW c \in Clients, ProbeDaemon(c) PROVE ReplyInv'
    BY <1>11 DEF ProbeDaemon, ClientAt
  <1>12. ASSUME NEW c \in Clients, SpawnFails(c) PROVE ReplyInv'
    BY <1>12 DEF SpawnFails, ClientAt
  <1>13. ASSUME NEW c \in Clients, Open(c) PROVE ReplyInv'
    BY <1>13 DEF Open, ClientAt
  <1>14. ASSUME NEW c \in Clients, Write(c) PROVE ReplyInv'
    BY <1>14 DEF Write, ClientAt
  <1>15. ASSUME NEW c \in Clients, Read(c) PROVE ReplyInv'
    BY <1>15 DEF Read, ClientAt, ClientEndCloses
  <1>16. ASSUME NEW c \in Clients, RunInProcess(c) PROVE ReplyInv'
    BY <1>16 DEF RunInProcess, ClientAt, Outcomes
  <1>17. ASSUME NEW c \in Clients, Return(c) PROVE ReplyInv'
    BY <1>17 DEF Return, ClientAt, Forget
  <1>18. ASSUME NEW c \in Clients, Unload(c) PROVE ReplyInv'
    BY <1>18 DEF Unload, ClientEndCloses, Forget
  <1>19. ASSUME NEW c \in Clients, NEW d \in Daemons, SpawnDaemon(c, d) PROVE ReplyInv'
    BY <1>19 DEF SpawnDaemon, ClientAt
  <1>20. ASSUME NEW c \in Clients, NEW r \in AllRequests, Click(c, r) PROVE ReplyInv'
    BY <1>20 DEF Click, ClientAt
  <1>21. ASSUME StartAgain PROVE ReplyInv'
    BY <1>21 DEF StartAgain
  <1>22. ASSUME NEW d \in Daemons, ClonePanics(d) PROVE ReplyInv'
    BY <1>22 DEF ClonePanics, DaemonAt, ServerEndCloses
  <1>23. CASE UNCHANGED vars
    BY <1>23 DEF vars
  <1> QED
    BY <1>1, <1>2, <1>3, <1>4, <1>5, <1>6, <1>7, <1>8, <1>9, <1>10, <1>11,
       <1>12, <1>13, <1>14, <1>15, <1>16, <1>17, <1>18, <1>19, <1>20, <1>21, <1>22,
       <1>23
    DEF Next, DaemonStep, ClientStep

-----------------------------------------------------------------------------
(* The theorems                                                            *)

\* Nobody is connected and nothing was asked at first.
LEMMA PipeInit == Init => PipeInv
  <1> SUFFICES ASSUME Init PROVE PipeInv
    OBVIOUS
  <1> USE PipeAssumption DEF Init
  <1>1. TypeOK
    <2>1. lost \in [Clients -> BOOLEAN] /\ running \in [Daemons -> BOOLEAN]
      BY Zenon
    <2>2. times \in [Clients -> 0 .. 2]
      OBVIOUS
    <2> QED BY <2>1, <2>2 DEF TypeOK
  <1>2. OwnerInv /\ InstanceInv /\ PeerInv
    BY DEF OwnerInv, InstanceInv, PeerInv, Holding
  <1>3. CountInv
    BY DEF CountInv, Apart
  <1>4. ReplyInv
    BY DEF ReplyInv, TellsTruth, Replies
  <1> QED BY <1>1, <1>2, <1>3, <1>4 DEF PipeInv

\* The invariant holds always.
LEMMA PipeInvariance == Spec => []PipeInv
  <1>1. Init => PipeInv
    BY PipeInit
  <1>2. PipeInv /\ [Next]_vars => PipeInv'
    BY TypeStep, OwnerStep, InstanceStep, PeerStep, CountStep, ReplyStep DEF PipeInv
  <1> QED BY <1>1, <1>2, PTL DEF Spec

\* Every reachable state of pipe, daemons and clients is well typed; in particular no
\* request is ever executed more than twice.
THEOREM PipeTypeCorrect == Spec => []TypeOK
  <1>1. PipeInv => TypeOK
    BY DEF PipeInv
  <1> QED BY <1>1, PipeInvariance, PTL

\* However many daemons the clients spawn, between them they serve one request at a
\* time: a daemon is past CreateNamedPipeW only as the owner of the only instance.
THEOREM DaemonsServeOneRequest == Spec => []OneRequestInService
  <1>1. PipeInv => OneRequestInService
    BY DEF PipeInv, OwnerInv, Holding, OneRequestInService
  <1> QED BY <1>1, PipeInvariance, PTL

\* A request is executed at most once, by a daemon or by the in-process fallback,
\* unless a daemon died while it served the request.
THEOREM RequestsRunAtMostOnce == Spec => []AtMostOnce
  <1>1. PipeInv => AtMostOnce
    <2> SUFFICES ASSUME PipeInv, NEW c \in Clients PROVE times[c] <= 1 \/ lost[c]
      BY DEF AtMostOnce
    <2> QED BY DEF PipeInv, TypeOK, CountInv, Apart
  <1> QED BY <1>1, PipeInvariance, PTL

\* What send_request returns is true of this very request: a result means that the
\* handler ran for it, a refusal that it did not and that the request needs rights.
THEOREM AnswersTellTheTruth == Spec => []ReplyTellsTruth
  <1>1. PipeInv => ReplyTellsTruth
    BY DEF PipeInv, ReplyInv, TellsTruth, ReplyTellsTruth
  <1> QED BY <1>1, PipeInvariance, PTL

=============================================================================
