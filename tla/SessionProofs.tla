--------------------------- MODULE SessionProofs ---------------------------
(* Proofs about GameSession: its types, that a supervisor nobody cancelled *)
(* is always the registered one, and that it plays on tuned settings.      *)
EXTENDS GameSession, TLAPS

-----------------------------------------------------------------------------
(* Types and the registered supervisor                                     *)

\* The initial state has its types, and no supervisor yet.
LEMMA SessionInit == Init => TypeOK /\ OneUncancelledSupervisor
BY SessionAssumption
DEF Init, TypeOK, OneUncancelledSupervisor, IsLive, Live, Attached, Steps

\* Every request of a client keeps both.
LEMMA RequestKeeps ==
    ASSUME TypeOK, OneUncancelledSupervisor, ClientRequest
    PROVE  TypeOK' /\ OneUncancelledSupervisor'
<1> USE SessionAssumption
    DEF TypeOK, OneUncancelledSupervisor, IsLive, Live, Attached, Steps,
        threads, daemon, system, Request
<1>1. CASE Launch
  <2>1. PICK kept \in SUBSET Apps : Purge(kept) /\ collected' = kept
    BY <1>1 DEF Launch
  <2>2. running' \subseteq Apps /\ closed' \subseteq Apps
    BY <2>1 DEF Purge
  <2> QED BY <1>1, <2>1, <2>2 DEF Launch
<1>2. CASE ApplyOptimizations
  BY <1>2 DEF ApplyOptimizations, Apply
<1>3. CASE Rollback
  BY <1>3 DEF Rollback, Stopped
<1>4. CASE PurgeBloatware
  <2>1. PICK kept \in SUBSET Apps : Purge(kept)
    BY <1>4 DEF PurgeBloatware
  <2>2. running' \subseteq Apps /\ closed' \subseteq Apps
    BY <2>1 DEF Purge
  <2> QED BY <1>4, <2>2 DEF PurgeBloatware
<1>5. CASE ShutdownDaemon
  BY <1>5 DEF ShutdownDaemon, Stopped
<1> QED BY <1>1, <1>2, <1>3, <1>4, <1>5 DEF ClientRequest

\* So does every later step of the handler.
LEMMA HandlerKeeps ==
    ASSUME TypeOK, OneUncancelledSupervisor, HandlerStep \/ Crash \/ Boot
    PROVE  TypeOK' /\ OneUncancelledSupervisor'
<1> USE SessionAssumption
    DEF TypeOK, OneUncancelledSupervisor, IsLive, Live, Attached, Steps,
        threads, daemon, system
<1>1. CASE LaunchApply
  BY <1>1 DEF LaunchApply, Apply
<1>2. CASE LaunchSupervisor
  <2>1. PICK s \in Supervisors :
           /\ sup[s] = "unborn"
           /\ stop' = Stopped
           /\ registered' = s
           /\ sup' = [sup EXCEPT ![s] = "poll"]
           /\ backups' = [backups EXCEPT ![s] = collected]
    BY <1>2 DEF LaunchSupervisor
  <2>2. TypeOK'
    BY <1>2, <2>1 DEF LaunchSupervisor, Stopped
  <2>3. OneUncancelledSupervisor'
    BY <1>2, <2>1 DEF LaunchSupervisor, Stopped
  <2> QED BY <2>2, <2>3
<1>3. CASE LaunchGame
  BY <1>3 DEF LaunchGame
<1>4. CASE RollbackRecover
  BY <1>4 DEF RollbackRecover, Recover
<1>5. CASE Gone
  BY <1>5 DEF Gone
<1>6. CASE Boot
  BY <1>6 DEF Boot
<1> QED BY <1>1, <1>2, <1>3, <1>4, <1>5, <1>6 DEF HandlerStep, Exit, Crash

\* So does every step of a supervisor: none of them is born or revived by it.
LEMMA SupervisorKeeps ==
    ASSUME TypeOK, OneUncancelledSupervisor,
           NEW s \in Supervisors, SupervisorStep(s)
    PROVE  TypeOK' /\ OneUncancelledSupervisor'
<1> USE SessionAssumption
    DEF TypeOK, OneUncancelledSupervisor, IsLive, Live, Attached, Steps,
        threads, daemon, system, Go
<1>1. CASE Poll(s)
  BY <1>1 DEF Poll
<1>2. CASE OpenGame(s)
  BY <1>2 DEF OpenGame
<1>3. CASE Wait(s)
  BY <1>3 DEF Wait
<1>4. CASE Check(s)
  BY <1>4 DEF Check
<1>5. CASE Relaunch(s)
  BY <1>5 DEF Relaunch
<1>6. CASE AllRelaunched(s)
  BY <1>6 DEF AllRelaunched
<1>7. CASE PostMatchRecover(s)
  BY <1>7 DEF PostMatchRecover, Recover
<1> QED BY <1>1, <1>2, <1>3, <1>4, <1>5, <1>6, <1>7 DEF SupervisorStep

\* Every step of the system keeps both.
LEMMA SessionStep ==
    ASSUME TypeOK, OneUncancelledSupervisor, [Next]_vars
    PROVE  TypeOK' /\ OneUncancelledSupervisor'
<1> USE DEF TypeOK, OneUncancelledSupervisor, IsLive, daemon, threads, system
<1>1. CASE ClientRequest
  BY <1>1, RequestKeeps
<1>2. CASE HandlerStep \/ Crash \/ Boot
  BY <1>2, HandlerKeeps
<1>3. ASSUME NEW s \in Supervisors, SupervisorStep(s)
      PROVE  TypeOK' /\ OneUncancelledSupervisor'
  BY <1>3, SupervisorKeeps
<1>4. CASE GameStarts
  BY <1>4 DEF GameStarts
<1>5. CASE GameExits
  BY <1>5 DEF GameExits
<1>6. ASSUME NEW app \in Apps, UserStarts(app)
      PROVE  TypeOK' /\ OneUncancelledSupervisor'
  BY <1>6 DEF UserStarts
<1>7. CASE CliOptimizes
  BY <1>7 DEF CliOptimizes, Apply
<1>8. CASE CliRestores
  BY <1>8 DEF CliRestores, Recover
<1>9. CASE UNCHANGED vars
  BY <1>9 DEF vars
<1> QED BY <1>1, <1>2, <1>3, <1>4, <1>5, <1>6, <1>7, <1>8, <1>9 DEF Next

\* Type correctness, for any number of sessions and any failures.
THEOREM SessionTypeCorrect == Spec => []TypeOK
<1>1. TypeOK /\ OneUncancelledSupervisor /\ [Next]_vars
        => (TypeOK /\ OneUncancelledSupervisor)'
  BY SessionStep
<1> QED BY <1>1, SessionInit, PTL DEF Spec

\* ipc_server.rs swaps the signals so that a supervisor nobody cancelled is the
\* registered one; this holds for any number of launches, rollbacks, crashes
\* and foreign CLI processes.
THEOREM OneSupervisorAtATime == Spec => []OneUncancelledSupervisor
<1>1. TypeOK /\ OneUncancelledSupervisor /\ [Next]_vars
        => (TypeOK /\ OneUncancelledSupervisor)'
  BY SessionStep
<1> QED BY <1>1, SessionInit, PTL DEF Spec

-----------------------------------------------------------------------------
(* Sessions that do not overlap play on tuned settings                     *)

\* A machine without sessions satisfies SessionInv.
LEMMA SafeInit == Init => SessionInv
BY SessionAssumption
DEF Init, SessionInv, OneUncancelledSupervisor, IsLive, Live, Attached

\* SessionInv is inductive where SafeSession holds.
LEMMA SafeStep ==
    ASSUME TypeOK, SafeSession, SessionInv, [Next]_vars
    PROVE  SessionInv'
<1>0. OneUncancelledSupervisor'
  BY SessionStep DEF SessionInv
<1> USE <1>0, SessionAssumption
    DEF SafeSession, SessionInv, TypeOK, IsLive, daemon, threads, system, Apply, Recover
<1>1. CASE ClientRequest
  <2> USE DEF Request, Quiet
  <2>1. CASE Launch
    BY <2>1 DEF Launch
  <2>2. CASE ApplyOptimizations
    BY <2>2 DEF ApplyOptimizations
  <2>3. CASE Rollback
    BY <2>3 DEF Rollback, Stopped
  <2>4. CASE PurgeBloatware
    BY <2>4 DEF PurgeBloatware
  <2>5. CASE ShutdownDaemon
    BY <2>5 DEF ShutdownDaemon, Stopped
  <2> QED BY <1>1, <2>1, <2>2, <2>3, <2>4, <2>5 DEF ClientRequest
<1>2. CASE HandlerStep
  <2>1. CASE LaunchApply
    BY <2>1 DEF LaunchApply
  <2>2. CASE LaunchSupervisor
    BY <2>2 DEF LaunchSupervisor, Stopped
  <2>3. CASE LaunchGame
    BY <2>3 DEF LaunchGame
  <2>4. CASE RollbackRecover
    BY <2>4 DEF RollbackRecover, OneUncancelledSupervisor
  <2>5. CASE Exit
    BY <2>5 DEF Exit, Gone, Live, Attached
  <2> QED BY <1>2, <2>1, <2>2, <2>3, <2>4, <2>5 DEF HandlerStep
<1>3. CASE Crash
  BY <1>3 DEF Crash, Gone, Live, Attached
<1>4. CASE Boot
  BY <1>4 DEF Boot
<1>5. ASSUME NEW s \in Supervisors, SupervisorStep(s)
      PROVE  SessionInv'
  <2> USE DEF Go, Live, Attached
  <2>1. CASE Poll(s)
    BY <2>1 DEF Poll
  <2>2. CASE OpenGame(s)
    BY <2>2 DEF OpenGame
  <2>3. CASE Wait(s)
    BY <2>3 DEF Wait
  <2>4. CASE Check(s)
    BY <2>4 DEF Check
  <2>5. CASE Relaunch(s)
    BY <2>5 DEF Relaunch
  <2>6. CASE AllRelaunched(s)
    BY <2>6 DEF AllRelaunched
  <2>7. CASE PostMatchRecover(s)
    BY <2>7 DEF PostMatchRecover
  <2> QED BY <1>5, <2>1, <2>2, <2>3, <2>4, <2>5, <2>6, <2>7 DEF SupervisorStep
<1>6. CASE GameStarts
  BY <1>6 DEF GameStarts
<1>7. CASE GameExits
  BY <1>7 DEF GameExits
<1>8. ASSUME NEW app \in Apps, UserStarts(app)
      PROVE  SessionInv'
  BY <1>8 DEF UserStarts
<1>9. CASE CliOptimizes \/ CliRestores
  BY <1>9 DEF CliOptimizes, CliRestores
<1>10. CASE UNCHANGED vars
  BY <1>10 DEF vars
<1> QED
  BY <1>1, <1>2, <1>3, <1>4, <1>5, <1>6, <1>7, <1>8, <1>9, <1>10 DEF Next

\* While a supervisor that was not cancelled is attached to the game, the
\* settings are tuned and the record holds the baseline.
THEOREM TunedUntilRestored ==
    ASSUME SafeSession
    PROVE  Spec => []TunedWhilePlaying
<1>1. TypeOK /\ SessionInv /\ [Next]_vars => SessionInv'
  BY SafeStep
<1>2. TypeOK /\ SessionInv => TunedWhilePlaying
  BY DEF SessionInv, TunedWhilePlaying, IsLive, Live
<1> QED BY <1>1, <1>2, SafeInit, SessionTypeCorrect, PTL DEF Spec

=============================================================================
