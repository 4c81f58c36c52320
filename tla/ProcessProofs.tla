---------------------------- MODULE ProcessProofs ----------------------------
(***************************************************************************)
(* What is proved of ProcessControl and ServiceControl for every set of    *)
(* pids, programs and services: the relaunch after a match starts what was *)
(* closed and nothing else, with the user's rights, the game is pinned to  *)
(* its fast cores, and resuming reaches every service.                     *)
(***************************************************************************)
EXTENDS ProcessControl, ServiceControl, FiniteSetTheorems, WellFoundedInduction,
        SequenceTheorems, TLAPS

-----------------------------------------------------------------------------
(* Numbers and sequences                                                   *)

\* A set of numbers has a least one: the pid that Visit takes next is one of those still to
\* be visited.
LEMMA MinIsElement ==
  ASSUME NEW S, S \subseteq Nat, S # {}
  PROVE  Min(S) \in S /\ \A y \in S : Min(S) <= y
  <1>1. PICK x \in S : \A y \in S : ~(<<y, x>> \in OpToRel(<, Nat))
    BY NatLessThanWellFounded, WFMin
  <1>2. \A y \in S : ~(y < x)
    BY <1>1 DEF OpToRel
  <1>3. \A y \in S : x =< y
    BY <1>2
  <1> QED BY <1>3 DEF Min

\* The places of image i in a list of backups.
Places(s, i) == {j \in DOMAIN s : s[j] = i}

\* How often image i is in a list of backups.
Count(s, i) == Cardinality(Places(s, i))

\* A list has finitely many places, the empty list none.
LEMMA PlacesFinite ==
  ASSUME NEW S, NEW s \in Seq(S), NEW i
  PROVE  /\ IsFiniteSet(Places(s, i)) /\ Count(s, i) \in Nat
         /\ s = << >> => Count(s, i) = 0
  <1>1. Places(s, i) \in SUBSET (1 .. Len(s)) /\ Len(s) \in Nat
    BY DEF Places
  <1>2. IsFiniteSet(Places(s, i))
    <2>1. IsFiniteSet(1 .. Len(s))
      BY <1>1, FS_Interval
    <2> QED BY <1>1, <2>1, FS_Subset
  <1>3. Count(s, i) \in Nat
    BY <1>2, FS_CardinalityType DEF Count
  <1>4. s = << >> => Places(s, i) = {}
    BY DEF Places
  <1> QED BY <1>2, <1>3, <1>4, FS_EmptySet DEF Count

\* A backup that is pushed is counted once more.
LEMMA CountAppend ==
  ASSUME NEW S, NEW s \in Seq(S), NEW x \in S, NEW i
  PROVE  Count(Append(s, x), i) = IF x = i THEN Count(s, i) + 1 ELSE Count(s, i)
  <1>1. CASE x = i
    <2>1. Places(Append(s, x), i) = Places(s, i) \cup {Len(s) + 1}
      BY <1>1 DEF Places
    <2>2. Len(s) + 1 \notin Places(s, i)
      BY DEF Places
    <2> QED BY <1>1, <2>1, <2>2, PlacesFinite, FS_AddElement DEF Count
  <1>2. CASE x # i
    <2>1. Places(Append(s, x), i) = Places(s, i)
      BY <1>2 DEF Places
    <2> QED BY <1>2, <2>1 DEF Count
  <1> QED BY <1>1, <1>2

\* A backup that is taken from the front is counted once less.
LEMMA CountTail ==
  ASSUME NEW S, NEW s \in Seq(S), s # << >>, NEW i
  PROVE  Count(Tail(s), i) = IF Head(s) = i THEN Count(s, i) - 1 ELSE Count(s, i)
  <1> DEFINE rest == Places(s, i) \ {1}
             f == [j \in Places(Tail(s), i) |-> j + 1]
  <1>1. /\ Tail(s) \in Seq(S) /\ Len(Tail(s)) = Len(s) - 1 /\ Len(s) \in Nat \ {0}
        /\ \A j \in 1 .. Len(s) - 1 : Tail(s)[j] = s[j + 1]
    OBVIOUS
  <1>2. \A j : j \in Places(Tail(s), i) <=> j \in 1 .. Len(s) - 1 /\ s[j + 1] = i
    BY <1>1 DEF Places
  <1>3. \A k : k \in rest <=> k \in 2 .. Len(s) /\ s[k] = i
    BY <1>1 DEF Places
  <1>4. f \in [Places(Tail(s), i) -> rest]
    BY <1>2, <1>3
  <1>5. f \in Injection(Places(Tail(s), i), rest)
    <2>1. \A j, k \in Places(Tail(s), i) : f[j] = f[k] => j = k
      BY <1>2
    <2> QED BY <1>4, <2>1 DEF Injection, IsInjective
  <1>6. ASSUME NEW k \in rest PROVE \E j \in Places(Tail(s), i) : f[j] = k
    <2>1. k - 1 \in Places(Tail(s), i)
      BY <1>2, <1>3
    <2>2. f[k - 1] = k
      BY <2>1, <1>3
    <2> QED BY <2>1, <2>2
  <1>7. f \in Bijection(Places(Tail(s), i), rest)
    BY <1>4, <1>5, <1>6 DEF Bijection, Surjection
  <1>8. Cardinality(Places(Tail(s), i)) = Cardinality(rest)
    <2>1. IsFiniteSet(Places(Tail(s), i))
      BY <1>1, PlacesFinite
    <2>2. ExistsBijection(Places(Tail(s), i), rest)
      BY <1>7 DEF ExistsBijection
    <2> HIDE DEF rest
    <2> QED BY <2>1, <2>2, FS_Bijection
  <1>9. 1 \in Places(s, i) <=> Head(s) = i
    BY <1>1 DEF Places
  <1> QED BY <1>8, <1>9, PlacesFinite, FS_RemoveElement DEF Count

-----------------------------------------------------------------------------
(* Type correctness                                                        *)

\* A process that is created is one of the known images, at a free pid.
LEMMA CreatedType ==
  ASSUME TypeOK, NEW image \in Images, NEW desktop, NEW deescalated,
         Created(image, desktop, deescalated) \/ NotCreated
  PROVE  table' \in [Pids -> Images \cup {None}]
  BY DEF TypeOK, Created, NotCreated, Free

\* However the game is launched, at most a Riot Client is created.
LEMMA LaunchType ==
  ASSUME TypeOK, LaunchGame
  PROVE  table' \in [Pids -> Images \cup {None}]
  <1>1. RiotClient \in Images
    BY DEF Images
  <1>2. NotCreated \/ \E desktop, deescalated : Created(RiotClient, desktop, deescalated)
    BY DEF LaunchGame, LaunchRiotClient, SpawnDirectly, ShellOpensRiotClient
  <1> QED BY <1>1, <1>2, CreatedType

\* A relaunch creates at most a process of the image at the front of the backups.
LEMMA RelaunchType ==
  ASSUME TypeOK, Relaunch
  PROVE  /\ Head(backups) \in Images /\ Tail(backups) \in Seq(Images)
         /\ table' \in [Pids -> Images \cup {None}]
  <1>1. Head(backups) \in Images /\ Tail(backups) \in Seq(Images)
    BY DEF Relaunch, TypeOK
  <1>2. \/ NotCreated
        \/ \E desktop, deescalated : Created(Head(backups), desktop, deescalated)
    BY DEF Relaunch, relaunch_single_application, SpawnDirectly
  <1> QED BY <1>1, <1>2, CreatedType

\* Every step keeps the types.
LEMMA ProcessTypeStep == TypeOK /\ [Next]_vars => TypeOK'
  <1> SUFFICES ASSUME TypeOK, [Next]_vars PROVE TypeOK'
    OBVIOUS
  <1> USE ProcessAssumption DEF TypeOK, processVars, launchVars, history, Scan, Running
  <1>1. CASE PurgeBloatware
    BY <1>1 DEF PurgeBloatware
  <1>2. CASE Visit
    <2> DEFINE p == Min(todo)
    <2>1. p \in todo /\ p \in Pids
      BY <1>2, MinIsElement DEF Visit
    <2> HIDE DEF p
    <2>2. \/ /\ pc' = "close" /\ table[p] # None
             /\ \E path \in BOOLEAN : handle' = [pid |-> p, path |-> path, image |-> table[p]]
          \/ UNCHANGED <<pc, handle>>
      BY <1>2 DEF Visit, p
    <2>3. handle' \in {None} \cup Handles /\ (handle' # None <=> pc' = "close")
      BY <1>2, <2>1, <2>2 DEF Handles, Visit
    <2>4. pc' \in {"visit", "close"} /\ todo' \subseteq Pids
      BY <1>2, <2>2 DEF Visit
    <2> QED BY <1>2, <2>3, <2>4 DEF Visit
  <1>3. CASE CloseProcess
    <2>1. handle \in Handles
      BY <1>3 DEF CloseProcess
    <2>2. /\ table' \in [Pids -> Images \cup {None}]
          /\ closed' \subseteq Images /\ killed' \subseteq Images
          /\ owed' \in [Images -> Int] /\ backups' \in Seq(Images)
      BY <1>3, <2>1 DEF CloseProcess, Handles
    <2> QED BY <1>3, <2>2 DEF CloseProcess, CloseHandle
  <1>4. CASE VisitedAll
    BY <1>4 DEF VisitedAll
  <1>5. CASE LaunchOptimizedGame
    BY <1>5 DEF LaunchOptimizedGame
  <1>6. CASE LaunchRefused
    BY <1>6 DEF LaunchRefused, vars
  <1>7. CASE LaunchGame
    BY <1>7, LaunchType DEF LaunchGame
  <1>8. CASE GameStarts
    BY <1>8 DEF GameStarts, Free, Images
  <1>9. CASE FindGame
    BY <1>9 DEF FindGame
  <1>10. CASE TuneGame
    BY <1>10 DEF TuneGame
  <1>11. CASE GameExits
    BY <1>11 DEF GameExits
  <1>12. CASE Relaunch
    BY <1>12, RelaunchType DEF Relaunch, Remaining
  <1>13. CASE SessionOver
    BY <1>13 DEF SessionOver, Nobody
  <1>14. CASE UserStarts
    BY <1>14 DEF UserStarts, Free, Images
  <1>15. CASE UserEnds
    BY <1>15 DEF UserEnds
  <1>16. CASE UNCHANGED vars
    BY <1>16 DEF vars
  <1> QED
    BY <1>1, <1>2, <1>3, <1>4, <1>5, <1>6, <1>7, <1>8, <1>9, <1>10, <1>11,
       <1>12, <1>13, <1>14, <1>15, <1>16
    DEF Next

\* Every reachable state of the process table and of the optimizer's walk through it is
\* well typed: it holds a process open exactly while it closes one, and every backup
\* names an application.
THEOREM ProcessTypeCorrect == Spec => []TypeOK
  <1>1. Init => TypeOK
    <2> SUFFICES ASSUME Init PROVE TypeOK
      OBVIOUS
    <2>1. table \in [Pids -> Images \cup {None}]
      BY DEF Init, Images
    <2>2. owed \in [Images -> Int]
      BY DEF Init, Nobody
    <2> QED BY <2>1, <2>2, ProcessAssumption DEF Init, TypeOK
  <1> QED BY <1>1, ProcessTypeStep, PTL DEF Spec

-----------------------------------------------------------------------------
(* The relaunch after a match                                              *)

\* The backups account for the launch: each image is in them as often as a process of it
\* was opened and not yet tried again, and what was really closed is among them.  A purge
\* outside a launch leaves nothing behind that the next launch would relaunch.
RelaunchInv ==
    /\ pc = "idle" => task = "purge"
    /\ pc \in {"prepared", "poll", "tune", "play", "relaunch"} => task # "purge"
    /\ task = "purge" => backups = << >> /\ closed = {} /\ owed = Nobody
    /\ \A i \in closed : \E j \in DOMAIN backups : backups[j] = i
    /\ \A i \in Images : owed[i] = Count(backups, i)

\* Nobody is owed nothing, and no image is among no backups.
LEMMA NothingOwed ==
  ASSUME NEW i \in Images
  PROVE  Nobody[i] = 0 /\ Count(<< >>, i) = 0
  <1>1. << >> \in Seq(Images)
    OBVIOUS
  <1> QED BY <1>1, PlacesFinite DEF Nobody

\* CloseProcess pushes a backup and owes its image one relaunch more, or does neither.
LEMMA RelaunchClose ==
  ASSUME TypeOK, RelaunchInv, CloseProcess
  PROVE  RelaunchInv'
  <1> USE DEF RelaunchInv
  <1>1. /\ handle \in Handles /\ handle.image \in Images
        /\ pc' = "visit" /\ task' = task
    BY DEF TypeOK, CloseProcess, Handles
  <1>2. CASE handle.path /\ task = "launch"
    <2>1. /\ backups' = Append(backups, handle.image)
          /\ owed' = [owed EXCEPT ![handle.image] = @ + 1]
          /\ closed' \subseteq closed \cup {handle.image}
      BY <1>2 DEF CloseProcess, BackedUp
    <2>2. backups \in Seq(Images) /\ owed \in [Images -> Int]
      BY DEF TypeOK
    <2>3. \A i \in closed' : \E j \in DOMAIN backups' : backups'[j] = i
      <3> SUFFICES ASSUME NEW i \in closed'
                   PROVE  \E j \in DOMAIN backups' : backups'[j] = i
        OBVIOUS
      <3>1. CASE i = handle.image
        <4>1. Len(backups) + 1 \in DOMAIN backups' /\ backups'[Len(backups) + 1] = i
          BY <1>1, <2>1, <2>2, <3>1
        <4> QED BY <4>1
      <3>2. CASE i \in closed
        <4>1. PICK j \in DOMAIN backups : backups[j] = i
          BY <3>2
        <4>2. j \in DOMAIN backups' /\ backups'[j] = i
          BY <1>1, <2>1, <2>2, <4>1
        <4> QED BY <4>2
      <3> QED BY <2>1, <3>1, <3>2
    <2>4. \A i \in Images : owed'[i] = Count(backups', i)
      <3> SUFFICES ASSUME NEW i \in Images PROVE owed'[i] = Count(backups', i)
        OBVIOUS
      <3>1. Count(backups', i) = IF handle.image = i THEN Count(backups, i) + 1
                                                     ELSE Count(backups, i)
        BY <1>1, <2>1, <2>2, CountAppend
      <3> QED BY <2>1, <2>2, <3>1
    <2> QED BY <1>1, <1>2, <2>3, <2>4
  <1>3. CASE ~(handle.path /\ task = "launch")
    <2>1. backups' = backups /\ owed' = owed /\ closed' = closed
      BY <1>3 DEF CloseProcess, BackedUp
    <2> QED BY <1>1, <2>1
  <1> QED BY <1>2, <1>3

\* Relaunch takes the backup at the front and owes its image one relaunch less.
LEMMA RelaunchOne ==
  ASSUME TypeOK, RelaunchInv, Relaunch
  PROVE  RelaunchInv'
  <1> USE DEF RelaunchInv
  <1> DEFINE image == Head(backups)
  <1>1. /\ backups' = Tail(backups) /\ backups # << >>
        /\ owed' = [owed EXCEPT ![image] = @ - 1]
        /\ closed' = closed \ {image}
        /\ pc = "relaunch" /\ pc' = pc /\ task' = task
    BY DEF Relaunch, Remaining
  <1>2. backups \in Seq(Images) /\ image \in Images /\ owed \in [Images -> Int]
    BY RelaunchType DEF TypeOK
  <1> HIDE DEF image
  <1>3. \A i \in closed' : \E j \in DOMAIN backups' : backups'[j] = i
    <2> SUFFICES ASSUME NEW i \in closed'
                 PROVE  \E j \in DOMAIN backups' : backups'[j] = i
      OBVIOUS
    <2>1. PICK j \in DOMAIN backups : backups[j] = i
      BY <1>1
    <2>2. j # 1
      BY <1>1, <1>2, <2>1 DEF image
    <2>3. j - 1 \in DOMAIN backups' /\ backups'[j - 1] = i
      BY <1>1, <1>2, <2>1, <2>2
    <2> QED BY <2>3
  <1>4. \A i \in Images : owed'[i] = Count(backups', i)
    <2> SUFFICES ASSUME NEW i \in Images PROVE owed'[i] = Count(backups', i)
      OBVIOUS
    <2>1. Count(backups', i) = IF image = i THEN Count(backups, i) - 1
                                            ELSE Count(backups, i)
      BY <1>1, <1>2, CountTail DEF image
    <2> QED BY <1>1, <1>2, <2>1
  <1>5. task' # "purge"
    BY <1>1
  <1> QED BY <1>1, <1>3, <1>4, <1>5

\* The accounts are kept by every step.
LEMMA RelaunchStep == TypeOK /\ RelaunchInv /\ [Next]_vars => RelaunchInv'
  <1> SUFFICES ASSUME TypeOK, RelaunchInv, [Next]_vars PROVE RelaunchInv'
    OBVIOUS
  <1> USE DEF RelaunchInv, processVars, launchVars, history, Scan
  <1>1. CASE PurgeBloatware
    BY <1>1 DEF PurgeBloatware
  <1>2. CASE Visit
    <2>1. /\ backups' = backups /\ closed' = closed /\ owed' = owed /\ task' = task
          /\ pc' \in {"visit", "close"}
      BY <1>2 DEF Visit
    <2> QED BY <2>1
  <1>3. CASE CloseProcess
    BY <1>3, RelaunchClose
  <1>4. CASE VisitedAll
    BY <1>4 DEF VisitedAll
  <1>5. CASE LaunchOptimizedGame
    BY <1>5 DEF LaunchOptimizedGame
  <1>6. CASE LaunchRefused \/ UNCHANGED vars
    BY <1>6 DEF LaunchRefused, vars
  <1>7. CASE LaunchGame
    BY <1>7 DEF LaunchGame
  <1>8. CASE GameStarts \/ FindGame \/ GameExits
    BY <1>8 DEF GameStarts, FindGame, GameExits
  <1>9. CASE TuneGame
    BY <1>9 DEF TuneGame
  <1>10. CASE Relaunch
    BY <1>10, RelaunchOne
  <1>11. CASE SessionOver
    BY <1>11, NothingOwed DEF SessionOver
  <1>12. CASE UserStarts \/ UserEnds
    BY <1>12 DEF UserStarts, UserEnds
  <1> QED
    BY <1>1, <1>2, <1>3, <1>4, <1>5, <1>6, <1>7, <1>8, <1>9, <1>10, <1>11, <1>12
    DEF Next

\* The accounts are right in every reachable state.
LEMMA RelaunchAccounts == Spec => [](TypeOK /\ RelaunchInv)
  <1>1. Init => RelaunchInv
    BY NothingOwed DEF Init, RelaunchInv
  <1> QED BY <1>1, ProcessTypeCorrect, RelaunchStep, PTL DEF Spec

\* When the relaunch after a match is through, every application that the launch closed,
\* its path known, has been tried again, whatever failed on the way.
THEOREM RelaunchIsComplete == Spec => []RelaunchForgetsNobody
  <1>1. RelaunchInv => RelaunchForgetsNobody
    BY DEF RelaunchInv, RelaunchForgetsNobody
  <1> QED BY <1>1, RelaunchAccounts, PTL

\* No application is relaunched more often than a process of it was opened to be closed.
THEOREM RelaunchIsExact == Spec => []OneStartPerProcess
  <1>1. TypeOK /\ RelaunchInv => OneStartPerProcess
    BY PlacesFinite DEF RelaunchInv, TypeOK, OneStartPerProcess
  <1> QED BY <1>1, RelaunchAccounts, PTL

-----------------------------------------------------------------------------
(* The rights of what is started                                           *)

\* The rights of a created process are elevated only if it was not created with the
\* desktop user's token.
LEMMA RightsOfCreated ==
  ASSUME DeescalatedWhenPossible, NEW image, NEW desktop, NEW deescalated,
         Created(image, desktop, deescalated),
         \/ ~elevated \/ deescalated = TRUE \/ desktop = "none"
         \/ image = RiotClient /\ desktop \in {"refused", "shell"}
  PROVE  DeescalatedWhenPossible'
  BY DEF DeescalatedWhenPossible, Created

\* Every way to start a process gives it the user's rights where that is possible.
LEMMA RightsStep == DeescalatedWhenPossible /\ [Next]_vars => DeescalatedWhenPossible'
  <1> SUFFICES ASSUME DeescalatedWhenPossible, [Next]_vars PROVE DeescalatedWhenPossible'
    OBVIOUS
  <1>0. ASSUME spawned' = spawned PROVE DeescalatedWhenPossible'
    BY <1>0 DEF DeescalatedWhenPossible
  <1>1. ASSUME NEW desktop \in Desktop
        PROVE  desktop \in {"own", "given", "none", "refused"}
               /\ (desktop = "own" => ~elevated)
    BY DEF Desktop
  <1>2. CASE LaunchGame
    <2>1. CASE NotCreated
      BY <1>0, <2>1 DEF NotCreated
    <2>2. CASE ShellOpensRiotClient
      BY <2>2, RightsOfCreated DEF ShellOpensRiotClient
    <2>3. CASE LaunchRiotClient(RiotClient)
      <3>1. PICK desktop \in Desktop :
                IF desktop = "given" THEN Created(RiotClient, desktop, TRUE)
                ELSE SpawnDirectly(RiotClient, desktop)
        BY <2>3 DEF LaunchRiotClient
      <3>2. CASE desktop = "given"
        BY <3>1, <3>2, RightsOfCreated
      <3>3. CASE desktop # "given" /\ Created(RiotClient, desktop, FALSE)
        BY <1>1, <3>3, RightsOfCreated
      <3>4. CASE NotCreated
        BY <1>0, <3>4 DEF NotCreated
      <3> QED BY <3>1, <3>2, <3>3, <3>4 DEF SpawnDirectly
    <2> QED BY <1>2, <2>1, <2>2, <2>3 DEF LaunchGame
  <1>3. CASE Relaunch
    <2>1. CASE NotCreated
      BY <1>0, <2>1 DEF NotCreated
    <2>2. CASE relaunch_single_application(Head(backups))
      <3>1. PICK desktop \in Desktop :
                \/ desktop = "given" /\ Created(Head(backups), desktop, TRUE)
                \/ desktop \in {"own", "none"} /\ SpawnDirectly(Head(backups), desktop)
                \/ desktop = "refused" /\ NotCreated
        BY <2>2 DEF relaunch_single_application
      <3>2. CASE Created(Head(backups), desktop, TRUE)
        BY <3>2, RightsOfCreated
      <3>3. CASE desktop \in {"own", "none"} /\ Created(Head(backups), desktop, FALSE)
        BY <1>1, <3>3, RightsOfCreated
      <3>4. CASE NotCreated
        BY <1>0, <3>4 DEF NotCreated
      <3> QED BY <3>1, <3>2, <3>3, <3>4 DEF SpawnDirectly
    <2> QED BY <1>3, <2>1, <2>2 DEF Relaunch
  <1>4. CASE SessionOver
    BY <1>4 DEF SessionOver, DeescalatedWhenPossible
  <1>5. CASE PurgeBloatware \/ Visit \/ CloseProcess \/ VisitedAll
    BY <1>0, <1>5 DEF PurgeBloatware, Visit, CloseProcess, VisitedAll, history
  <1>6. CASE LaunchOptimizedGame \/ LaunchRefused \/ UNCHANGED vars
    BY <1>0, <1>6 DEF LaunchOptimizedGame, LaunchRefused, history, vars
  <1>7. CASE GameStarts \/ FindGame \/ TuneGame \/ GameExits
    BY <1>0, <1>7 DEF GameStarts, FindGame, TuneGame, GameExits, history
  <1>8. CASE UserStarts \/ UserEnds
    BY <1>0, <1>8 DEF UserStarts, UserEnds, history
  <1> QED BY <1>2, <1>3, <1>4, <1>5, <1>6, <1>7, <1>8 DEF Next

\* An elevated daemon passes its rights on only to the Riot Client, or where no desktop
\* user's token is to be had.
THEOREM RightsAreGivenUp == Spec => []DeescalatedWhenPossible
  <1>1. Init => DeescalatedWhenPossible
    BY DEF Init, DeescalatedWhenPossible
  <1> QED BY <1>1, RightsStep, PTL DEF Spec

-----------------------------------------------------------------------------
(* The cores of the game                                                   *)

\* The classes of some cores lie within a byte and have a greatest and a least one.
LEMMA ClassBounds ==
  ASSUME NEW C, C \subseteq 0 .. 255, C # {}
  PROVE  /\ Max({0} \cup C) \in C /\ \A x \in C : x <= Max({0} \cup C)
         /\ Min({255} \cup C) \in C /\ \A x \in C : Min({255} \cup C) <= x
  <1> DEFINE U == {0} \cup C
             L == {255} \cup C
             T == {255 - x : x \in U}
  <1>1. U \subseteq 0 .. 255 /\ L \subseteq 0 .. 255 /\ T \subseteq Nat /\ T # {}
    <2>1. U \subseteq 0 .. 255
      OBVIOUS
    <2>2. L \subseteq 0 .. 255
      OBVIOUS
    <2>3. \A x \in 0 .. 255 : 255 - x \in Nat
      OBVIOUS
    <2>4. T \subseteq Nat
      <3> SUFFICES ASSUME NEW y \in T PROVE y \in Nat
        OBVIOUS
      <3>1. PICK x \in U : y = 255 - x
        OBVIOUS
      <3>2. x \in 0 .. 255
        BY <2>1
      <3> QED BY <2>3, <3>1, <3>2
    <2>5. 0 \in U
      OBVIOUS
    <2>6. 255 - 0 \in T
      BY <2>5
    <2>7. T # {}
      BY <2>6
    <2> QED BY <2>1, <2>2, <2>4, <2>7
  <1>2. \E x \in U : \A y \in U : x >= y
    <2>1. PICK t \in T : \A y \in T : ~(<<y, t>> \in OpToRel(<, Nat))
      <3> HIDE DEF T
      <3> QED BY <1>1, NatLessThanWellFounded, WFMin
    <2>2. PICK x \in U : t = 255 - x
      OBVIOUS
    <2>3. ASSUME NEW y \in U PROVE x >= y
      <3>1. 255 - y \in T /\ 255 - y \in Nat /\ t \in Nat
        BY <1>1
      <3>2. ~(255 - y < t)
        BY <2>1, <3>1 DEF OpToRel
      <3>3. x \in Int /\ y \in Int
        BY <1>1
      <3> QED BY <2>2, <3>2, <3>3
    <2> QED BY <2>3
  <1> HIDE DEF T, U, L
  <1>4. Max(U) \in U /\ \A y \in U : Max(U) >= y
    BY <1>2 DEF Max
  <1>5. Min(L) \in L /\ \A y \in L : Min(L) <= y
    <2>1. L \subseteq Nat /\ L # {}
      BY <1>1 DEF L
    <2> QED BY <2>1, MinIsElement
  <1>6. PICK c \in C : c \in 0 .. 255
    OBVIOUS
  <1>7. Max(U) \in C
    <2>1. c \in U /\ Max(U) \in 0 .. 255
      BY <1>1, <1>4, <1>6 DEF U
    <2>2. Max(U) \in C \/ (Max(U) = 0 /\ c <= 0)
      BY <1>4, <2>1 DEF U
    <2> QED BY <1>6, <2>2
  <1>8. Min(L) \in C
    <2>1. c \in L /\ Min(L) \in 0 .. 255
      BY <1>1, <1>5, <1>6, ZenonT(60) DEF L
    <2>2. Min(L) \in C \/ (Min(L) = 255 /\ 255 <= c)
      BY <1>5, <2>1 DEF L
    <2> QED BY <1>6, <2>2
  <1>9. /\ \A x \in C : x <= Max(U)
        /\ \A x \in C : Min(L) <= x
    <2> SUFFICES ASSUME NEW x \in C PROVE x <= Max(U) /\ Min(L) <= x
      OBVIOUS
    <2>1. x \in U /\ x \in L
      BY DEF U, L
    <2>2. x \in 0 .. 255 /\ Max(U) \in 0 .. 255
      BY <1>7
    <2>3. Max(U) >= x /\ Min(L) <= x
      BY <1>4, <1>5, <2>1
    <2> QED BY <2>2, <2>3
  <1> QED BY <1>7, <1>8, <1>9 DEF U, L

\* The places of the cores that precede the first record cut short.
CorePlaces(buffer) ==
    {j \in DOMAIN buffer : /\ buffer[j].relation = "core"
                           /\ \A k \in DOMAIN buffer : buffer[k].relation = "cut" => j < k}

\* The walk finds these cores, and no others.
LEMMA WalkFindsCores ==
  ASSUME NEW buffer \in Seq(Records)
  PROVE  /\ parse_processor_cores(buffer) = [i \in CorePlaces(buffer) |-> buffer[i]]
         /\ \A i \in CorePlaces(buffer) : buffer[i] \in CoreRecords
  <1> DEFINE cut == {i \in DOMAIN buffer : buffer[i].relation = "cut"}
             whole == IF cut = {} THEN DOMAIN buffer ELSE 1 .. Min(cut) - 1
  <1>1. DOMAIN buffer = 1 .. Len(buffer) /\ Len(buffer) \in Nat
    OBVIOUS
  <1>2. {j \in whole : buffer[j].relation = "core"} = CorePlaces(buffer)
    <2>1. CASE cut = {}
      BY <2>1 DEF CorePlaces
    <2>2. CASE cut # {}
      <3>1. cut \subseteq Nat /\ cut \subseteq DOMAIN buffer
        BY <1>1
      <3>2. Min(cut) \in cut
        <4> HIDE DEF cut
        <4> QED BY <2>2, <3>1, MinIsElement
      <3>3. \A k \in cut : Min(cut) <= k
        <4> HIDE DEF cut
        <4> QED BY <2>2, <3>1, MinIsElement
      <3> DEFINE m == Min(cut)
      <3>4. m \in 1 .. Len(buffer) /\ buffer[m].relation = "cut"
        BY <1>1, <3>2
      <3>5. \A k \in DOMAIN buffer : buffer[k].relation = "cut" => m <= k
        BY <3>3
      <3>6. whole = 1 .. m - 1
        BY <2>2
      <3> HIDE DEF m, whole
      <3>7. ASSUME NEW j PROVE j \in whole /\ buffer[j].relation = "core" <=> j \in CorePlaces(buffer)
        <4>1. ASSUME j \in whole, buffer[j].relation = "core" PROVE j \in CorePlaces(buffer)
          <5>1. j \in DOMAIN buffer /\ j < m
            BY <1>1, <3>4, <3>6, <4>1
          <5>2. ASSUME NEW k \in DOMAIN buffer, buffer[k].relation = "cut" PROVE j < k
            <6>1. m <= k /\ k \in Int /\ m \in Int /\ j \in Int
              BY <1>1, <3>4, <3>5, <5>1, <5>2
            <6> QED BY <5>1, <6>1
          <5> QED BY <4>1, <5>1, <5>2 DEF CorePlaces
        <4>2. ASSUME j \in CorePlaces(buffer) PROVE j \in whole /\ buffer[j].relation = "core"
          <5>1. j \in DOMAIN buffer /\ buffer[j].relation = "core" /\ j < m
            BY <1>1, <3>4, <4>2 DEF CorePlaces
          <5> QED BY <1>1, <3>4, <3>6, <5>1
        <4> QED BY <4>1, <4>2
      <3> QED BY <3>7
    <2> QED BY <2>1, <2>2
  <1>3. parse_processor_cores(buffer) = [i \in CorePlaces(buffer) |-> buffer[i]]
    BY <1>2 DEF parse_processor_cores
  <1>4. \A i \in DOMAIN buffer : buffer[i] \in Records
    OBVIOUS
  <1> QED BY <1>3, <1>4 DEF CorePlaces, Records

\* The processors of group 0 of the cores that no other core surpasses.
FastProcessors(cores) ==
    LET fast == {c \in cores : \A d \in cores : d.class <= c.class}
    IN  UNION {c.cpus : c \in {d \in fast : d.group = 0}}

\* A mask is that of the fast cores, and there are slower ones.
LEMMA MaskIsOfFastCores ==
  ASSUME NEW D, NEW cores \in [D -> CoreRecords], evaluate_topology(cores) # None
  PROVE  LET all == {cores[i] : i \in D}
         IN  /\ evaluate_topology(cores) = FastProcessors(all)
             /\ evaluate_topology(cores) # {}
             /\ {c \in all : \A d \in all : d.class <= c.class} # all
  <1> DEFINE all == {cores[i] : i \in D}
             C == {cores[i].class : i \in D}
             top == MaxClass(cores)
             low == MinClass(cores)
             best == {i \in D : cores[i].class = top /\ cores[i].group = 0}
             fast == {c \in all : \A d \in all : d.class <= c.class}
  <1>1. DOMAIN cores = D /\ top = Max({0} \cup C) /\ low = Min({255} \cup C)
    BY DEF MaxClass, MinClass
  <1>2. C \subseteq 0 .. 255 /\ \A i \in D : cores[i].class \in 0 .. 255
    BY DEF CoreRecords
  <1> HIDE DEF top, low
  <1>3. /\ top > low /\ UNION {cores[i].cpus : i \in best} # {}
        /\ evaluate_topology(cores) = UNION {cores[i].cpus : i \in best}
    BY <1>1 DEF evaluate_topology, top, low
  <1>4. D # {}
    BY <1>3
  <1>5. top \in C /\ low \in C /\ \A x \in C : x <= top
    <2>1. C # {}
      BY <1>4
    <2> HIDE DEF C
    <2> QED BY <1>1, <1>2, <2>1, ClassBounds, ZenonT(60)
  <1>6. top \in 0 .. 255 /\ low \in 0 .. 255
    BY <1>2, <1>5
  <1>7. ASSUME NEW i \in D
        PROVE  cores[i] \in fast <=> cores[i].class = top
    <2>1. PICK j \in D : cores[j].class = top
      BY <1>5
    <2>2. cores[i].class <= top /\ cores[i].class \in 0 .. 255
      BY <1>2, <1>5
    <2>3. cores[i].class = top => cores[i] \in fast
      <3> SUFFICES ASSUME cores[i].class = top, NEW d \in all PROVE d.class <= cores[i].class
        OBVIOUS
      <3> QED BY <1>5
    <2>4. cores[i] \in fast => top <= cores[i].class
      BY <2>1
    <2> DEFINE k == cores[i].class
    <2>5. k <= top /\ k \in 0 .. 255 /\ (cores[i] \in fast => top <= k)
      BY <2>2, <2>4
    <2> HIDE DEF k, fast
    <2>6. cores[i] \in fast => k = top
      BY <1>6, <2>5
    <2> QED BY <2>3, <2>6 DEF k
  <1>8. fast # all
    <2>1. PICK i \in D : cores[i].class = low
      BY <1>5
    <2>2. cores[i].class # top
      BY <1>3, <1>6, <2>1
    <2>3. cores[i] \in all /\ cores[i] \notin fast
      BY <1>7, <2>2
    <2> QED BY <2>3
  <1>9. {cores[i].cpus : i \in best} = {c.cpus : c \in {d \in fast : d.group = 0}}
    <2>1. ASSUME NEW i \in best PROVE cores[i] \in fast /\ cores[i].group = 0
      BY <1>7
    <2>2. ASSUME NEW c \in fast, c.group = 0 PROVE \E i \in best : cores[i] = c
      <3>1. PICK i \in D : cores[i] = c
        OBVIOUS
      <3> QED BY <1>7, <2>2, <3>1
    <2> HIDE DEF best, fast
    <2> QED BY <2>1, <2>2
  <1> QED BY <1>3, <1>8, <1>9 DEF FastProcessors

\* The mask belongs to the records that were read, and the game is pinned while it plays.
PinInv ==
    /\ pc = "idle" => task = "purge"
    /\ pc \in {"prepared", "poll", "tune"} => task = "launch"
    /\ task # "cef" \/ pc = "relaunch" => pinned = None
    /\ firmware \in Seq(Records)
    /\ mask = evaluate_topology(parse_processor_cores(firmware))
    /\ pinned \in {None, mask}

\* Without any record there is no mask.
LEMMA NoRecordsNoMask == evaluate_topology(parse_processor_cores(<< >>)) = None
  <1> DEFINE none == parse_processor_cores(<< >>)
  <1>1. << >> \in Seq(Records) /\ CorePlaces(<< >>) = {}
    BY DEF CorePlaces
  <1>2. none \in [{} -> CoreRecords]
    BY <1>1, WalkFindsCores
  <1> HIDE DEF none
  <1>3. UNION {none[i].cpus : i \in {}} = {}
    OBVIOUS
  <1>4. evaluate_topology(none) # None => evaluate_topology(none) = {}
    BY <1>2 DEF evaluate_topology
  <1>5. evaluate_topology(none) # None => evaluate_topology(none) # {}
    BY <1>2, MaskIsOfFastCores
  <1> QED BY <1>4, <1>5 DEF none

\* Every step keeps it: only a compliant launch reads the topology, and it does so before
\* the game is pinned.
LEMMA PinStep == PinInv /\ [Next]_vars => PinInv'
  <1> SUFFICES ASSUME PinInv, [Next]_vars PROVE PinInv'
    OBVIOUS
  <1> HIDE DEF evaluate_topology, parse_processor_cores
  <1> USE DEF PinInv
  <1>1. CASE PurgeBloatware \/ Visit \/ CloseProcess
    BY <1>1 DEF PurgeBloatware, Visit, CloseProcess, Scan, launchVars
  <1>2. CASE VisitedAll
    BY <1>2 DEF VisitedAll, launchVars
  <1>3. CASE LaunchOptimizedGame
    <2>1. PICK buffer \in Firmware : /\ firmware' = buffer
                                    /\ mask' = evaluate_topology(parse_processor_cores(buffer))
      BY <1>3 DEF LaunchOptimizedGame
    <2>2. buffer \in Seq(Records)
      BY ProcessAssumption
    <2>3. pinned' = None /\ pc' = "visit" /\ task' = "launch"
      BY <1>3 DEF LaunchOptimizedGame, Scan
    <2> QED BY <2>1, <2>2, <2>3
  <1>4. CASE LaunchRefused \/ UNCHANGED vars
    BY <1>4 DEF LaunchRefused, vars, launchVars
  <1>5. CASE LaunchGame \/ GameStarts \/ FindGame
    BY <1>5 DEF LaunchGame, GameStarts, FindGame, launchVars
  <1>6. CASE TuneGame
    BY <1>6 DEF TuneGame, Scan
  <1>7. CASE GameExits
    <2>1. << >> \in Seq(Records)
      OBVIOUS
    <2> QED BY <1>7, <2>1, NoRecordsNoMask DEF GameExits
  <1>8. CASE Relaunch \/ SessionOver
    <2>1. CASE Relaunch
      <3>1. UNCHANGED <<pc, task, launchVars>>
        BY <2>1, Zenon DEF Relaunch
      <3> QED BY <3>1 DEF launchVars
    <2>2. CASE SessionOver
      BY <2>2 DEF SessionOver, launchVars
    <2> QED BY <1>8, <2>1, <2>2
  <1>9. CASE UserStarts \/ UserEnds
    BY <1>9 DEF UserStarts, UserEnds, launchVars
  <1> QED BY <1>1, <1>2, <1>3, <1>4, <1>5, <1>6, <1>7, <1>8, <1>9 DEF Next

\* For every processor the firmware may describe, the game runs on exactly the fastest
\* cores of group 0, and it is pinned only where there are slower ones.
THEOREM GameRunsOnFastCores == Spec => []PinnedToFastCores
  <1>1. Init => PinInv
    <2>1. << >> \in Seq(Records)
      OBVIOUS
    <2> QED BY <2>1, NoRecordsNoMask DEF Init, PinInv
  <1>2. PinInv => PinnedToFastCores
    <2> SUFFICES ASSUME PinInv, pinned # None PROVE PinnedToFastCores
      BY DEF PinnedToFastCores
    <2> DEFINE D == CorePlaces(firmware)
               cores == parse_processor_cores(firmware)
               all == {firmware[i] : i \in D}
    <2>1. firmware \in Seq(Records) /\ pinned = evaluate_topology(cores)
      BY DEF PinInv
    <2>2. cores = [i \in D |-> firmware[i]] /\ \A i \in D : firmware[i] \in CoreRecords
      BY <2>1, WalkFindsCores
    <2> HIDE DEF cores, D
    <2>3. cores \in [D -> CoreRecords] /\ all = {cores[i] : i \in D}
      BY <2>2
    <2> HIDE DEF all
    <2>4. /\ pinned = FastProcessors(all) /\ pinned # {}
          /\ {c \in all : \A d \in all : d.class <= c.class} # all
      BY <2>1, <2>3, MaskIsOfFastCores
    <2>5. D = {j \in DOMAIN firmware : /\ firmware[j].relation = "core"
                                      /\ \A k \in {i \in DOMAIN firmware :
                                              firmware[i].relation = "cut"} : j < k}
      BY DEF D, CorePlaces
    <2> QED BY <2>4, <2>5 DEF PinnedToFastCores, FastProcessors, all
  <1> QED BY <1>1, <1>2, PinStep, PTL DEF Spec

-----------------------------------------------------------------------------
(* Services                                                                *)

\* While resume-services runs, a service that it has handled runs, unless its start call
\* had no effect or a pause has told it to stop since.
ResumeInv ==
    /\ svc \in [Services -> {"running", "stop_pending", "stopped"}]
    /\ "resume" \in command =>
         \A s \in Services \ resuming : svc[s] = "running" \/ s \in asked \cup missed

\* Both commands and the service manager keep it.
LEMMA ResumeStep == ResumeInv /\ [ServiceNext]_serviceVars => ResumeInv'
  <1> SUFFICES ASSUME ResumeInv, [ServiceNext]_serviceVars PROVE ResumeInv'
    OBVIOUS
  <1> USE DEF ResumeInv
  <1>1. CASE PauseServices \/ StopWaited \/ PauseEnds
    BY <1>1 DEF PauseServices, StopWaited, PauseEnds
  <1>2. CASE ResumeServices
    BY <1>2 DEF ResumeServices, ResumeTargets
  <1>3. CASE ResumeEnds
    BY <1>3 DEF ResumeEnds
  <1>4. ASSUME NEW s \in Services, StopService(s) PROVE ResumeInv'
    BY <1>4 DEF StopService
  <1>5. ASSUME NEW s \in Services, ServiceStops(s) PROVE ResumeInv'
    BY <1>5 DEF ServiceStops
  <1>6. ASSUME NEW s \in Services, StartService(s) PROVE ResumeInv'
    BY <1>6 DEF StartService
  <1>7. CASE UNCHANGED serviceVars
    BY <1>7 DEF serviceVars
  <1> QED BY <1>1, <1>2, <1>3, <1>4, <1>5, <1>6, <1>7 DEF ServiceNext

\* However a pause and a resume overlap, the resume ends with every service running whose
\* start call took effect and that no pause has told to stop meanwhile.
THEOREM ResumeIsComplete == ServiceSpec => ResumeReachesEveryService
  <1>1. ServiceInit => ResumeInv
    BY DEF ServiceInit, ResumeInv
  <1>2. ResumeInv => [\A s \in Services :
                        ResumeEnds /\ svc[s] = "stopped" => s \in asked \cup missed]_serviceVars
    BY DEF ResumeInv, ResumeEnds
  <1> QED BY <1>1, <1>2, ResumeStep, PTL DEF ServiceSpec, ResumeReachesEveryService

=============================================================================
