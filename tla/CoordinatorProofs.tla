------------------------- MODULE CoordinatorProofs -------------------------
(***************************************************************************)
(* What is proved of OptimizationCoordinator for every set of actors,      *)
(* endpoints and schemes.                                                  *)
(***************************************************************************)
EXTENDS OptimizationCoordinator, TLAPS

-----------------------------------------------------------------------------
(* Type correctness                                                        *)

\* An actor that restores endpoints only has endpoints to do that its
\* transaction has a backup of; without this a restore could write "none".
BackupsOnly ==
    \A a \in Actors : pc[a] = "restoreAudio" =>
        \A e \in todo[a] : tx[a].audio[e] # "none"

TypeInv == TypeOK /\ BackupsOnly

\* The transaction apply_optimizations starts with has its type.
LEMMA EmptyTxType == EmptyTx \in Transaction
  BY DEF EmptyTx, Transaction

\* Recording one more value keeps the type of a transaction.
LEMMA TxUpdates ==
  ASSUME NEW t \in Transaction
  PROVE  /\ \A g \in {"none", "0", "1"} : [t EXCEPT !.game = g] \in Transaction
         /\ \A p \in Schemes \cup {"none"} :
               [t EXCEPT !.power = p] \in Transaction
         /\ \A e \in Endpoints, d \in Dword \cup {"none"} :
               WithBackup(t, e, d) \in Transaction
  BY DEF Transaction, WithBackup

\* Recording one endpoint changes nothing else in the transaction.
LEMMA AudioUpdate ==
  ASSUME NEW t \in Transaction, NEW e \in Endpoints, NEW d
  PROVE  /\ WithBackup(t, e, d).game = t.game
         /\ WithBackup(t, e, d).power = t.power
         /\ WithBackup(t, e, d).audio[e] = d
         /\ \A x \in Endpoints \ {e} :
               WithBackup(t, e, d).audio[x] = t.audio[x]
  BY DEF Transaction, WithBackup

\* The states of the record file have their type, and so does the record in it.
LEMMA FileTypes ==
  /\ NoFile \in Files /\ Empty \in Files /\ Garbled \in Files
  /\ \A t \in Transaction : Record(t) \in Files
  /\ \A f \in Files : f.tx \in Transaction
  <1>1. NoFile \in Files /\ Empty \in Files /\ Garbled \in Files
    BY DEF Files
  <1>2. ASSUME NEW t \in Transaction PROVE Record(t) \in Files
    BY DEF Files
  <1>3. ASSUME NEW f \in Files PROVE f.tx \in Transaction
    <2>1. CASE f \in {NoFile, Empty, Garbled}
      BY <2>1, EmptyTxType DEF NoFile, Empty, Garbled
    <2>2. CASE \E t \in Transaction : f = Record(t)
      BY <2>2 DEF Record
    <2> QED BY <2>1, <2>2 DEF Files
  <1> QED BY <1>1, <1>2, <1>3

\* The types hold initially.
LEMMA TypeInit == Init => TypeInv
  <1> SUFFICES ASSUME Init PROVE TypeInv
    OBVIOUS
  <1>1. TypeOK
    BY EmptyTxType, FileTypes DEF Init, TypeOK, PCs
  <1>2. BackupsOnly
    BY DEF Init, BackupsOnly
  <1> QED BY <1>1, <1>2 DEF TypeInv

\* Every step keeps the types; a rollback only visits endpoints it has backups of.
LEMMA TypeStep == TypeInv /\ [Next]_vars => TypeInv'
  <1> SUFFICES ASSUME TypeOK, BackupsOnly, [Next]_vars
               PROVE  TypeOK' /\ BackupsOnly'
    BY DEF TypeInv
  <1> USE CoordinatorAssumption DEF TypeOK, BackupsOnly, PCs, ApplyPCs,
          RollbackPCs, settings
  <1>1. ASSUME NEW a \in Actors, StartApply(a) PROVE TypeOK' /\ BackupsOnly'
    <2>1. PICK prev \in {"none", "0", "1"} :
             tx' = [tx EXCEPT ![a] = [EmptyTx EXCEPT !.game = prev]]
      BY <1>1 DEF StartApply, Note, GameState
    <2>2. tx' \in [Actors -> Transaction]
      BY <2>1, EmptyTxType, TxUpdates
    <2> QED BY <1>1, <2>1, <2>2 DEF StartApply, Goto
  <1>2. ASSUME NEW a \in Actors, SetGame(a) PROVE TypeOK' /\ BackupsOnly'
    BY <1>2 DEF SetGame, WriteGameMode, Goto, Dword
  <1>3. ASSUME NEW a \in Actors, SetGameFails(a) PROVE TypeOK' /\ BackupsOnly'
    BY <1>3, EmptyTxType DEF SetGameFails, Note, Goto
  <1>4. ASSUME NEW a \in Actors, QueryPower(a) PROVE TypeOK' /\ BackupsOnly'
    BY <1>4, TxUpdates, ZenonT(60) DEF QueryPower, Note, Goto, EnterAudio
  <1>5. ASSUME NEW a \in Actors, QueryPowerFails(a)
        PROVE  TypeOK' /\ BackupsOnly'
    BY <1>5 DEF QueryPowerFails, EnterAudio, Goto
  <1>6. ASSUME NEW a \in Actors, SetPower(a) PROVE TypeOK' /\ BackupsOnly'
    BY <1>6 DEF SetPower, EnterAudio, Goto
  <1>7. ASSUME NEW a \in Actors, SetPowerFails(a) PROVE TypeOK' /\ BackupsOnly'
    BY <1>7, TxUpdates DEF SetPowerFails, EnterAudio, Goto, Note
  <1>8. ASSUME NEW a \in Actors, QueryEndpoint(a) PROVE TypeOK' /\ BackupsOnly'
    <2>1. PICK e \in Endpoints, prev \in Dword :
             tx' = [tx EXCEPT ![a] = WithBackup(tx[a], e, prev)]
      BY <1>8 DEF QueryEndpoint, Note, Dword
    <2>2. tx' \in [Actors -> Transaction]
      BY <2>1, TxUpdates
    <2> QED BY <1>8, <2>1, <2>2 DEF QueryEndpoint, Goto
  <1>9. ASSUME NEW a \in Actors, SkipEndpoint(a) PROVE TypeOK' /\ BackupsOnly'
    BY <1>9 DEF SkipEndpoint
  <1>10. ASSUME NEW a \in Actors, SetEndpoint(a) PROVE TypeOK' /\ BackupsOnly'
    BY <1>10 DEF SetEndpoint, Goto, Dword, Current
  <1>11. ASSUME NEW a \in Actors, SetEndpointFails(a)
         PROVE  TypeOK' /\ BackupsOnly'
    <2>1. PICK e \in Endpoints :
             /\ tx' = [tx EXCEPT ![a] = WithBackup(tx[a], e, "none")]
             /\ todo' = [todo EXCEPT ![a] = @ \ {e}]
      BY <1>11 DEF SetEndpointFails, Note
    <2>2. tx' \in [Actors -> Transaction]
      BY <2>1, TxUpdates
    <2> QED BY <1>11, <2>1, <2>2 DEF SetEndpointFails, Goto
  <1>12. ASSUME NEW a \in Actors, AudioDone(a) PROVE TypeOK' /\ BackupsOnly'
    BY <1>12 DEF AudioDone, Goto
  <1>13. ASSUME NEW a \in Actors, PersistOpen(a) PROVE TypeOK' /\ BackupsOnly'
    BY <1>13, FileTypes DEF PersistOpen, Goto
  <1>14. ASSUME NEW a \in Actors, PersistFails(a) PROVE TypeOK' /\ BackupsOnly'
    BY <1>14, EmptyTxType DEF PersistFails, Return, Goto, Note
  <1>15. ASSUME NEW a \in Actors, PersistWrite(a) PROVE TypeOK' /\ BackupsOnly'
    <2>1. file' \in Files
      BY <1>15, FileTypes DEF PersistWrite
    <2> QED BY <1>15, <2>1, EmptyTxType DEF PersistWrite, Return, Goto, Note
  <1>16. ASSUME NEW a \in Actors, StartRecover(a) PROVE TypeOK' /\ BackupsOnly'
    BY <1>16 DEF StartRecover, Goto
  <1>17. ASSUME NEW a \in Actors, ReadRecord(a) PROVE TypeOK' /\ BackupsOnly'
    BY <1>17, FileTypes DEF ReadRecord, Goto, Note
  <1>18. ASSUME NEW a \in Actors, ReadRecordFails(a)
         PROVE  TypeOK' /\ BackupsOnly'
    BY <1>18, EmptyTxType DEF ReadRecordFails, Return, Goto, Note
  <1>19. ASSUME NEW a \in Actors, RestoreEndpoint(a)
         PROVE  TypeOK' /\ BackupsOnly'
    <2>1. PICK e \in todo[a] :
             /\ \/ audio' = [audio EXCEPT ![e] = tx[a].audio[e]]
                \/ UNCHANGED audio
             /\ todo' = [todo EXCEPT ![a] = @ \ {e}]
      BY <1>19 DEF RestoreEndpoint
    <2>2. tx[a].audio[e] \in Dword
      BY <1>19, <2>1 DEF RestoreEndpoint, Transaction
    <2> QED BY <1>19, <2>1, <2>2 DEF RestoreEndpoint
  <1>20. ASSUME NEW a \in Actors, RestoreAudioDone(a)
         PROVE  TypeOK' /\ BackupsOnly'
    BY <1>20 DEF RestoreAudioDone, Goto
  <1>21. ASSUME NEW a \in Actors, RestorePower(a) PROVE TypeOK' /\ BackupsOnly'
    <2>1. power' \in Schemes
      BY <1>21 DEF RestorePower, Transaction
    <2> QED BY <1>21, <2>1 DEF RestorePower, Goto
  <1>22. ASSUME NEW a \in Actors, RestoreGame(a) PROVE TypeOK' /\ BackupsOnly'
    <2>1. allow' \in Dword /\ auto' \in Dword
      BY <1>22 DEF RestoreGame, WriteGameMode, Transaction, Dword
    <2> QED BY <1>22, <2>1 DEF RestoreGame, Goto
  <1>23. ASSUME NEW a \in Actors, RemoveRecord(a) PROVE TypeOK' /\ BackupsOnly'
    BY <1>23, EmptyTxType, FileTypes DEF RemoveRecord, Return, Goto, Note
  <1>24. ASSUME NEW dead \in SUBSET Actors, Crash(dead)
         PROVE  TypeOK' /\ BackupsOnly'
    BY <1>24, EmptyTxType DEF Crash
  <1>25. CASE UNCHANGED vars
    BY <1>25 DEF vars
  <1> QED
    BY <1>1, <1>2, <1>3, <1>4, <1>5, <1>6, <1>7, <1>8, <1>9, <1>10, <1>11,
       <1>12, <1>13, <1>14, <1>15, <1>16, <1>17, <1>18, <1>19, <1>20, <1>21,
       <1>22, <1>23, <1>24, <1>25
    DEF Next, ApplyStep, RollbackStep

\* So they hold always.
LEMMA TypeInvariance == Spec => []TypeInv
  <1>1. Init => TypeInv
    BY TypeInit
  <1>2. TypeInv /\ [Next]_vars => TypeInv'
    BY TypeStep
  <1> QED BY <1>1, <1>2, PTL DEF Spec

\* Every reachable state of the coordinator is well typed: no interleaving of
\* applies, recoveries and crashes writes "no backup" into a setting, and no
\* record on disk is anything but a transaction, an empty or a garbled file.
THEOREM TypeCorrect == Spec => []TypeOK
  <1>1. TypeInv => TypeOK
    BY DEF TypeInv
  <1> QED BY <1>1, TypeInvariance, PTL

-----------------------------------------------------------------------------
(* No foreign values, under every interleaving and every failure           *)

\* get_game_mode_state yields a boolean, and reads back what restoring it wrote.
LEMMA GameStateFacts ==
  /\ \A v : GameState(v) \in {"0", "1"}
  /\ \A v : GameState(GameState(v)) = GameState(v)
  BY DEF GameState

\* The user's own settings are not foreign.
LEMMA NativeInit == Init => NativeInv
  BY DEF Init, NativeInv, NoForeignValues, NativeTx, NoFile, EmptyTx

\* No step of anyone brings in a foreign value.
LEMMA NativeStep == TypeInv /\ NativeInv /\ [Next]_vars => NativeInv'
  <1> SUFFICES ASSUME TypeOK, BackupsOnly, NativeInv, [Next]_vars
               PROVE  NativeInv'
    BY DEF TypeInv
  <1> USE DEF NativeInv, NoForeignValues, NativeTx, settings
  <1>1. ASSUME NEW a \in Actors, StartApply(a) PROVE NativeInv'
    <2>1. GameState(allow) \in {GameState(orig.allow), "1"}
      BY DEF GameState
    <2>2. PICK prev \in {GameState(allow), "1"} :
             tx' = [tx EXCEPT ![a] = [EmptyTx EXCEPT !.game = prev]]
      BY <1>1 DEF StartApply, Note
    <2> QED BY <1>1, <2>1, <2>2 DEF StartApply, EmptyTx, TypeOK
  <1>2. ASSUME NEW a \in Actors, SetGame(a) PROVE NativeInv'
    BY <1>2 DEF SetGame, WriteGameMode
  <1>3. ASSUME NEW a \in Actors, SetGameFails(a) PROVE NativeInv'
    BY <1>3 DEF SetGameFails, Note, EmptyTx, TypeOK
  <1>4. ASSUME NEW a \in Actors, QueryPower(a) PROVE NativeInv'
    BY <1>4 DEF QueryPower, Note, TypeOK, Transaction
  <1>5. ASSUME NEW a \in Actors, QueryPowerFails(a) PROVE NativeInv'
    BY <1>5 DEF QueryPowerFails
  <1>6. ASSUME NEW a \in Actors, SetPower(a) PROVE NativeInv'
    BY <1>6 DEF SetPower
  <1>7. ASSUME NEW a \in Actors, SetPowerFails(a) PROVE NativeInv'
    BY <1>7 DEF SetPowerFails, Note, TypeOK, Transaction
  <1>8. ASSUME NEW a \in Actors, QueryEndpoint(a) PROVE NativeInv'
    <2>0. PICK e \in todo[a] : \E prev \in {audio[e], "absent"} :
             tx' = [tx EXCEPT ![a] = WithBackup(tx[a], e, prev)]
      BY <1>8 DEF QueryEndpoint, Note
    <2>1. PICK prev \in {audio[e], "absent"} :
             tx' = [tx EXCEPT ![a] = WithBackup(tx[a], e, prev)]
      BY <2>0
    <2>2. /\ tx[a] \in Transaction
          /\ e \in Endpoints
          /\ tx'[a] = WithBackup(tx[a], e, prev)
          /\ \A b \in Actors \ {a} : tx'[b] = tx[b]
      BY <2>1 DEF TypeOK
    <2>3. /\ tx'[a].game = tx[a].game /\ tx'[a].power = tx[a].power
          /\ tx'[a].audio[e] = prev
          /\ \A x \in Endpoints \ {e} : tx'[a].audio[x] = tx[a].audio[x]
      BY <2>2, AudioUpdate
    <2>4. NativeTx(tx'[a])
      BY <2>1, <2>2, <2>3
    <2> QED BY <1>8, <2>1, <2>2, <2>4 DEF QueryEndpoint
  <1>9. ASSUME NEW a \in Actors, SkipEndpoint(a) PROVE NativeInv'
    BY <1>9 DEF SkipEndpoint
  <1>10. ASSUME NEW a \in Actors, SetEndpoint(a) PROVE NativeInv'
    BY <1>10 DEF SetEndpoint, TypeOK
  <1>11. ASSUME NEW a \in Actors, SetEndpointFails(a) PROVE NativeInv'
    <2>1. PICK e \in Endpoints :
             tx' = [tx EXCEPT ![a] = WithBackup(tx[a], e, "none")]
      BY <1>11 DEF SetEndpointFails, Note
    <2>2. /\ tx[a] \in Transaction
          /\ tx'[a] = WithBackup(tx[a], e, "none")
          /\ \A b \in Actors \ {a} : tx'[b] = tx[b]
      BY <2>1 DEF TypeOK
    <2>3. /\ tx'[a].game = tx[a].game /\ tx'[a].power = tx[a].power
          /\ tx'[a].audio[e] = "none"
          /\ \A x \in Endpoints \ {e} : tx'[a].audio[x] = tx[a].audio[x]
      BY <2>2, AudioUpdate
    <2>4. NativeTx(tx'[a])
      BY <2>1, <2>3
    <2> QED BY <1>11, <2>1, <2>2, <2>4 DEF SetEndpointFails
  <1>12. ASSUME NEW a \in Actors, AudioDone(a) PROVE NativeInv'
    BY <1>12 DEF AudioDone
  <1>13. ASSUME NEW a \in Actors, PersistOpen(a) PROVE NativeInv'
    BY <1>13 DEF PersistOpen, Empty, EmptyTx
  <1>14. ASSUME NEW a \in Actors, PersistFails(a) PROVE NativeInv'
    BY <1>14 DEF PersistFails, Return, Note, EmptyTx, TypeOK
  <1>15. ASSUME NEW a \in Actors, PersistWrite(a) PROVE NativeInv'
    <2>1. file' = file \/ file'.tx = tx[a] \/ file'.tx = EmptyTx
      BY <1>15 DEF PersistWrite, Record, Garbled
    <2> QED BY <1>15, <2>1 DEF PersistWrite, Return, Note, EmptyTx, TypeOK
  <1>16. ASSUME NEW a \in Actors, StartRecover(a) PROVE NativeInv'
    BY <1>16 DEF StartRecover
  <1>17. ASSUME NEW a \in Actors, ReadRecord(a) PROVE NativeInv'
    BY <1>17 DEF ReadRecord, Note, TypeOK
  <1>18. ASSUME NEW a \in Actors, ReadRecordFails(a) PROVE NativeInv'
    BY <1>18 DEF ReadRecordFails, Return, Note, EmptyTx, TypeOK
  <1>19. ASSUME NEW a \in Actors, RestoreEndpoint(a) PROVE NativeInv'
    <2>1. PICK e \in todo[a] :
             \/ audio' = [audio EXCEPT ![e] = tx[a].audio[e]]
             \/ UNCHANGED audio
      BY <1>19 DEF RestoreEndpoint
    <2>2. tx[a].audio[e] # "none" /\ e \in Endpoints
      BY <1>19, <2>1 DEF RestoreEndpoint, BackupsOnly, TypeOK
    <2> QED BY <1>19, <2>1, <2>2 DEF RestoreEndpoint, TypeOK
  <1>20. ASSUME NEW a \in Actors, RestoreAudioDone(a) PROVE NativeInv'
    BY <1>20 DEF RestoreAudioDone
  <1>21. ASSUME NEW a \in Actors, RestorePower(a) PROVE NativeInv'
    BY <1>21 DEF RestorePower
  <1>22. ASSUME NEW a \in Actors, RestoreGame(a) PROVE NativeInv'
    <2>1. /\ allow' \in {allow, tx[a].game} /\ auto' \in {auto, tx[a].game}
          /\ tx[a].game = "none" => allow' = allow /\ auto' = auto
      BY <1>22 DEF RestoreGame, WriteGameMode
    <2> QED BY <1>22, <2>1 DEF RestoreGame
  <1>23. ASSUME NEW a \in Actors, RemoveRecord(a) PROVE NativeInv'
    BY <1>23 DEF RemoveRecord, Return, Note, NoFile, EmptyTx, TypeOK
  <1>24. ASSUME NEW dead \in SUBSET Actors, Crash(dead) PROVE NativeInv'
    BY <1>24 DEF Crash, EmptyTx
  <1>25. CASE UNCHANGED vars
    BY <1>25 DEF vars
  <1> QED
    BY <1>1, <1>2, <1>3, <1>4, <1>5, <1>6, <1>7, <1>8, <1>9, <1>10, <1>11,
       <1>12, <1>13, <1>14, <1>15, <1>16, <1>17, <1>18, <1>19, <1>20, <1>21,
       <1>22, <1>23, <1>24, <1>25
    DEF Next, ApplyStep, RollbackStep

\* Any number of callers, interleaved and dying at will over failing system
\* calls, leave every setting at the user's value, the optimizer's, or the
\* default that stands for an unreadable one: rollback of a stale, foreign or
\* twice-restored record never invents a setting.
THEOREM NoForeignValuesEver == Spec => []NoForeignValues
  <1>1. Init => NativeInv
    BY NativeInit
  <1>2. TypeInv /\ NativeInv /\ [Next]_vars => NativeInv'
    BY NativeStep
  <1>3. NativeInv => NoForeignValues
    BY DEF NativeInv
  <1> QED BY <1>1, <1>2, <1>3, TypeInvariance, PTL DEF Spec

-----------------------------------------------------------------------------
(* Recovery restores the baseline in a safe environment                    *)

\* What a safe environment excludes.
LEMMA SafeFaults ==
  ASSUME SafeEnvironment
  PROVE  /\ "query" \notin Faults /\ "persist" \notin Faults
         /\ "restore" \notin Faults /\ "crashApply" \notin Faults
  BY DEF SafeEnvironment

\* A missing file, an empty one and a record are told apart.
LEMMA FilesDiffer ==
  /\ NoFile # Empty /\ NoFile.kind # "record" /\ Empty.kind # "record"
  /\ \A t : /\ Record(t).kind = "record" /\ Record(t).tx = t
            /\ Record(t) # NoFile /\ Record(t) # Empty
  BY DEF NoFile, Empty, Record

\* The machine starts at the baseline.
LEMMA RecoveryInit == Init => RecoveryInv
  <1> SUFFICES ASSUME Init PROVE RecoveryInv
    OBVIOUS
  <1>1. AtBaseline
    BY DEF Init, AtBaseline
  <1> QED
    BY <1>1, FilesDiffer DEF Init, RecoveryInv, BaselineWhenClean,
       RecordRestoresBaseline, ApplyPCs, RollbackPCs

\* What has to be shown when the applying actor takes a step that leaves it
\* applying and the record as it should be: its own invariant.
LEMMA ApplierMoves ==
  ASSUME TypeOK, RecoveryInv, NEW a \in Actors, pc[a] \in ApplyPCs,
         NEW q \in ApplyPCs, pc' = [pc EXCEPT ![a] = q],
         IF q = "write" THEN file' = Empty /\ a \in open' ELSE file' = NoFile,
         Restores(tx[a])',
         q # "setGame",
         q \in {"queryPower", "setPower"} =>
            (power = orig.power)' /\ (audio = orig.audio)',
         q = "setPower" => tx'[a].power # "none",
         q \in {"audio", "setAudio"} =>
            (\A e \in todo[a] : audio[e] = orig.audio[e])'
  PROVE  RecoveryInv'
  <1>1. \A b \in Actors \ {a} : pc'[b] \in {"idle", "read"}
    BY DEF RecoveryInv, ApplyInv, TypeOK
  <1>2. pc'[a] = q
    BY DEF TypeOK
  <1>3. ApplyInv(a)'
    BY <1>1, <1>2 DEF ApplyInv
  <1>4. \A b \in Actors : pc'[b] \in ApplyPCs => b = a
    BY <1>1 DEF ApplyPCs
  <1>5. \A b \in Actors : pc'[b] \notin RollbackPCs
    BY <1>1, <1>2 DEF RollbackPCs, ApplyPCs
  <1>6. (file = NoFile \/ file = Empty)'
    OBVIOUS
  <1>7. (file = Empty => \E b \in Actors : pc[b] = "write")'
    BY <1>2, FilesDiffer
  <1>8. BaselineWhenClean' /\ RecordRestoresBaseline'
    BY <1>2, <1>6, FilesDiffer
    DEF BaselineWhenClean, RecordRestoresBaseline, Applying
  <1> QED BY <1>3, <1>4, <1>5, <1>6, <1>7, <1>8 DEF RecoveryInv

\* No actor that rolls back can coexist with one that applies.
LEMMA RollbackExcludesApply ==
  ASSUME RecoveryInv, NEW a \in Actors, pc[a] \in RollbackPCs
  PROVE  \A b \in Actors : pc[b] \notin ApplyPCs
  BY DEF RecoveryInv, ApplyInv, RollbackPCs, ApplyPCs

\* A step that moves settings only towards the baseline keeps what every
\* other recovery relies on.
LEMMA RestorerMoves ==
  ASSUME TypeOK, RecoveryInv, TypeOK',
         NEW a \in Actors, \A b \in Actors : pc[b] \notin ApplyPCs,
         pc'[a] \notin ApplyPCs,
         \A b \in Actors \ {a} :
            pc'[b] = pc[b] /\ tx'[b] = tx[b] /\ todo'[b] = todo[b],
         file' = file, orig' = orig,
         GameState(allow') \in {GameState(allow), GameState(orig.allow)},
         power' \in {power, orig.power},
         \A e \in Endpoints : audio'[e] \in {audio[e], orig.audio[e]},
         pc'[a] \in RollbackPCs => RollbackInv(a)'
  PROVE  RecoveryInv'
  <1>1. \A b \in Actors : pc'[b] \notin ApplyPCs
    OBVIOUS
  <1>2. AtBaseline => AtBaseline'
    BY DEF AtBaseline, TypeOK
  <1>4. (audio = orig.audio) => (audio = orig.audio)'
    BY DEF TypeOK
  <1>5. ASSUME NEW b \in Actors \ {a}, pc'[b] \in RollbackPCs
        PROVE  RollbackInv(b)'
    <2>1. RollbackInv(b)
      BY <1>5 DEF RecoveryInv
    <2>2. Restores(tx[b])'
      BY <2>1 DEF RollbackInv, Restores
    <2> QED BY <2>1, <2>2, <1>2, <1>4 DEF RollbackInv
  <1>6. BaselineWhenClean'
    BY <1>1, <1>2 DEF RecoveryInv, BaselineWhenClean, Applying
  <1>7. RecordRestoresBaseline'
    <2>1. file.kind = "record" => Restores(file.tx)
      BY DEF RecoveryInv, RecordRestoresBaseline
    <2> QED BY <2>1 DEF RecordRestoresBaseline, Restores
  <1>8. file # Empty
    BY DEF RecoveryInv, ApplyPCs
  <1> QED BY <1>1, <1>5, <1>6, <1>7, <1>8 DEF RecoveryInv

\* Actors outside an apply come, go or die, and nothing else happens.
LEMMA QuietStep ==
  ASSUME RecoveryInv, NEW S \in SUBSET Actors,
         \A a \in S : pc[a] \notin ApplyPCs /\ pc'[a] \in {"idle", "read"},
         \A b \in Actors \ S :
            /\ pc'[b] = pc[b] /\ tx'[b] = tx[b] /\ todo'[b] = todo[b]
            /\ b \in open => b \in open',
         UNCHANGED <<allow, auto, power, audio, file, orig>>
  PROVE  RecoveryInv'
  <1>1. ASSUME NEW b \in Actors, pc'[b] \in ApplyPCs PROVE ApplyInv(b)'
    <2>1. b \notin S /\ pc[b] \in ApplyPCs
      BY <1>1 DEF ApplyPCs
    <2>2. ApplyInv(b)
      BY <2>1 DEF RecoveryInv
    <2> QED BY <2>1, <2>2 DEF ApplyInv, Restores, AtBaseline
  <1>2. ASSUME NEW b \in Actors, pc'[b] \in RollbackPCs PROVE RollbackInv(b)'
    <2>1. b \notin S /\ pc[b] \in RollbackPCs
      BY <1>2 DEF RollbackPCs
    <2> QED BY <2>1 DEF RecoveryInv, RollbackInv, Restores, AtBaseline
  <1>3. \A b \in Actors : pc[b] \in ApplyPCs => pc'[b] = pc[b]
    OBVIOUS
  <1>4. RecordRestoresBaseline' /\ BaselineWhenClean'
    BY <1>3 DEF RecoveryInv, RecordRestoresBaseline, BaselineWhenClean,
                Restores, AtBaseline, Applying
  <1>5. (file = Empty => \E b \in Actors : pc[b] = "write")'
    BY <1>3 DEF RecoveryInv, ApplyPCs
  <1> QED BY <1>1, <1>2, <1>4, <1>5 DEF RecoveryInv

\* RecoveryInv is inductive in a safe environment.
LEMMA RecoveryStep ==
  ASSUME SafeEnvironment, TypeInv, TypeInv', RecoveryInv, [Next]_vars
  PROVE  RecoveryInv'
  <1> USE CoordinatorAssumption, SafeFaults DEF TypeInv, settings
  <1>0. ASSUME NEW a \in Actors, pc[a] \in ApplyPCs PROVE ApplyInv(a)
    BY <1>0 DEF RecoveryInv
  <1>1. ASSUME NEW a \in Actors, StartApply(a) PROVE RecoveryInv'
    <2>1. /\ \A b \in Actors : pc[b] = "idle"
          /\ file = NoFile
      BY <1>1 DEF StartApply, SafeEnvironment, AllIdle
    <2>2. AtBaseline
      BY <2>1 DEF RecoveryInv, BaselineWhenClean, Applying, ApplyPCs
    <2>3. tx'[a] = [EmptyTx EXCEPT !.game = GameState(allow)]
      BY <1>1 DEF StartApply, Note, TypeOK
    <2>4. Restores(tx[a])' /\ tx'[a].game # "none"
      BY <1>1, <2>2, <2>3, GameStateFacts
      DEF StartApply, Restores, AtBaseline, EmptyTx
    <2>5. pc' = [pc EXCEPT ![a] = "setGame"] /\ file' = NoFile
      BY <1>1, <2>1 DEF StartApply, Goto
    <2>6. AtBaseline'
      BY <1>1, <2>2 DEF StartApply, AtBaseline
    <2>7. ApplyInv(a)'
      BY <2>1, <2>4, <2>5, <2>6 DEF ApplyInv, TypeOK
    <2> QED
      BY <2>1, <2>5, <2>6, <2>7, FilesDiffer
      DEF RecoveryInv, BaselineWhenClean, RecordRestoresBaseline, TypeOK,
          ApplyPCs, RollbackPCs
  <1>2. ASSUME NEW a \in Actors, SetGame(a) PROVE RecoveryInv'
    <2>1. ApplyInv(a) /\ AtBaseline /\ tx' = tx
      BY <1>2, <1>0 DEF SetGame, ApplyInv, ApplyPCs
    <2>2. tx[a].game # "none"
      BY <1>2, <2>1 DEF SetGame, ApplyInv
    <2>3. Restores(tx[a])'
      BY <1>2, <2>1, <2>2 DEF SetGame, ApplyInv, Restores
    <2> QED
      BY <1>2, <2>1, <2>3, ApplierMoves
      DEF SetGame, ApplyInv, Goto, AtBaseline, ApplyPCs
  <1>3. ASSUME NEW a \in Actors, SetGameFails(a) PROVE RecoveryInv'
    <2>1. ApplyInv(a) /\ AtBaseline /\ file = NoFile
      BY <1>3, <1>0 DEF SetGameFails, ApplyInv, ApplyPCs
    <2>2. tx'[a] = EmptyTx /\ pc'[a] = "remove" /\ file' = NoFile
      BY <1>3, <2>1 DEF SetGameFails, Note, Goto, TypeOK
    <2>3. AtBaseline'
      BY <1>3, <2>1 DEF SetGameFails, AtBaseline
    <2>4. RollbackInv(a)'
      BY <2>2, <2>3 DEF RollbackInv, Restores, AtBaseline, EmptyTx
    <2>5. \A b \in Actors \ {a} : pc'[b] \in {"idle", "read"}
      BY <1>3, <2>1 DEF SetGameFails, ApplyInv, Goto, TypeOK
    <2> QED
      BY <2>2, <2>3, <2>4, <2>5, FilesDiffer
      DEF RecoveryInv, BaselineWhenClean, RecordRestoresBaseline,
          ApplyPCs, RollbackPCs
  <1>4. ASSUME NEW a \in Actors, QueryPower(a) PROVE RecoveryInv'
    <2>1. ApplyInv(a) /\ power = orig.power /\ audio = orig.audio
      BY <1>4, <1>0 DEF QueryPower, ApplyInv, ApplyPCs
    <2>2. tx'[a] = [tx[a] EXCEPT !.power = power] /\ tx[a] \in Transaction
      BY <1>4 DEF QueryPower, Note, TypeOK
    <2>3. Restores(tx[a])' /\ tx'[a].power # "none"
      BY <1>4, <2>1, <2>2
      DEF QueryPower, ApplyInv, Restores, Transaction, TypeOK
    <2>4. CASE Laptop /\ EnterAudio(a)
      BY <1>4, <2>1, <2>3, <2>4, ApplierMoves
      DEF QueryPower, ApplyInv, EnterAudio, Goto, ApplyPCs, TypeOK
    <2>5. CASE ~Laptop /\ Goto(a, "setPower")
      BY <1>4, <2>1, <2>3, <2>5, ApplierMoves
      DEF QueryPower, ApplyInv, Goto, ApplyPCs
    <2> QED BY <1>4, <2>4, <2>5 DEF QueryPower
  <1>5. ASSUME NEW a \in Actors, QueryPowerFails(a) PROVE RecoveryInv'
    <2>1. ApplyInv(a) /\ audio = orig.audio
      BY <1>5, <1>0 DEF QueryPowerFails, ApplyInv, ApplyPCs
    <2>2. Restores(tx[a])'
      BY <1>5, <2>1 DEF QueryPowerFails, ApplyInv, Restores
    <2> QED
      BY <1>5, <2>1, <2>2, ApplierMoves
      DEF QueryPowerFails, ApplyInv, EnterAudio, Goto, ApplyPCs, TypeOK
  <1>6. ASSUME NEW a \in Actors, SetPower(a) PROVE RecoveryInv'
    <2>1. ApplyInv(a) /\ audio = orig.audio /\ tx[a].power # "none"
      BY <1>6, <1>0 DEF SetPower, ApplyInv, ApplyPCs
    <2>2. Restores(tx[a])'
      BY <1>6, <2>1 DEF SetPower, ApplyInv, Restores
    <2> QED
      BY <1>6, <2>1, <2>2, ApplierMoves
      DEF SetPower, ApplyInv, EnterAudio, Goto, ApplyPCs, TypeOK
  <1>7. ASSUME NEW a \in Actors, SetPowerFails(a) PROVE RecoveryInv'
    <2>1. ApplyInv(a) /\ audio = orig.audio /\ power = orig.power
      BY <1>7, <1>0 DEF SetPowerFails, ApplyInv, ApplyPCs
    <2>2. tx'[a] = [tx[a] EXCEPT !.power = "none"] /\ tx[a] \in Transaction
      BY <1>7 DEF SetPowerFails, Note, TypeOK
    <2>3. Restores(tx[a])'
      BY <1>7, <2>1, <2>2
      DEF SetPowerFails, ApplyInv, Restores, Transaction
    <2> QED
      BY <1>7, <2>1, <2>3, ApplierMoves
      DEF SetPowerFails, ApplyInv, EnterAudio, Goto, ApplyPCs, TypeOK
  <1>8. ASSUME NEW a \in Actors, QueryEndpoint(a) PROVE RecoveryInv'
    <2>1. ApplyInv(a) /\ \A e \in todo[a] : audio[e] = orig.audio[e]
      BY <1>8, <1>0 DEF QueryEndpoint, ApplyInv, ApplyPCs
    <2>2. PICK e \in todo[a] :
             tx' = [tx EXCEPT ![a] = WithBackup(tx[a], e, audio[e])]
      BY <1>8 DEF QueryEndpoint, Note
    <2>3. /\ tx'[a] = WithBackup(tx[a], e, audio[e])
          /\ tx[a] \in Transaction /\ e \in Endpoints
          /\ audio[e] # "none" /\ audio[e] = orig.audio[e]
      BY <2>1, <2>2 DEF TypeOK, Dword
    <2>4. /\ tx'[a].game = tx[a].game /\ tx'[a].power = tx[a].power
          /\ tx'[a].audio[e] = audio[e]
          /\ \A x \in Endpoints \ {e} : tx'[a].audio[x] = tx[a].audio[x]
      BY <2>3, AudioUpdate
    <2>5. Restores(tx[a])'
      BY <1>8, <2>1, <2>3, <2>4 DEF QueryEndpoint, ApplyInv, Restores
    <2> QED
      BY <1>8, <2>1, <2>5, ApplierMoves
      DEF QueryEndpoint, ApplyInv, Goto, ApplyPCs
  <1>9. ASSUME NEW a \in Actors, SkipEndpoint(a) PROVE RecoveryInv'
    <2>1. ApplyInv(a) /\ \A e \in todo[a] : audio[e] = orig.audio[e]
      BY <1>9, <1>0 DEF SkipEndpoint, ApplyInv, ApplyPCs
    <2>2. Restores(tx[a])'
      BY <1>9, <2>1 DEF SkipEndpoint, ApplyInv, Restores
    <2>3. pc' = [pc EXCEPT ![a] = "audio"] /\ todo'[a] \subseteq todo[a]
      BY <1>9 DEF SkipEndpoint, TypeOK
    <2> QED
      BY <1>9, <2>1, <2>2, <2>3, ApplierMoves
      DEF SkipEndpoint, ApplyInv, ApplyPCs
  <1>10. ASSUME NEW a \in Actors, SetEndpoint(a) PROVE RecoveryInv'
    <2>1. ApplyInv(a) /\ \A e \in todo[a] : audio[e] = orig.audio[e]
      BY <1>10, <1>0 DEF SetEndpoint, ApplyInv, ApplyPCs
    <2>2. PICK e \in Endpoints :
             /\ tx[a].audio[e] # "none"
             /\ audio' = [audio EXCEPT ![e] = "1"]
             /\ todo' = [todo EXCEPT ![a] = @ \ {e}]
      BY <1>10 DEF SetEndpoint, Current
    <2>3. Restores(tx[a])'
      BY <1>10, <2>1, <2>2 DEF SetEndpoint, ApplyInv, Restores, TypeOK
    <2>4. \A x \in todo'[a] : audio'[x] = orig'.audio[x]
      BY <1>10, <2>1, <2>2 DEF SetEndpoint, TypeOK
    <2> QED
      BY <1>10, <2>1, <2>3, <2>4, ApplierMoves
      DEF SetEndpoint, ApplyInv, Goto, ApplyPCs
  <1>11. ASSUME NEW a \in Actors, SetEndpointFails(a) PROVE RecoveryInv'
    <2>1. ApplyInv(a) /\ \A e \in todo[a] : audio[e] = orig.audio[e]
      BY <1>11, <1>0 DEF SetEndpointFails, ApplyInv, ApplyPCs
    <2>2. PICK e \in todo[a] :
             /\ tx' = [tx EXCEPT ![a] = WithBackup(tx[a], e, "none")]
             /\ todo' = [todo EXCEPT ![a] = @ \ {e}]
      BY <1>11 DEF SetEndpointFails, Current, Note
    <2>3. /\ tx'[a] = WithBackup(tx[a], e, "none")
          /\ tx[a] \in Transaction /\ e \in Endpoints
          /\ audio[e] = orig.audio[e]
      BY <2>1, <2>2 DEF TypeOK
    <2>4. /\ tx'[a].game = tx[a].game /\ tx'[a].power = tx[a].power
          /\ tx'[a].audio[e] = "none"
          /\ \A x \in Endpoints \ {e} : tx'[a].audio[x] = tx[a].audio[x]
      BY <2>3, AudioUpdate
    <2>5. Restores(tx[a])'
      BY <1>11, <2>1, <2>3, <2>4 DEF SetEndpointFails, ApplyInv, Restores
    <2>6. \A x \in todo'[a] : audio'[x] = orig'.audio[x]
      BY <1>11, <2>1, <2>2 DEF SetEndpointFails, TypeOK
    <2> QED
      BY <1>11, <2>1, <2>5, <2>6, ApplierMoves
      DEF SetEndpointFails, ApplyInv, Goto, ApplyPCs
  <1>12. ASSUME NEW a \in Actors, AudioDone(a) PROVE RecoveryInv'
    <2>1. ApplyInv(a)
      BY <1>12, <1>0 DEF AudioDone, ApplyPCs
    <2>2. Restores(tx[a])'
      BY <1>12, <2>1 DEF AudioDone, ApplyInv, Restores
    <2> QED
      BY <1>12, <2>1, <2>2, ApplierMoves
      DEF AudioDone, ApplyInv, Goto, ApplyPCs
  <1>13. ASSUME NEW a \in Actors, PersistOpen(a) PROVE RecoveryInv'
    <2>1. ApplyInv(a)
      BY <1>13, <1>0 DEF PersistOpen, ApplyPCs
    <2>2. Restores(tx[a])'
      BY <1>13, <2>1 DEF PersistOpen, ApplyInv, Restores
    <2> QED
      BY <1>13, <2>2, ApplierMoves DEF PersistOpen, Goto, ApplyPCs
  <1>14. ASSUME NEW a \in Actors, PersistFails(a) PROVE RecoveryInv'
    BY <1>14 DEF PersistFails
  <1>15. ASSUME NEW a \in Actors, PersistWrite(a) PROVE RecoveryInv'
    <2>1. ApplyInv(a) /\ file = Empty /\ a \in open
      BY <1>15, <1>0 DEF PersistWrite, ApplyInv, ApplyPCs
    <2>2. file' = Record(tx[a])
      BY <1>15, <2>1 DEF PersistWrite
    <2>3. \A b \in Actors : pc'[b] \in {"idle", "read"}
      BY <1>15, <2>1 DEF PersistWrite, ApplyInv, Return, Goto, TypeOK
    <2>4. RecordRestoresBaseline'
      BY <1>15, <2>1, <2>2, FilesDiffer
      DEF PersistWrite, ApplyInv, RecordRestoresBaseline, Restores
    <2> QED
      BY <2>2, <2>3, <2>4, FilesDiffer
      DEF RecoveryInv, BaselineWhenClean, ApplyPCs, RollbackPCs
  <1>16. ASSUME NEW a \in Actors, StartRecover(a) PROVE RecoveryInv'
    <2>1. /\ pc'[a] = "read" /\ pc[a] = "idle"
          /\ \A b \in Actors \ {a} :
                pc'[b] = pc[b] /\ tx'[b] = tx[b] /\ todo'[b] = todo[b]
          /\ UNCHANGED <<allow, auto, power, audio, file, open, orig>>
      BY <1>16 DEF StartRecover, Goto, TypeOK
    <2> DEFINE S == {a}
    <2>2. /\ \A x \in S : pc[x] \notin ApplyPCs /\ pc'[x] \in {"idle", "read"}
          /\ \A b \in Actors \ S :
                /\ pc'[b] = pc[b] /\ tx'[b] = tx[b] /\ todo'[b] = todo[b]
                /\ b \in open => b \in open'
      BY <2>1 DEF ApplyPCs
    <2>3. S \in SUBSET Actors
      OBVIOUS
    <2> HIDE DEF S
    <2> QED BY <2>1, <2>2, <2>3, QuietStep
  <1>17. ASSUME NEW a \in Actors, ReadRecord(a) PROVE RecoveryInv'
    <2>1. \A b \in Actors : pc[b] \notin ApplyPCs
      BY <1>17, <1>0, FilesDiffer DEF ReadRecord, ApplyInv
    <2>2. /\ tx'[a] = file.tx /\ pc'[a] = "restoreAudio"
          /\ todo'[a] = {e \in Endpoints : file.tx.audio[e] # "none"}
          /\ \A b \in Actors \ {a} :
                pc'[b] = pc[b] /\ tx'[b] = tx[b] /\ todo'[b] = todo[b]
          /\ UNCHANGED <<allow, auto, power, audio, file, orig>>
      BY <1>17 DEF ReadRecord, Note, Goto, TypeOK
    <2>3. Restores(file.tx)
      BY <1>17 DEF ReadRecord, RecoveryInv, RecordRestoresBaseline
    <2>4. RollbackInv(a)'
      BY <2>2, <2>3 DEF RollbackInv, Restores
    <2> QED BY <2>1, <2>2, <2>4, RestorerMoves DEF ApplyPCs
  <1>18. ASSUME NEW a \in Actors, ReadRecordFails(a) PROVE RecoveryInv'
    <2>1. /\ pc'[a] = "idle" /\ pc[a] = "read"
          /\ \A b \in Actors \ {a} :
                pc'[b] = pc[b] /\ tx'[b] = tx[b] /\ todo'[b] = todo[b]
          /\ UNCHANGED <<allow, auto, power, audio, file, open, orig>>
      BY <1>18 DEF ReadRecordFails, Return, Goto, Note, TypeOK
    <2> DEFINE S == {a}
    <2>2. /\ \A x \in S : pc[x] \notin ApplyPCs /\ pc'[x] \in {"idle", "read"}
          /\ \A b \in Actors \ S :
                /\ pc'[b] = pc[b] /\ tx'[b] = tx[b] /\ todo'[b] = todo[b]
                /\ b \in open => b \in open'
      BY <2>1 DEF ApplyPCs
    <2>3. S \in SUBSET Actors
      OBVIOUS
    <2> HIDE DEF S
    <2> QED BY <2>1, <2>2, <2>3, QuietStep
  <1>19. ASSUME NEW a \in Actors, RestoreEndpoint(a) PROVE RecoveryInv'
    <2>1. /\ RollbackInv(a) /\ pc[a] = "restoreAudio" /\ pc' = pc /\ tx' = tx
          /\ UNCHANGED <<allow, auto, power, file, orig>>
      BY <1>19 DEF RestoreEndpoint, RecoveryInv, RollbackPCs
    <2>2. PICK e \in todo[a] :
             /\ audio' = [audio EXCEPT ![e] = tx[a].audio[e]]
             /\ todo' = [todo EXCEPT ![a] = @ \ {e}]
      BY <1>19 DEF RestoreEndpoint
    <2>3. e \in Endpoints /\ tx[a].audio[e] = orig.audio[e]
      BY <2>1, <2>2 DEF RollbackInv, Restores, BackupsOnly, TypeOK
    <2>4. \A x \in Endpoints :
             audio'[x] = IF x = e THEN orig.audio[e] ELSE audio[x]
      BY <2>2, <2>3 DEF TypeOK
    <2>5. RollbackInv(a)'
      <3>1. Restores(tx[a])'
        BY <2>1, <2>4 DEF RollbackInv, Restores
      <3>2. \A x \in Endpoints \ todo'[a] : audio'[x] = orig'.audio[x]
        BY <2>1, <2>2, <2>4 DEF RollbackInv, TypeOK
      <3> QED BY <2>1, <3>1, <3>2 DEF RollbackInv
    <2>6. \A b \in Actors : pc[b] \notin ApplyPCs
      BY <2>1, RollbackExcludesApply DEF RollbackPCs
    <2>7. \A b \in Actors \ {a} : todo'[b] = todo[b]
      BY <2>2 DEF TypeOK
    <2> QED BY <2>1, <2>4, <2>5, <2>6, <2>7, RestorerMoves
  <1>20. ASSUME NEW a \in Actors, RestoreAudioDone(a) PROVE RecoveryInv'
    <2>1. /\ RollbackInv(a) /\ pc[a] = "restoreAudio" /\ todo[a] = {}
          /\ pc'[a] = "restorePower" /\ tx' = tx /\ todo' = todo
          /\ \A b \in Actors \ {a} : pc'[b] = pc[b]
          /\ UNCHANGED <<allow, auto, power, audio, file, orig>>
      BY <1>20 DEF RestoreAudioDone, Goto, RecoveryInv, RollbackPCs, TypeOK
    <2>2. audio = orig.audio
      BY <2>1 DEF RollbackInv, TypeOK
    <2>3. RollbackInv(a)'
      BY <2>1, <2>2 DEF RollbackInv, Restores
    <2>4. \A b \in Actors : pc[b] \notin ApplyPCs
      BY <2>1, RollbackExcludesApply DEF RollbackPCs
    <2> QED BY <2>1, <2>3, <2>4, RestorerMoves DEF ApplyPCs
  <1>21. ASSUME NEW a \in Actors, RestorePower(a) PROVE RecoveryInv'
    <2>1. /\ RollbackInv(a) /\ pc[a] = "restorePower"
          /\ pc'[a] = "restoreGame" /\ tx' = tx /\ todo' = todo
          /\ \A b \in Actors \ {a} : pc'[b] = pc[b]
          /\ UNCHANGED <<allow, auto, audio, file, orig>>
      BY <1>21 DEF RestorePower, Goto, RecoveryInv, RollbackPCs, TypeOK
    <2>2. power' = orig.power
      BY <1>21, <2>1 DEF RestorePower, RollbackInv, Restores
    <2>3. RollbackInv(a)'
      BY <2>1, <2>2 DEF RollbackInv, Restores
    <2>4. \A b \in Actors : pc[b] \notin ApplyPCs
      BY <2>1, RollbackExcludesApply DEF RollbackPCs
    <2> QED BY <2>1, <2>2, <2>3, <2>4, RestorerMoves DEF ApplyPCs
  <1>22. ASSUME NEW a \in Actors, RestoreGame(a) PROVE RecoveryInv'
    <2>1. /\ RollbackInv(a) /\ pc[a] = "restoreGame"
          /\ pc'[a] = "remove" /\ tx' = tx /\ todo' = todo
          /\ \A b \in Actors \ {a} : pc'[b] = pc[b]
          /\ UNCHANGED <<power, audio, file, orig>>
      BY <1>22 DEF RestoreGame, Goto, RecoveryInv, RollbackPCs, TypeOK
    <2>2. IF tx[a].game = "none" THEN allow' = allow ELSE allow' = tx[a].game
      BY <1>22 DEF RestoreGame, WriteGameMode, GameValues
    <2>3. GameState(allow') = GameState(orig.allow)
      BY <2>1, <2>2, GameStateFacts DEF RollbackInv, Restores
    <2>4. AtBaseline'
      BY <2>1, <2>3 DEF RollbackInv, AtBaseline
    <2>5. RollbackInv(a)'
      BY <2>1, <2>3, <2>4 DEF RollbackInv, Restores
    <2>6. \A b \in Actors : pc[b] \notin ApplyPCs
      BY <2>1, RollbackExcludesApply DEF RollbackPCs
    <2> QED BY <2>1, <2>3, <2>5, <2>6, RestorerMoves DEF ApplyPCs
  <1>23. ASSUME NEW a \in Actors, RemoveRecord(a) PROVE RecoveryInv'
    <2>1. /\ RollbackInv(a) /\ pc[a] = "remove" /\ pc'[a] = "idle"
          /\ \A b \in Actors \ {a} :
                pc'[b] = pc[b] /\ tx'[b] = tx[b] /\ todo'[b] = todo[b]
          /\ UNCHANGED <<allow, auto, power, audio, orig>>
      BY <1>23 DEF RemoveRecord, Return, Note, Goto, RecoveryInv, RollbackPCs,
                   TypeOK
    <2>2. AtBaseline'
      BY <2>1 DEF RollbackInv, AtBaseline
    <2>3. \A b \in Actors : pc'[b] \notin ApplyPCs
      BY <2>1, RollbackExcludesApply DEF RollbackPCs, ApplyPCs
    <2>4. ASSUME NEW b \in Actors, pc'[b] \in RollbackPCs
          PROVE  RollbackInv(b)'
      <3>1. b # a /\ pc[b] \in RollbackPCs
        BY <2>1, <2>4 DEF RollbackPCs
      <3> QED
        BY <2>1, <3>1 DEF RecoveryInv, RollbackInv, Restores, AtBaseline
    <2>5. file' = NoFile \/ file' = file
      BY <1>23 DEF RemoveRecord
    <2>6. file # Empty
      BY <2>1, RollbackExcludesApply DEF RecoveryInv, RollbackPCs, ApplyPCs
    <2>7. RecordRestoresBaseline' /\ BaselineWhenClean'
      BY <2>1, <2>2, <2>5, FilesDiffer
      DEF RecoveryInv, RecordRestoresBaseline, BaselineWhenClean, Restores
    <2> QED BY <2>3, <2>4, <2>5, <2>6, <2>7, FilesDiffer DEF RecoveryInv
  <1>24. ASSUME NEW dead \in SUBSET Actors, Crash(dead) PROVE RecoveryInv'
    <2>1. /\ \A a \in dead :
                pc[a] \notin ApplyPCs /\ pc'[a] \in {"idle", "read"}
          /\ \A b \in Actors \ dead :
                /\ pc'[b] = pc[b] /\ tx'[b] = tx[b] /\ todo'[b] = todo[b]
                /\ b \in open => b \in open'
          /\ UNCHANGED <<allow, auto, power, audio, file, orig>>
      BY <1>24 DEF Crash
    <2> QED BY <2>1, QuietStep
  <1>25. CASE UNCHANGED vars
    <2> DEFINE S == {}
    <2>1. /\ \A x \in S : pc[x] \notin ApplyPCs /\ pc'[x] \in {"idle", "read"}
          /\ \A b \in Actors \ S :
                /\ pc'[b] = pc[b] /\ tx'[b] = tx[b] /\ todo'[b] = todo[b]
                /\ b \in open => b \in open'
      BY <1>25 DEF vars
    <2>2. S \in SUBSET Actors
      OBVIOUS
    <2> HIDE DEF S
    <2> QED BY <1>25, <2>1, <2>2, QuietStep DEF vars
  <1> QED
    BY <1>1, <1>2, <1>3, <1>4, <1>5, <1>6, <1>7, <1>8, <1>9, <1>10, <1>11,
       <1>12, <1>13, <1>14, <1>15, <1>16, <1>17, <1>18, <1>19, <1>20, <1>21,
       <1>22, <1>23, <1>24, <1>25
    DEF Next, ApplyStep, RollbackStep

\* So it holds always there.
LEMMA RecoveryInvariance == SafeEnvironment => (Spec => []RecoveryInv)
  <1> SUFFICES ASSUME SafeEnvironment PROVE Spec => []RecoveryInv
    OBVIOUS
  <1>1. Init => RecoveryInv
    BY RecoveryInit
  <1>2. TypeInv /\ TypeInv' /\ RecoveryInv /\ [Next]_vars => RecoveryInv'
    BY RecoveryStep
  <1> QED BY <1>1, <1>2, TypeInvariance, PTL DEF Spec

\* In a safe environment, once no record is left and nobody applies, every
\* setting is the user's again: whichever apply steps failed, however many
\* callers rolled the same record back at once, wherever they died.
THEOREM RollbackRestoresBaseline ==
  SafeEnvironment => (Spec => []BaselineWhenClean)
  <1>1. RecoveryInv => BaselineWhenClean
    BY DEF RecoveryInv
  <1> QED BY <1>1, RecoveryInvariance, PTL

\* In a safe environment the record on disk always suffices to return to the
\* baseline from the present, possibly half-restored, settings, so that
\* recover_orphaned_transaction may be interrupted and repeated.
THEOREM RecoveryIsRepeatable ==
  SafeEnvironment => (Spec => []RecordRestoresBaseline)
  <1>1. RecoveryInv => RecordRestoresBaseline
    BY DEF RecoveryInv
  <1> QED BY <1>1, RecoveryInvariance, PTL

-----------------------------------------------------------------------------
(* Refinement: the coordinator implements SettingsTransaction              *)

\* The names of the settings are different names.
LEMMA NamesDiffer ==
  /\ Game # Power
  /\ \A e : Audio(e) # Game /\ Audio(e) # Power
  /\ \A e, f : Audio(e) = Audio(f) => e = f
  BY DEF Game, Power, Audio

\* What it means that a setting is changed.
LEMMA ChangedMeans ==
  \A s : s \in Changed <=>
      \/ s = Game /\ GameState(allow) # GameState(orig.allow)
      \/ s = Power /\ power # orig.power
      \/ \E e \in Endpoints : s = Audio(e) /\ audio[e] # orig.audio[e]
  BY DEF Changed

\* The same of the next state.
LEMMA ChangedMeansNext ==
  \A s : s \in Changed' <=>
      \/ s = Game /\ GameState(allow') # GameState(orig'.allow)
      \/ s = Power /\ power' # orig'.power
      \/ \E e \in Endpoints : s = Audio(e) /\ audio'[e] # orig'.audio[e]
  BY DEF Changed

\* Nothing is changed exactly at the baseline.
LEMMA NothingChanged == AtBaseline => Changed = {}
  BY ChangedMeans DEF AtBaseline

\* A step that leaves the settings alone changes none of them.
LEMMA SettingsStay ==
  ASSUME UNCHANGED <<allow, power, audio, orig>>
  PROVE  Changed' = Changed
  BY ChangedMeans, ChangedMeansNext

\* A step that writes Game Mode changes or restores no other setting.
LEMMA GameMoves ==
  ASSUME UNCHANGED <<power, audio, orig>>
  PROVE  /\ GameState(allow) = GameState(orig.allow) =>
              \/ Changed' = Changed
              \/ Game \notin Changed /\ Changed' = Changed \cup {Game}
         /\ GameState(allow') = GameState(orig.allow) =>
              \/ Changed' = Changed
              \/ Game \in Changed /\ Changed' = Changed \ {Game}
  BY ChangedMeans, ChangedMeansNext, NamesDiffer

\* The same for the power scheme.
LEMMA PowerMoves ==
  ASSUME UNCHANGED <<allow, audio, orig>>
  PROVE  /\ power = orig.power =>
              \/ Changed' = Changed
              \/ Power \notin Changed /\ Changed' = Changed \cup {Power}
         /\ power' = orig.power =>
              \/ Changed' = Changed
              \/ Power \in Changed /\ Changed' = Changed \ {Power}
  BY ChangedMeans, ChangedMeansNext, NamesDiffer

\* The same for one endpoint.
LEMMA AudioMoves ==
  ASSUME UNCHANGED <<allow, power, orig>>, NEW e \in Endpoints,
         \A x \in Endpoints \ {e} : audio'[x] = audio[x]
  PROVE  /\ audio[e] = orig.audio[e] =>
              \/ Changed' = Changed
              \/ Audio(e) \notin Changed /\ Changed' = Changed \cup {Audio(e)}
         /\ audio'[e] = orig.audio[e] =>
              \/ Changed' = Changed
              \/ Audio(e) \in Changed /\ Changed' = Changed \ {Audio(e)}
  BY ChangedMeans, ChangedMeansNext, NamesDiffer

\* An untouched machine is a clean transaction.
LEMMA MappedInit == Init => Promise!Init
  <1> SUFFICES ASSUME Init PROVE Phase = "clean" /\ Changed = {}
    BY DEF Promise!Init
  <1>1. Phase = "clean"
    BY DEF Init, Phase, Applying, ApplyPCs
  <1>2. AtBaseline
    BY DEF Init, AtBaseline
  <1> QED BY <1>1, <1>2, NothingChanged

\* What the abstract state says of the phase, by who is under way.
LEMMA PhaseIs ==
  /\ (\E a \in Actors : pc[a] \in ApplyPCs) => Phase = "changing"
  /\ (\A a \in Actors : pc[a] \notin ApplyPCs) =>
        Phase = IF file = NoFile THEN "clean" ELSE "undoable"
  BY DEF Phase, Applying

\* The same of the next state.
LEMMA PhaseIsNext ==
  /\ (\E a \in Actors : pc'[a] \in ApplyPCs) => Phase' = "changing"
  /\ (\A a \in Actors : pc'[a] \notin ApplyPCs) =>
        Phase' = IF file' = NoFile THEN "clean" ELSE "undoable"
  BY DEF Phase, Applying

\* A caller that stays inside its apply keeps the transaction open.
LEMMA StillChanging ==
  ASSUME TypeOK, NEW a \in Actors, pc[a] \in ApplyPCs, pc'[a] \in ApplyPCs
  PROVE  Phase = "changing" /\ Phase' = "changing"
  BY PhaseIs, PhaseIsNext

\* A recovery that goes on without touching the record keeps the phase.
LEMMA StillRestoring ==
  ASSUME TypeOK, RecoveryInv, NEW a \in Actors, pc[a] \in RollbackPCs,
         NEW q \in RollbackPCs, pc' = [pc EXCEPT ![a] = q], file' = file
  PROVE  /\ Phase = IF file = NoFile THEN "clean" ELSE "undoable"
         /\ Phase' = Phase
  <1>1. \A b \in Actors : pc[b] \notin ApplyPCs
    BY RollbackExcludesApply
  <1>2. \A b \in Actors : pc'[b] \notin ApplyPCs
    BY <1>1 DEF RollbackPCs, ApplyPCs, TypeOK
  <1> QED BY <1>1, <1>2, PhaseIs, PhaseIsNext

\* While a recovery runs without a record, there is nothing left to undo.
LEMMA CleanRestoring ==
  ASSUME RecoveryInv, NEW a \in Actors, pc[a] \in RollbackPCs, file = NoFile
  PROVE  Changed = {}
  BY RollbackExcludesApply, NothingChanged DEF RecoveryInv, BaselineWhenClean, Applying

\* Every step of the coordinator is a step of the transaction or changes nothing
\* that the transaction shows.
LEMMA MappedStep ==
  ASSUME SafeEnvironment, TypeInv, RecoveryInv, [Next]_vars
  PROVE  [Promise!Next]_<<Phase, Changed>>
  <1> DEFINE Step == [Promise!Next]_<<Phase, Changed>>
  <1> USE CoordinatorAssumption, SafeFaults DEF TypeInv, settings
  <1>0. ASSUME NEW a \in Actors, pc[a] \in ApplyPCs PROVE ApplyInv(a)
    BY <1>0 DEF RecoveryInv
  <1>a. ASSUME NEW a \in Actors, pc[a] \in ApplyPCs, pc'[a] \in ApplyPCs,
               UNCHANGED <<allow, power, audio, orig>>
        PROVE  Step
    BY <1>a, StillChanging, SettingsStay
  <1>b. ASSUME \A b \in Actors : pc[b] \in ApplyPCs <=> pc'[b] \in ApplyPCs,
               UNCHANGED <<allow, power, audio, file, orig>>
        PROVE  Step
    <2>1. Phase' = Phase
      BY <1>b, PhaseIs, PhaseIsNext
    <2> QED BY <1>b, <2>1, SettingsStay
  <1>1. ASSUME NEW a \in Actors, StartApply(a) PROVE Step
    <2>1. (\A b \in Actors : pc[b] = "idle") /\ file = NoFile
      BY <1>1 DEF StartApply, SafeEnvironment, AllIdle
    <2>2. Phase = "clean"
      BY <2>1, PhaseIs DEF ApplyPCs
    <2>3. Phase' = "changing"
      BY <1>1, PhaseIsNext DEF StartApply, Goto, ApplyPCs, TypeOK
    <2>4. Changed' = Changed
      BY <1>1, SettingsStay DEF StartApply
    <2> QED BY <2>2, <2>3, <2>4 DEF Promise!Next, Promise!Begin
  <1>2. ASSUME NEW a \in Actors, SetGame(a) PROVE Step
    <2>1. GameState(allow) = GameState(orig.allow)
      BY <1>2, <1>0 DEF SetGame, ApplyInv, AtBaseline, ApplyPCs
    <2>2. Phase = "changing" /\ Phase' = "changing"
      BY <1>2, StillChanging DEF SetGame, Goto, ApplyPCs, TypeOK
    <2>3. \/ Changed' = Changed
          \/ Game \notin Changed /\ Changed' = Changed \cup {Game}
      BY <1>2, <2>1, GameMoves DEF SetGame
    <2> QED BY <2>2, <2>3 DEF Promise!Next, Promise!Change
  <1>3. ASSUME NEW a \in Actors, SetGameFails(a) PROVE Step
    <2>1. AtBaseline /\ (\A b \in Actors \ {a} : pc[b] \in {"idle", "read"}) /\ file = NoFile
      BY <1>3, <1>0 DEF SetGameFails, ApplyInv, ApplyPCs
    <2>2. Phase = "changing"
      BY <1>3, PhaseIs DEF SetGameFails, ApplyPCs
    <2>3. Phase' = "clean"
      BY <1>3, <2>1, PhaseIsNext DEF SetGameFails, Goto, ApplyPCs, TypeOK
    <2>4. Changed = {} /\ Changed' = Changed
      BY <1>3, <2>1, NothingChanged, SettingsStay DEF SetGameFails
    <2> QED BY <2>2, <2>3, <2>4 DEF Promise!Next, Promise!Abort
  <1>4. ASSUME NEW a \in Actors, QueryPower(a) PROVE Step
    BY <1>4, <1>a DEF QueryPower, EnterAudio, Goto, ApplyPCs, TypeOK
  <1>5. ASSUME NEW a \in Actors, QueryPowerFails(a) PROVE Step
    BY <1>5, <1>a DEF QueryPowerFails, EnterAudio, Goto, ApplyPCs, TypeOK
  <1>6. ASSUME NEW a \in Actors, SetPower(a) PROVE Step
    <2>1. power = orig.power
      BY <1>6, <1>0 DEF SetPower, ApplyInv, ApplyPCs
    <2>2. Phase = "changing" /\ Phase' = "changing"
      BY <1>6, StillChanging DEF SetPower, EnterAudio, Goto, ApplyPCs, TypeOK
    <2>3. \/ Changed' = Changed
          \/ Power \notin Changed /\ Changed' = Changed \cup {Power}
      BY <1>6, <2>1, PowerMoves DEF SetPower
    <2> QED BY <2>2, <2>3 DEF Promise!Next, Promise!Change
  <1>7. ASSUME NEW a \in Actors, SetPowerFails(a) PROVE Step
    BY <1>7, <1>a DEF SetPowerFails, EnterAudio, Goto, ApplyPCs, TypeOK
  <1>8. ASSUME NEW a \in Actors, QueryEndpoint(a) PROVE Step
    BY <1>8, <1>a DEF QueryEndpoint, Goto, ApplyPCs, TypeOK
  <1>9. ASSUME NEW a \in Actors, SkipEndpoint(a) PROVE Step
    BY <1>9, <1>a DEF SkipEndpoint, ApplyPCs
  <1>10. ASSUME NEW a \in Actors, SetEndpoint(a) PROVE Step
    <2>1. \A e \in todo[a] : audio[e] = orig.audio[e]
      BY <1>10, <1>0 DEF SetEndpoint, ApplyInv, ApplyPCs
    <2>2. PICK e \in Endpoints : e \in todo[a] /\ audio' = [audio EXCEPT ![e] = "1"]
      BY <1>10 DEF SetEndpoint, Current
    <2>3. \A x \in Endpoints \ {e} : audio'[x] = audio[x]
      BY <2>2 DEF TypeOK
    <2>4. Phase = "changing" /\ Phase' = "changing"
      BY <1>10, StillChanging DEF SetEndpoint, Goto, ApplyPCs, TypeOK
    <2>5. \/ Changed' = Changed
          \/ Audio(e) \notin Changed /\ Changed' = Changed \cup {Audio(e)}
      BY <1>10, <2>1, <2>2, <2>3, AudioMoves DEF SetEndpoint
    <2> QED BY <2>4, <2>5 DEF Promise!Next, Promise!Change
  <1>11. ASSUME NEW a \in Actors, SetEndpointFails(a) PROVE Step
    BY <1>11, <1>a DEF SetEndpointFails, Goto, ApplyPCs, TypeOK
  <1>12. ASSUME NEW a \in Actors, AudioDone(a) PROVE Step
    BY <1>12, <1>a DEF AudioDone, Goto, ApplyPCs, TypeOK
  <1>13. ASSUME NEW a \in Actors, PersistOpen(a) PROVE Step
    BY <1>13, <1>a DEF PersistOpen, Goto, ApplyPCs, TypeOK
  <1>14. ASSUME NEW a \in Actors, PersistFails(a) PROVE Step
    BY <1>14 DEF PersistFails
  <1>15. ASSUME NEW a \in Actors, PersistWrite(a) PROVE Step
    <2>1. /\ file = Empty /\ a \in open
          /\ \A b \in Actors \ {a} : pc[b] \in {"idle", "read"}
      BY <1>15, <1>0 DEF PersistWrite, ApplyInv, ApplyPCs
    <2>2. file' # NoFile
      BY <1>15, <2>1, FilesDiffer DEF PersistWrite
    <2>3. Phase = "changing"
      BY <1>15, PhaseIs DEF PersistWrite, ApplyPCs
    <2>4. Phase' = "undoable"
      BY <1>15, <2>1, <2>2, PhaseIsNext DEF PersistWrite, Return, Goto, ApplyPCs, TypeOK
    <2>5. Changed' = Changed
      BY <1>15, SettingsStay DEF PersistWrite
    <2> QED BY <2>3, <2>4, <2>5 DEF Promise!Next, Promise!Commit
  <1>16. ASSUME NEW a \in Actors, StartRecover(a) PROVE Step
    BY <1>16, <1>b DEF StartRecover, Goto, ApplyPCs, TypeOK
  <1>17. ASSUME NEW a \in Actors, ReadRecord(a) PROVE Step
    BY <1>17, <1>b DEF ReadRecord, Goto, ApplyPCs, TypeOK
  <1>18. ASSUME NEW a \in Actors, ReadRecordFails(a) PROVE Step
    BY <1>18, <1>b DEF ReadRecordFails, Return, Goto, ApplyPCs, TypeOK
  <1>19. ASSUME NEW a \in Actors, RestoreEndpoint(a) PROVE Step
    <2>1. /\ RollbackInv(a) /\ pc[a] = "restoreAudio" /\ pc' = pc
          /\ UNCHANGED <<allow, power, file, orig>>
      BY <1>19 DEF RestoreEndpoint, RecoveryInv, RollbackPCs
    <2>2. PICK e \in todo[a] : audio' = [audio EXCEPT ![e] = tx[a].audio[e]]
      BY <1>19 DEF RestoreEndpoint
    <2>3. e \in Endpoints /\ tx[a].audio[e] = orig.audio[e]
      BY <2>1, <2>2 DEF RollbackInv, Restores, BackupsOnly, TypeOK
    <2>4. \/ Changed' = Changed
          \/ Audio(e) \in Changed /\ Changed' = Changed \ {Audio(e)}
      BY <2>1, <2>2, <2>3, AudioMoves DEF TypeOK
    <2>5. pc' = [pc EXCEPT ![a] = "restoreAudio"]
      BY <2>1 DEF TypeOK
    <2>6. Phase' = Phase /\ Phase = IF file = NoFile THEN "clean" ELSE "undoable"
      BY <2>1, <2>5, StillRestoring DEF RollbackPCs
    <2>7. file = NoFile => Changed = {}
      BY <2>1, CleanRestoring DEF RollbackPCs
    <2> QED BY <2>3, <2>4, <2>6, <2>7 DEF Promise!Next, Promise!Undo
  <1>20. ASSUME NEW a \in Actors, RestoreAudioDone(a) PROVE Step
    BY <1>20, <1>b DEF RestoreAudioDone, Goto, ApplyPCs, TypeOK
  <1>21. ASSUME NEW a \in Actors, RestorePower(a) PROVE Step
    <2>1. /\ RollbackInv(a) /\ pc[a] = "restorePower"
          /\ pc' = [pc EXCEPT ![a] = "restoreGame"]
          /\ UNCHANGED <<allow, audio, file, orig>>
      BY <1>21 DEF RestorePower, Goto, RecoveryInv, RollbackPCs
    <2>2. power' = orig.power
      BY <1>21, <2>1 DEF RestorePower, RollbackInv, Restores
    <2>3. \/ Changed' = Changed
          \/ Power \in Changed /\ Changed' = Changed \ {Power}
      BY <2>1, <2>2, PowerMoves
    <2>4. Phase' = Phase /\ Phase = IF file = NoFile THEN "clean" ELSE "undoable"
      BY <2>1, StillRestoring DEF RollbackPCs
    <2>5. file = NoFile => Changed = {}
      BY <2>1, CleanRestoring DEF RollbackPCs
    <2> QED BY <2>3, <2>4, <2>5 DEF Promise!Next, Promise!Undo
  <1>22. ASSUME NEW a \in Actors, RestoreGame(a) PROVE Step
    <2>1. /\ RollbackInv(a) /\ pc[a] = "restoreGame"
          /\ pc' = [pc EXCEPT ![a] = "remove"]
          /\ UNCHANGED <<power, audio, file, orig>>
      BY <1>22 DEF RestoreGame, Goto, RecoveryInv, RollbackPCs
    <2>2. IF tx[a].game = "none" THEN allow' = allow ELSE allow' = tx[a].game
      BY <1>22 DEF RestoreGame, WriteGameMode, GameValues
    <2>3. GameState(allow') = GameState(orig.allow)
      BY <2>1, <2>2, GameStateFacts DEF RollbackInv, Restores
    <2>4. \/ Changed' = Changed
          \/ Game \in Changed /\ Changed' = Changed \ {Game}
      BY <2>1, <2>3, GameMoves
    <2>5. Phase' = Phase /\ Phase = IF file = NoFile THEN "clean" ELSE "undoable"
      BY <2>1, StillRestoring DEF RollbackPCs
    <2>6. file = NoFile => Changed = {}
      BY <2>1, CleanRestoring DEF RollbackPCs
    <2> QED BY <2>4, <2>5, <2>6 DEF Promise!Next, Promise!Undo
  <1>23. ASSUME NEW a \in Actors, RemoveRecord(a) PROVE Step
    <2>1. /\ RollbackInv(a) /\ pc[a] = "remove" /\ pc' = [pc EXCEPT ![a] = "idle"]
          /\ UNCHANGED <<allow, power, audio, orig>>
          /\ file' = NoFile \/ file' = file
      BY <1>23 DEF RemoveRecord, Return, Goto, RecoveryInv, RollbackPCs
    <2>2. \A b \in Actors : pc[b] \notin ApplyPCs /\ pc'[b] \notin ApplyPCs
      BY <2>1, RollbackExcludesApply DEF RollbackPCs, ApplyPCs, TypeOK
    <2>3. Changed = {} /\ Changed' = Changed
      BY <2>1, NothingChanged, SettingsStay DEF RollbackInv
    <2> QED BY <2>1, <2>2, <2>3, PhaseIs, PhaseIsNext DEF Promise!Next, Promise!Finish
  <1>24. ASSUME NEW dead \in SUBSET Actors, Crash(dead) PROVE Step
    <2>1. \A a \in dead : pc[a] \notin ApplyPCs
      BY <1>24 DEF Crash
    <2> QED BY <1>24, <2>1, <1>b DEF Crash, ApplyPCs
  <1>25. CASE UNCHANGED vars
    BY <1>25, <1>b DEF vars
  <1> QED
    BY <1>1, <1>2, <1>3, <1>4, <1>5, <1>6, <1>7, <1>8, <1>9, <1>10, <1>11,
       <1>12, <1>13, <1>14, <1>15, <1>16, <1>17, <1>18, <1>19, <1>20, <1>21,
       <1>22, <1>23, <1>24, <1>25
    DEF Next, ApplyStep, RollbackStep

\* In a safe environment the coordinator implements SettingsTransaction: whoever
\* applies, recovers or dies, settings change under one transaction at a time, and
\* every step after it leads back to the user's settings until none is left.
THEOREM CoordinatorImplementsTransaction ==
  SafeEnvironment => (Spec => ImplementsTransaction)
  <1> SUFFICES ASSUME SafeEnvironment PROVE Spec => ImplementsTransaction
    OBVIOUS
  <1>1. Init => Promise!Init
    BY MappedInit
  <1>2. TypeInv /\ RecoveryInv /\ [Next]_vars => [Promise!Next]_<<Phase, Changed>>
    BY MappedStep
  <1> QED
    BY <1>1, <1>2, TypeInvariance, RecoveryInvariance, PTL
    DEF Spec, ImplementsTransaction, Promise!Spec

=============================================================================
