--------------------------- MODULE SnapshotProofs ---------------------------
(***************************************************************************)
(* What is proved of SnapshotStore for every set of actors, paths, plans   *)
(* and keys.                                                               *)
(***************************************************************************)
EXTENDS SnapshotStore, TLAPS

-----------------------------------------------------------------------------
(* Type correctness                                                        *)

\* Snapshots are built from typed payloads and keys.
LEMMA SnapshotTypes ==
  /\ NoPayload \in Payload
  /\ NoSnapshot \in Snapshots
  /\ \A k \in Keys \cup {NoKey}, t \in Payload : Signed(k, t) \in Snapshots
  /\ \A s \in Snapshots : Damaged(s) \in Snapshots
  <1>1. NoPayload \in Payload
    BY DEF NoPayload, Payload
  <1>2. ASSUME NEW k \in Keys \cup {NoKey}, NEW t \in Payload
        PROVE  Signed(k, t) \in Snapshots
    BY DEF Signed, Hmac, Snapshots
  <1>3. ASSUME NEW s \in Snapshots PROVE Damaged(s) \in Snapshots
    BY DEF Damaged, Snapshots, Payload
  <1> QED BY <1>1, <1>2, <1>3 DEF NoSnapshot

\* The types hold initially.
LEMMA TypeInit == Init => TypeOK
  BY SnapshotTypes DEF Init, TypeOK, PCs

\* Every step keeps the types.
LEMMA TypeStep == TypeOK /\ [Next]_vars => TypeOK'
  <1> SUFFICES ASSUME TypeOK, [Next]_vars PROVE TypeOK'
    OBVIOUS
  <1> USE StoreAssumption, SnapshotTypes DEF TypeOK, PCs, SavePCs, RecoverPCs, files, locals
  <1>1. ASSUME NEW a \in Actors, NEW p \in Paths, StartSave(a, p) PROVE TypeOK'
    <2>1. PICK v \in Schemes \cup {Junk, "none"} :
             held' = [held EXCEPT ![a] = [plan |-> v, fx |-> "none"]]
      BY <1>1 DEF StartSave
    <2>2. [plan |-> v, fx |-> "none"] \in Payload
      BY DEF Payload
    <2> QED BY <1>1, <2>1, <2>2 DEF StartSave, Begin, Goto
  <1>2. ASSUME NEW a \in Actors, NEW p \in Paths, StartRecover(a, p) PROVE TypeOK'
    BY <1>2 DEF StartRecover, Begin, Goto
  <1>3. ASSUME NEW a \in Actors, CaptureAudio(a) PROVE TypeOK'
    <2>1. PICK v \in {"none", "0", "1"} :
             held' = [held EXCEPT ![a] = [plan |-> held[a].plan, fx |-> v]]
      BY <1>3 DEF CaptureAudio, Captured
    <2>2. [plan |-> held[a].plan, fx |-> v] \in Payload
      BY DEF Payload
    <2> QED BY <1>3, <2>1, <2>2 DEF CaptureAudio, Goto
  <1>4. ASSUME NEW a \in Actors, FindKey(a) PROVE TypeOK'
    BY <1>4 DEF FindKey, Goto, FreshKeys
  <1>5. ASSUME NEW a \in Actors, ReadKey(a) PROVE TypeOK'
    BY <1>5 DEF ReadKey, Goto
  <1>6. ASSUME NEW a \in Actors, ReadKeyFails(a) PROVE TypeOK'
    BY <1>6 DEF ReadKeyFails, Goto, Return
  <1>7. ASSUME NEW a \in Actors, OpenKey(a) PROVE TypeOK'
    BY <1>7 DEF OpenKey, Goto
  <1>8. ASSUME NEW a \in Actors, OpenKeyFails(a) PROVE TypeOK'
    BY <1>8 DEF OpenKeyFails, Goto, Return
  <1>9. ASSUME NEW a \in Actors, WriteKey(a) PROVE TypeOK'
    BY <1>9 DEF WriteKey, Goto
  <1>10. ASSUME NEW a \in Actors, WriteKeyFails(a) PROVE TypeOK'
    BY <1>10 DEF WriteKeyFails, Goto, Return
  <1>11. ASSUME NEW a \in Actors, Stage(a) PROVE TypeOK'
    BY <1>11 DEF Stage, Goto
  <1>12. ASSUME NEW a \in Actors, StageFails(a) PROVE TypeOK'
    BY <1>12 DEF StageFails, Goto, Return
  <1>13. ASSUME NEW a \in Actors, Move(a) PROVE TypeOK'
    BY <1>13 DEF Move, Goto, Commit, Return
  <1>14. ASSUME NEW a \in Actors, MoveFails(a) PROVE TypeOK'
    BY <1>14 DEF MoveFails, Goto
  <1>15. ASSUME NEW a \in Actors, RemoveTarget(a) PROVE TypeOK'
    BY <1>15 DEF RemoveTarget, Goto
  <1>16. ASSUME NEW a \in Actors, Rename(a) PROVE TypeOK'
    BY <1>16 DEF Rename, Goto, Commit, Return
  <1>17. ASSUME NEW a \in Actors, RenameFails(a) PROVE TypeOK'
    BY <1>17 DEF RenameFails, Goto, Return
  <1>18. ASSUME NEW a \in Actors, LoadKey(a) PROVE TypeOK'
    BY <1>18 DEF LoadKey, Goto
  <1>19. ASSUME NEW a \in Actors, LoadKeyFails(a) PROVE TypeOK'
    BY <1>19 DEF LoadKeyFails, Goto, Return
  <1>20. ASSUME NEW a \in Actors, Verify(a) PROVE TypeOK'
    <2>1. snap[path[a]].payload \in Payload
      BY DEF Snapshots
    <2> QED BY <1>20, <2>1 DEF Verify, Goto
  <1>21. ASSUME NEW a \in Actors, VerifyFails(a) PROVE TypeOK'
    BY <1>21 DEF VerifyFails, Goto, Return
  <1>22. ASSUME NEW a \in Actors, RestoreAudio(a) PROVE TypeOK'
    BY <1>22 DEF RestoreAudio, Goto, Payload, Dword
  <1>23. ASSUME NEW a \in Actors, RestorePower(a) PROVE TypeOK'
    BY <1>23 DEF RestorePower, Goto, Payload, Dword
  <1>24. ASSUME NEW a \in Actors, DeleteFile(a) PROVE TypeOK'
    BY <1>24 DEF DeleteFile, Goto
  <1>25. ASSUME NEW a \in Actors, DeleteFileFails(a) PROVE TypeOK'
    BY <1>25 DEF DeleteFileFails, Goto, Return
  <1>26. ASSUME NEW a \in Actors, ZeroKey(a) PROVE TypeOK'
    BY <1>26 DEF ZeroKey, Goto
  <1>27. ASSUME NEW a \in Actors, NoKeyToDelete(a) PROVE TypeOK'
    BY <1>27 DEF NoKeyToDelete, Goto, Return
  <1>28. ASSUME NEW a \in Actors, DeleteKey(a) PROVE TypeOK'
    BY <1>28 DEF DeleteKey, Goto, Return
  <1>29. CASE Tune
    BY <1>29 DEF Tune
  <1>30. ASSUME NEW p \in Paths, Corrupt(p) PROVE TypeOK'
    BY <1>30 DEF Corrupt
  <1>31. ASSUME NEW dead \in SUBSET Actors, Crash(dead) PROVE TypeOK'
    BY <1>31 DEF Crash
  <1>32. CASE UNCHANGED vars
    BY <1>32 DEF vars
  <1>33. ASSUME NEW a \in Actors, SaveStep(a) PROVE TypeOK'
    BY <1>33, <1>3, <1>4, <1>5, <1>6, <1>7, <1>8, <1>9, <1>10, <1>11, <1>12,
       <1>13, <1>14, <1>15, <1>16, <1>17 DEF SaveStep
  <1>34. ASSUME NEW a \in Actors, RecoverStep(a) PROVE TypeOK'
    BY <1>34, <1>18, <1>19, <1>20, <1>21, <1>22, <1>23, <1>24, <1>25, <1>26,
       <1>27, <1>28 DEF RecoverStep
  <1> QED BY <1>1, <1>2, <1>29, <1>30, <1>31, <1>32, <1>33, <1>34 DEF Next

\* Every variable keeps its type, whatever the actors, the failures and the
\* crashes: in particular no rollback writes a "none" into a setting.
THEOREM StoreTypeCorrect == Spec => []TypeOK
  <1>1. Init => TypeOK
    BY TypeInit
  <1>2. TypeOK /\ [Next]_vars => TypeOK'
    BY TypeStep
  <1> QED BY <1>1, <1>2, PTL DEF Spec

-----------------------------------------------------------------------------
(* Corruption stays in the file                                            *)

\* What the empty values, a signature and a damaged file hold.
LEMMA CleanValues ==
  /\ NoPayload.plan # Junk
  /\ NoSnapshot.hmac.of.plan # Junk
  /\ \A k, t : Signed(k, t).hmac = Hmac(k, t) /\ Signed(k, t).payload = t
  /\ \A k, t : Hmac(k, t).of = t /\ Hmac(k, t).key = k
  /\ \A x \in Snapshots : Damaged(x).hmac = x.hmac
  <1>1. NoPayload.plan # Junk
    BY StoreAssumption DEF NoPayload
  <1>2. \A k, t : /\ Signed(k, t).hmac = Hmac(k, t) /\ Signed(k, t).payload = t
                  /\ Hmac(k, t).of = t /\ Hmac(k, t).key = k
    BY DEF Signed, Hmac
  <1>3. \A x \in Snapshots : Damaged(x).hmac = x.hmac
    BY DEF Damaged, Snapshots
  <1> QED BY <1>1, <1>2, <1>3 DEF NoSnapshot

\* Nothing is corrupted initially.
LEMMA CleanInit == Init => CleanInv
  BY CleanValues, StoreAssumption DEF Init, CleanInv, NothingCorruptApplied

\* Corruption stays in the file it happened to: it is never signed or loaded.
LEMMA CleanStep == TypeOK /\ CleanInv /\ [Next]_vars => CleanInv'
  <1> SUFFICES ASSUME TypeOK, CleanInv, [Next]_vars PROVE CleanInv'
    OBVIOUS
  <1> USE StoreAssumption, CleanValues
      DEF TypeOK, CleanInv, NothingCorruptApplied, files, locals
  <1>1. ASSUME NEW a \in Actors, NEW p \in Paths, StartSave(a, p) PROVE CleanInv'
    <2>1. PICK v \in {plan, "none"} :
             held' = [held EXCEPT ![a] = [plan |-> v, fx |-> "none"]]
      BY <1>1 DEF StartSave
    <2> QED BY <1>1, <2>1 DEF StartSave
  <1>2. ASSUME NEW a \in Actors, NEW p \in Paths, StartRecover(a, p)
        PROVE  CleanInv'
    BY <1>2 DEF StartRecover
  <1>3. ASSUME NEW a \in Actors, CaptureAudio(a) PROVE CleanInv'
    <2>1. PICK v : held' = [held EXCEPT ![a] = [plan |-> held[a].plan, fx |-> v]]
      BY <1>3 DEF CaptureAudio
    <2> QED BY <1>3, <2>1 DEF CaptureAudio
  <1>4. ASSUME NEW a \in Actors, FindKey(a) PROVE CleanInv'
    BY <1>4 DEF FindKey
  <1>5. ASSUME NEW a \in Actors, ReadKey(a) PROVE CleanInv'
    BY <1>5 DEF ReadKey
  <1>6. ASSUME NEW a \in Actors, ReadKeyFails(a) PROVE CleanInv'
    BY <1>6 DEF ReadKeyFails, Return
  <1>7. ASSUME NEW a \in Actors, OpenKey(a) PROVE CleanInv'
    BY <1>7 DEF OpenKey
  <1>8. ASSUME NEW a \in Actors, OpenKeyFails(a) PROVE CleanInv'
    BY <1>8 DEF OpenKeyFails, Return
  <1>9. ASSUME NEW a \in Actors, WriteKey(a) PROVE CleanInv'
    BY <1>9 DEF WriteKey
  <1>10. ASSUME NEW a \in Actors, WriteKeyFails(a) PROVE CleanInv'
    BY <1>10 DEF WriteKeyFails, Return
  <1>11. ASSUME NEW a \in Actors, Stage(a) PROVE CleanInv'
    BY <1>11 DEF Stage
  <1>12. ASSUME NEW a \in Actors, StageFails(a) PROVE CleanInv'
    BY <1>12 DEF StageFails, Return
  <1>13. ASSUME NEW a \in Actors, Move(a) PROVE CleanInv'
    BY <1>13 DEF Move, Commit, Return
  <1>14. ASSUME NEW a \in Actors, MoveFails(a) PROVE CleanInv'
    BY <1>14 DEF MoveFails
  <1>15. ASSUME NEW a \in Actors, RemoveTarget(a) PROVE CleanInv'
    BY <1>15 DEF RemoveTarget
  <1>16. ASSUME NEW a \in Actors, Rename(a) PROVE CleanInv'
    BY <1>16 DEF Rename, Commit, Return
  <1>17. ASSUME NEW a \in Actors, RenameFails(a) PROVE CleanInv'
    BY <1>17 DEF RenameFails, Return
  <1>18. ASSUME NEW a \in Actors, LoadKey(a) PROVE CleanInv'
    BY <1>18 DEF LoadKey
  <1>19. ASSUME NEW a \in Actors, LoadKeyFails(a) PROVE CleanInv'
    BY <1>19 DEF LoadKeyFails, Return
  <1>20. ASSUME NEW a \in Actors, Verify(a) PROVE CleanInv'
    <2>1. snap[path[a]].payload = snap[path[a]].hmac.of
      BY <1>20 DEF Verify, Authentic
    <2> QED BY <1>20, <2>1 DEF Verify
  <1>21. ASSUME NEW a \in Actors, VerifyFails(a) PROVE CleanInv'
    BY <1>21 DEF VerifyFails, Return
  <1>22. ASSUME NEW a \in Actors, RestoreAudio(a) PROVE CleanInv'
    BY <1>22 DEF RestoreAudio
  <1>23. ASSUME NEW a \in Actors, RestorePower(a) PROVE CleanInv'
    BY <1>23 DEF RestorePower
  <1>24. ASSUME NEW a \in Actors, DeleteFile(a) PROVE CleanInv'
    BY <1>24 DEF DeleteFile
  <1>25. ASSUME NEW a \in Actors, DeleteFileFails(a) PROVE CleanInv'
    BY <1>25 DEF DeleteFileFails, Return
  <1>26. ASSUME NEW a \in Actors, ZeroKey(a) PROVE CleanInv'
    BY <1>26 DEF ZeroKey
  <1>27. ASSUME NEW a \in Actors, NoKeyToDelete(a) PROVE CleanInv'
    BY <1>27 DEF NoKeyToDelete, Return
  <1>28. ASSUME NEW a \in Actors, DeleteKey(a) PROVE CleanInv'
    BY <1>28 DEF DeleteKey, Return
  <1>29. CASE Tune
    BY <1>29 DEF Tune
  <1>30. ASSUME NEW p \in Paths, Corrupt(p) PROVE CleanInv'
    BY <1>30 DEF Corrupt
  <1>31. ASSUME NEW dead \in SUBSET Actors, Crash(dead) PROVE CleanInv'
    BY <1>31 DEF Crash
  <1>32. CASE UNCHANGED vars
    BY <1>32 DEF vars
  <1>33. ASSUME NEW a \in Actors, SaveStep(a) PROVE CleanInv'
    BY <1>33, <1>3, <1>4, <1>5, <1>6, <1>7, <1>8, <1>9, <1>10, <1>11, <1>12,
       <1>13, <1>14, <1>15, <1>16, <1>17 DEF SaveStep
  <1>34. ASSUME NEW a \in Actors, RecoverStep(a) PROVE CleanInv'
    BY <1>34, <1>18, <1>19, <1>20, <1>21, <1>22, <1>23, <1>24, <1>25, <1>26,
       <1>27, <1>28 DEF RecoverStep
  <1> QED BY <1>1, <1>2, <1>29, <1>30, <1>31, <1>32, <1>33, <1>34 DEF Next

\* load_and_verify fails secure: with any number of savers and recoveries in
\* any order, any failures and any corruption of snapshot files, nothing that
\* corruption put into a file is ever written to the settings.
THEOREM FailSecure == Spec => []NothingCorruptApplied
  <1>1. Init => TypeOK /\ CleanInv
    BY TypeInit, CleanInit
  <1>2. TypeOK /\ CleanInv /\ [Next]_vars => TypeOK' /\ CleanInv'
    BY TypeStep, CleanStep
  <1>3. CleanInv => NothingCorruptApplied
    BY DEF CleanInv
  <1> QED BY <1>1, <1>2, <1>3, PTL DEF Spec

-----------------------------------------------------------------------------
(* The snapshot on disk stays usable                                       *)

\* The two conjuncts of StoreInv about the directory.
FilesInv ==
    /\ \A p \in Paths : Exists(p) => keyfile \in Keys
    /\ SnapshotVerifiable

\* When only a moves, its own conjuncts and the directory are all there is to
\* show: every other actor is idle before and after.
LEMMA OneMoves ==
  ASSUME TypeOK, NEW a \in Actors, NEW w \in PCs,
         \A b \in Actors \ {a} : pc[b] = "idle",
         pc' = [pc EXCEPT ![a] = w],
         SaveInv(a)', RestoreInv(a)', FilesInv'
  PROVE  StoreInv'
  <1>1. \A b \in Actors \ {a} : pc'[b] = "idle"
    BY DEF TypeOK
  <1>2. \A b \in Actors \ {a} : SaveInv(b)' /\ RestoreInv(b)'
    BY <1>1 DEF SaveInv, RestoreInv
  <1> QED BY <1>1, <1>2 DEF StoreInv, FilesInv

\* Committing a snapshot signed with the key on disk leaves it verifiable.
LEMMA CommitKeepsFiles ==
  ASSUME TypeOK, SafeStore, NEW a \in Actors, Commit(a),
         keyfile = key[a], key[a] \in Keys
  PROVE  FilesInv'
  <1>1. \A p \in Paths : snap'[p] = Signed(key[a], held[a])
    BY DEF TypeOK, SafeStore, Commit
  <1>2. keyfile' = keyfile
    BY DEF Commit
  <1> QED BY <1>1, <1>2, CleanValues DEF FilesInv, SnapshotVerifiable

\* A directory that did not change stays verifiable; so does an empty one.
LEMMA FilesKept ==
  ASSUME FilesInv, snap' = snap, keyfile' = keyfile
  PROVE  FilesInv'
  BY DEF FilesInv, SnapshotVerifiable, Exists

\* Without snapshots there is nothing to verify.
LEMMA EmptyDirectory ==
  ASSUME \A p \in Paths : snap'[p] = NoSnapshot
  PROVE  FilesInv'
  BY DEF FilesInv, SnapshotVerifiable, Exists

\* The empty directory satisfies the invariant.
LEMMA StoreInit == Init => StoreInv
  BY StoreAssumption DEF Init, StoreInv, SnapshotVerifiable, Exists, SaveInv, RestoreInv

\* StoreInv is inductive for a safe store.
LEMMA StoreStep ==
  ASSUME SafeStore, TypeOK, StoreInv, [Next]_vars
  PROVE  StoreInv'
  <1> USE StoreAssumption DEF PCs, SavePCs, RecoverPCs
  <1>0. FilesInv
    BY DEF StoreInv, FilesInv
  <1>m. ASSUME NEW a \in Actors, pc[a] # "idle"
        PROVE  \A b \in Actors \ {a} : pc[b] = "idle"
    BY <1>m DEF StoreInv
  <1>1. ASSUME NEW a \in Actors, NEW p \in Paths, StartSave(a, p) PROVE StoreInv'
    <2>1. \A b \in Actors \ {a} : pc[b] = "idle"
      BY <1>1 DEF StartSave, Begin, SafeStore, AllIdle
    <2>2. pc' = [pc EXCEPT ![a] = "captureAudio"] /\ pc'[a] = "captureAudio"
      BY <1>1 DEF StartSave, Goto, TypeOK
    <2>3. SaveInv(a)' /\ RestoreInv(a)'
      BY <2>2 DEF SaveInv, RestoreInv
    <2>4. FilesInv'
      BY <1>0, <1>1, FilesKept DEF StartSave, files
    <2> QED BY <2>1, <2>2, <2>3, <2>4, OneMoves
  <1>2. ASSUME NEW a \in Actors, NEW p \in Paths, StartRecover(a, p)
        PROVE  StoreInv'
    <2>1. \A b \in Actors \ {a} : pc[b] = "idle"
      BY <1>2 DEF StartRecover, Begin, SafeStore, AllIdle
    <2>2. pc' = [pc EXCEPT ![a] = "loadKey"] /\ pc'[a] = "loadKey"
      BY <1>2 DEF StartRecover, Goto, TypeOK
    <2>3. SaveInv(a)' /\ RestoreInv(a)'
      BY <2>2 DEF SaveInv, RestoreInv
    <2>4. FilesInv'
      BY <1>0, <1>2, FilesKept DEF StartRecover, files
    <2> QED BY <2>1, <2>2, <2>3, <2>4, OneMoves
  <1>3. ASSUME NEW a \in Actors, CaptureAudio(a) PROVE StoreInv'
    <2>1. pc[a] = "captureAudio"
      BY <1>3 DEF CaptureAudio
    <2>2. pc' = [pc EXCEPT ![a] = "findKey"] /\ pc'[a] = "findKey"
      BY <1>3 DEF CaptureAudio, Goto, TypeOK
    <2>3. SaveInv(a)' /\ RestoreInv(a)'
      BY <1>3, <2>1, <2>2 DEF SaveInv, RestoreInv
    <2>4. FilesInv'
      BY <1>0, <1>3, FilesKept DEF CaptureAudio, files
    <2> QED BY <1>m, <2>1, <2>2, <2>3, <2>4, OneMoves
  <1>4. ASSUME NEW a \in Actors, FindKey(a) PROVE StoreInv'
    <2>1. pc[a] = "findKey"
      BY <1>4 DEF FindKey
    <2>2. PICK to \in {"readKey", "openKey"} :
             pc' = [pc EXCEPT ![a] = to] /\ pc'[a] = to
      BY <1>4 DEF FindKey, Goto, TypeOK
    <2>3. SaveInv(a)' /\ RestoreInv(a)'
      BY <1>4, <2>1, <2>2 DEF SaveInv, RestoreInv, StoreInv, FindKey, FreshKeys,
         TypeOK, files, Goto
    <2>4. FilesInv'
      BY <1>0, <1>4, FilesKept DEF FindKey, files
    <2> QED BY <1>m, <2>1, <2>2, <2>3, <2>4, OneMoves
  <1>5. ASSUME NEW a \in Actors, ReadKey(a) PROVE StoreInv'
    <2>1. pc[a] = "readKey"
      BY <1>5 DEF ReadKey
    <2>2. pc' = [pc EXCEPT ![a] = "stage"] /\ pc'[a] = "stage"
      BY <1>5 DEF ReadKey, Goto, TypeOK
    <2>3. SaveInv(a)' /\ RestoreInv(a)'
      BY <1>5, <2>1, <2>2 DEF SaveInv, RestoreInv, ReadKey, TypeOK, files
    <2>4. FilesInv'
      BY <1>0, <1>5, FilesKept DEF ReadKey, files
    <2> QED BY <1>m, <2>1, <2>2, <2>3, <2>4, OneMoves
  <1>6. ASSUME NEW a \in Actors, ReadKeyFails(a) PROVE StoreInv'
    <2>1. pc[a] = "readKey"
      BY <1>6 DEF ReadKeyFails
    <2>2. pc' = [pc EXCEPT ![a] = "idle"] /\ pc'[a] = "idle"
      BY <1>6 DEF ReadKeyFails, Goto, Return, TypeOK
    <2>3. SaveInv(a)' /\ RestoreInv(a)'
      BY <1>6, <2>1, <2>2 DEF SaveInv, RestoreInv
    <2>4. FilesInv'
      BY <1>0, <1>6, FilesKept DEF ReadKeyFails, files
    <2> QED BY <1>m, <2>1, <2>2, <2>3, <2>4, OneMoves
  <1>7. ASSUME NEW a \in Actors, OpenKey(a) PROVE StoreInv'
    <2>1. pc[a] = "openKey"
      BY <1>7 DEF OpenKey
    <2>2. pc' = [pc EXCEPT ![a] = "writeKey"] /\ pc'[a] = "writeKey"
      BY <1>7 DEF OpenKey, Goto, TypeOK
    <2>3. SaveInv(a)' /\ RestoreInv(a)'
      BY <1>7, <2>1, <2>2 DEF SaveInv, RestoreInv, StoreInv, OpenKey, TypeOK, locals
    <2>4. FilesInv'
      BY <1>7, <2>1, EmptyDirectory DEF OpenKey, StoreInv, SaveInv, Exists
    <2> QED BY <1>m, <2>1, <2>2, <2>3, <2>4, OneMoves
  <1>8. ASSUME NEW a \in Actors, OpenKeyFails(a) PROVE StoreInv'
    <2>1. pc[a] = "openKey"
      BY <1>8 DEF OpenKeyFails
    <2>2. pc' = [pc EXCEPT ![a] = "idle"] /\ pc'[a] = "idle"
      BY <1>8 DEF OpenKeyFails, Goto, Return, TypeOK
    <2>3. SaveInv(a)' /\ RestoreInv(a)'
      BY <1>8, <2>1, <2>2 DEF SaveInv, RestoreInv
    <2>4. FilesInv'
      BY <1>0, <1>8, FilesKept DEF OpenKeyFails, files
    <2> QED BY <1>m, <2>1, <2>2, <2>3, <2>4, OneMoves
  <1>9. ASSUME NEW a \in Actors, WriteKey(a) PROVE StoreInv'
    <2>1. pc[a] = "writeKey"
      BY <1>9 DEF WriteKey
    <2>2. pc' = [pc EXCEPT ![a] = "stage"] /\ pc'[a] = "stage"
      BY <1>9 DEF WriteKey, Goto, TypeOK
    <2>3. SaveInv(a)' /\ RestoreInv(a)'
      BY <1>9, <2>1, <2>2 DEF SaveInv, RestoreInv, StoreInv, WriteKey, TypeOK, locals
    <2>4. FilesInv'
      BY <1>9, <2>1, EmptyDirectory DEF WriteKey, StoreInv, SaveInv, Exists
    <2> QED BY <1>m, <2>1, <2>2, <2>3, <2>4, OneMoves
  <1>10. ASSUME NEW a \in Actors, WriteKeyFails(a) PROVE StoreInv'
    <2>1. pc[a] = "writeKey"
      BY <1>10 DEF WriteKeyFails
    <2>2. pc' = [pc EXCEPT ![a] = "idle"] /\ pc'[a] = "idle"
      BY <1>10 DEF WriteKeyFails, Goto, Return, TypeOK
    <2>3. SaveInv(a)' /\ RestoreInv(a)'
      BY <1>10, <2>1, <2>2 DEF SaveInv, RestoreInv
    <2>4. FilesInv'
      BY <1>0, <1>10, FilesKept DEF WriteKeyFails
    <2> QED BY <1>m, <2>1, <2>2, <2>3, <2>4, OneMoves
  <1>11. ASSUME NEW a \in Actors, Stage(a) PROVE StoreInv'
    <2>1. pc[a] = "stage"
      BY <1>11 DEF Stage
    <2>2. pc' = [pc EXCEPT ![a] = "move"] /\ pc'[a] = "move"
      BY <1>11 DEF Stage, Goto, TypeOK
    <2>3. SaveInv(a)' /\ RestoreInv(a)'
      BY <1>11, <2>1, <2>2 DEF SaveInv, RestoreInv, StoreInv, Stage, files, locals
    <2>4. FilesInv'
      BY <1>0, <1>11, FilesKept DEF Stage, files
    <2> QED BY <1>m, <2>1, <2>2, <2>3, <2>4, OneMoves
  <1>12. ASSUME NEW a \in Actors, StageFails(a) PROVE StoreInv'
    <2>1. pc[a] = "stage"
      BY <1>12 DEF StageFails
    <2>2. pc' = [pc EXCEPT ![a] = "idle"] /\ pc'[a] = "idle"
      BY <1>12 DEF StageFails, Goto, Return, TypeOK
    <2>3. SaveInv(a)' /\ RestoreInv(a)'
      BY <1>12, <2>1, <2>2 DEF SaveInv, RestoreInv
    <2>4. FilesInv'
      BY <1>0, <1>12, FilesKept DEF StageFails, files
    <2> QED BY <1>m, <2>1, <2>2, <2>3, <2>4, OneMoves
  <1>13. ASSUME NEW a \in Actors, Move(a) PROVE StoreInv'
    <2>1. pc[a] = "move"
      BY <1>13 DEF Move
    <2>2. pc' = [pc EXCEPT ![a] = "idle"] /\ pc'[a] = "idle"
      BY <1>13 DEF Move, Goto, Commit, Return, TypeOK
    <2>3. SaveInv(a)' /\ RestoreInv(a)'
      BY <1>13, <2>1, <2>2 DEF SaveInv, RestoreInv
    <2>4. FilesInv'
      BY <1>13, <2>1, CommitKeepsFiles DEF Move, StoreInv, SaveInv
    <2> QED BY <1>m, <2>1, <2>2, <2>3, <2>4, OneMoves
  <1>14. ASSUME NEW a \in Actors, MoveFails(a) PROVE StoreInv'
    BY <1>14 DEF MoveFails, SafeStore
  <1>15. ASSUME NEW a \in Actors, RemoveTarget(a) PROVE StoreInv'
    BY <1>15 DEF RemoveTarget, StoreInv, SaveInv
  <1>16. ASSUME NEW a \in Actors, Rename(a) PROVE StoreInv'
    BY <1>16 DEF Rename, StoreInv, SaveInv
  <1>17. ASSUME NEW a \in Actors, RenameFails(a) PROVE StoreInv'
    BY <1>17 DEF RenameFails, StoreInv, SaveInv
  <1>18. ASSUME NEW a \in Actors, LoadKey(a) PROVE StoreInv'
    <2>1. pc[a] = "loadKey"
      BY <1>18 DEF LoadKey
    <2>2. pc' = [pc EXCEPT ![a] = "verify"] /\ pc'[a] = "verify"
      BY <1>18 DEF LoadKey, Goto, TypeOK
    <2>3. SaveInv(a)' /\ RestoreInv(a)'
      BY <1>18, <2>1, <2>2 DEF SaveInv, RestoreInv
    <2>4. FilesInv'
      BY <1>0, <1>18, FilesKept DEF LoadKey, files
    <2> QED BY <1>m, <2>1, <2>2, <2>3, <2>4, OneMoves
  <1>19. ASSUME NEW a \in Actors, LoadKeyFails(a) PROVE StoreInv'
    <2>1. pc[a] = "loadKey"
      BY <1>19 DEF LoadKeyFails
    <2>2. pc' = [pc EXCEPT ![a] = "idle"] /\ pc'[a] = "idle"
      BY <1>19 DEF LoadKeyFails, Goto, Return, TypeOK
    <2>3. SaveInv(a)' /\ RestoreInv(a)'
      BY <1>19, <2>1, <2>2 DEF SaveInv, RestoreInv
    <2>4. FilesInv'
      BY <1>0, <1>19, FilesKept DEF LoadKeyFails, files
    <2> QED BY <1>m, <2>1, <2>2, <2>3, <2>4, OneMoves
  <1>20. ASSUME NEW a \in Actors, Verify(a) PROVE StoreInv'
    <2>1. pc[a] = "verify"
      BY <1>20 DEF Verify
    <2>2. pc' = [pc EXCEPT ![a] = "restoreAudio"] /\ pc'[a] = "restoreAudio"
      BY <1>20 DEF Verify, Goto, TypeOK
    <2>3. SaveInv(a)' /\ RestoreInv(a)'
      BY <1>20, <2>1, <2>2 DEF SaveInv, RestoreInv, Verify, Authentic, Exists,
         TypeOK, files
    <2>4. FilesInv'
      BY <1>0, <1>20, FilesKept DEF Verify, files
    <2> QED BY <1>m, <2>1, <2>2, <2>3, <2>4, OneMoves
  <1>21. ASSUME NEW a \in Actors, VerifyFails(a) PROVE StoreInv'
    <2>1. pc[a] = "verify"
      BY <1>21 DEF VerifyFails
    <2>2. pc' = [pc EXCEPT ![a] = "idle"] /\ pc'[a] = "idle"
      BY <1>21 DEF VerifyFails, Goto, Return, TypeOK
    <2>3. SaveInv(a)' /\ RestoreInv(a)'
      BY <1>21, <2>1, <2>2 DEF SaveInv, RestoreInv
    <2>4. FilesInv'
      BY <1>0, <1>21, FilesKept DEF VerifyFails, files
    <2> QED BY <1>m, <2>1, <2>2, <2>3, <2>4, OneMoves
  <1>22. ASSUME NEW a \in Actors, RestoreAudio(a) PROVE StoreInv'
    <2>1. pc[a] = "restoreAudio"
      BY <1>22 DEF RestoreAudio
    <2>2. pc' = [pc EXCEPT ![a] = "restorePower"] /\ pc'[a] = "restorePower"
      BY <1>22 DEF RestoreAudio, Goto, TypeOK
    <2>3. SaveInv(a)' /\ RestoreInv(a)'
      BY <1>22, <2>1, <2>2 DEF SaveInv, RestoreInv, StoreInv, RestoreAudio,
             Captured, SafeStore, TypeOK, Payload, Exists, files, locals
    <2>4. FilesInv'
      BY <1>0, <1>22, FilesKept DEF RestoreAudio, files
    <2> QED BY <1>m, <2>1, <2>2, <2>3, <2>4, OneMoves
  <1>23. ASSUME NEW a \in Actors, RestorePower(a) PROVE StoreInv'
    <2>1. pc[a] = "restorePower"
      BY <1>23 DEF RestorePower
    <2>2. pc' = [pc EXCEPT ![a] = "delete"] /\ pc'[a] = "delete"
      BY <1>23 DEF RestorePower, Goto, TypeOK
    <2>3. SaveInv(a)' /\ RestoreInv(a)'
      BY <1>23, <2>1, <2>2 DEF SaveInv, RestoreInv, StoreInv, RestorePower,
             SafeStore, Exists, files, locals
    <2>4. FilesInv'
      BY <1>0, <1>23, FilesKept DEF RestorePower, files
    <2> QED BY <1>m, <2>1, <2>2, <2>3, <2>4, OneMoves
  <1>24. ASSUME NEW a \in Actors, DeleteFile(a) PROVE StoreInv'
    <2>1. pc[a] = "delete"
      BY <1>24 DEF DeleteFile
    <2>2. pc' = [pc EXCEPT ![a] = "zeroKey"] /\ pc'[a] = "zeroKey"
      BY <1>24 DEF DeleteFile, Goto, TypeOK
    <2>3. SaveInv(a)' /\ RestoreInv(a)'
      BY <1>24, <2>1, <2>2 DEF SaveInv, RestoreInv, DeleteFile, SafeStore,
         TypeOK, Exists
    <2>4. FilesInv'
      BY <1>24, EmptyDirectory DEF DeleteFile, SafeStore, TypeOK
    <2> QED BY <1>m, <2>1, <2>2, <2>3, <2>4, OneMoves
  <1>25. ASSUME NEW a \in Actors, DeleteFileFails(a) PROVE StoreInv'
    <2>1. pc[a] = "delete"
      BY <1>25 DEF DeleteFileFails
    <2>2. pc' = [pc EXCEPT ![a] = "idle"] /\ pc'[a] = "idle"
      BY <1>25 DEF DeleteFileFails, Goto, Return, TypeOK
    <2>3. SaveInv(a)' /\ RestoreInv(a)'
      BY <1>25, <2>1, <2>2 DEF SaveInv, RestoreInv
    <2>4. FilesInv'
      BY <1>0, <1>25, FilesKept DEF DeleteFileFails, files
    <2> QED BY <1>m, <2>1, <2>2, <2>3, <2>4, OneMoves
  <1>26. ASSUME NEW a \in Actors, ZeroKey(a) PROVE StoreInv'
    <2>1. pc[a] = "zeroKey"
      BY <1>26 DEF ZeroKey
    <2>2. pc' = [pc EXCEPT ![a] = "deleteKey"] /\ pc'[a] = "deleteKey"
      BY <1>26 DEF ZeroKey, Goto, TypeOK
    <2>3. SaveInv(a)' /\ RestoreInv(a)'
      BY <1>26, <2>1, <2>2 DEF SaveInv, RestoreInv, StoreInv, ZeroKey, Exists
    <2>4. FilesInv'
      BY <1>26, <2>1, EmptyDirectory DEF ZeroKey, StoreInv, RestoreInv, Exists
    <2> QED BY <1>m, <2>1, <2>2, <2>3, <2>4, OneMoves
  <1>27. ASSUME NEW a \in Actors, NoKeyToDelete(a) PROVE StoreInv'
    <2>1. pc[a] = "zeroKey"
      BY <1>27 DEF NoKeyToDelete
    <2>2. pc' = [pc EXCEPT ![a] = "idle"] /\ pc'[a] = "idle"
      BY <1>27 DEF NoKeyToDelete, Goto, Return, TypeOK
    <2>3. SaveInv(a)' /\ RestoreInv(a)'
      BY <1>27, <2>1, <2>2 DEF SaveInv, RestoreInv
    <2>4. FilesInv'
      BY <1>0, <1>27, FilesKept DEF NoKeyToDelete, files
    <2> QED BY <1>m, <2>1, <2>2, <2>3, <2>4, OneMoves
  <1>28. ASSUME NEW a \in Actors, DeleteKey(a) PROVE StoreInv'
    <2>1. pc[a] = "deleteKey"
      BY <1>28 DEF DeleteKey
    <2>2. pc' = [pc EXCEPT ![a] = "idle"] /\ pc'[a] = "idle"
      BY <1>28 DEF DeleteKey, Goto, Return, TypeOK
    <2>3. SaveInv(a)' /\ RestoreInv(a)'
      BY <1>28, <2>1, <2>2 DEF SaveInv, RestoreInv
    <2>4. FilesInv'
      BY <1>28, <2>1, EmptyDirectory DEF DeleteKey, StoreInv, RestoreInv, Exists
    <2> QED BY <1>m, <2>1, <2>2, <2>3, <2>4, OneMoves
  <1>29. CASE Tune
    <2>1. \A a \in Actors : pc'[a] = "idle"
      BY <1>29 DEF Tune, SafeStore, AllIdle
    <2>2. FilesInv'
      BY <1>0, <1>29, FilesKept DEF Tune, files
    <2> QED BY <2>1, <2>2 DEF StoreInv, FilesInv, SaveInv, RestoreInv
  <1>30. ASSUME NEW p \in Paths, Corrupt(p) PROVE StoreInv'
    BY <1>30 DEF Corrupt, SafeStore
  <1>31. ASSUME NEW dead \in SUBSET Actors, Crash(dead) PROVE StoreInv'
    <2>1. \A a \in Actors : pc'[a] = "idle"
      BY <1>31 DEF Crash, StoreInv
    <2>2. FilesInv'
      BY <1>0, <1>31, FilesKept DEF Crash
    <2> QED BY <2>1, <2>2 DEF StoreInv, FilesInv, SaveInv, RestoreInv
  <1>32. CASE UNCHANGED vars
    BY <1>32 DEF vars, StoreInv, SnapshotVerifiable, Exists, SaveInv, RestoreInv
  <1>33. ASSUME NEW a \in Actors, SaveStep(a) PROVE StoreInv'
    BY <1>33, <1>3, <1>4, <1>5, <1>6, <1>7, <1>8, <1>9, <1>10, <1>11, <1>12,
       <1>13, <1>14, <1>15, <1>16, <1>17 DEF SaveStep
  <1>34. ASSUME NEW a \in Actors, RecoverStep(a) PROVE StoreInv'
    BY <1>34, <1>18, <1>19, <1>20, <1>21, <1>22, <1>23, <1>24, <1>25, <1>26,
       <1>27, <1>28 DEF RecoverStep
  <1> QED BY <1>1, <1>2, <1>29, <1>30, <1>31, <1>32, <1>33, <1>34 DEF Next

\* So it holds always there.
LEMMA StoreInvariance == SafeStore => (Spec => [](TypeOK /\ StoreInv))
  <1> SUFFICES ASSUME SafeStore PROVE Spec => [](TypeOK /\ StoreInv)
    OBVIOUS
  <1>1. Init => TypeOK /\ StoreInv
    BY TypeInit, StoreInit
  <1>2. TypeOK /\ StoreInv /\ [Next]_vars => TypeOK' /\ StoreInv'
    BY TypeStep, StoreStep
  <1> QED BY <1>1, <1>2, PTL DEF Spec

\* Where operations on the one snapshot file do not overlap, a snapshot on disk
\* always verifies with the key on disk, however often reading settings, key
\* and files failed and the actors died in between: get_or_generate_key,
\* save_atomic and delete_snapshot change the two files in an order that never
\* leaves a snapshot without its key.
THEOREM SnapshotAlwaysVerifiable == SafeStore => (Spec => []SnapshotVerifiable)
  <1> SUFFICES ASSUME SafeStore PROVE Spec => []SnapshotVerifiable
    OBVIOUS
  <1>1. StoreInv => SnapshotVerifiable
    BY DEF StoreInv
  <1> QED BY <1>1, StoreInvariance, PTL

\* In the same environment no step takes a snapshot off the disk before the
\* settings it recorded are restored: check_and_recover deletes last.
THEOREM NoSnapshotLost == SafeStore => (Spec => SnapshotKeptUntilRestored)
  <1> SUFFICES ASSUME SafeStore PROVE Spec => SnapshotKeptUntilRestored
    OBVIOUS
  <1> DEFINE Kept == \A p \in Paths :
                Exists(p) /\ snap'[p] = NoSnapshot => Matches(snap[p].payload)
  <1>1. TypeOK /\ StoreInv /\ [Next]_vars => [Kept]_vars
    <2> SUFFICES ASSUME TypeOK, StoreInv, Next, NEW p \in Paths,
                        Exists(p), snap'[p] = NoSnapshot
                 PROVE  Matches(snap[p].payload)
      OBVIOUS
    <2>1. ASSUME NEW a \in Actors, Move(a) PROVE FALSE
      <3>1. snap'[p] = Signed(key[a], held[a])
        BY <2>1 DEF Move, Commit, SafeStore, TypeOK
      <3>2. key[a] \in Keys
        BY <2>1 DEF Move, StoreInv, SaveInv
      <3>3. Signed(key[a], held[a]).hmac.key = key[a] /\ NoSnapshot.hmac.key = NoKey
        BY DEF Signed, Hmac, NoSnapshot
      <3> QED BY <3>1, <3>2, <3>3, StoreAssumption
    <2>2. ASSUME NEW a \in Actors, DeleteFile(a)
          PROVE  Matches(snap[p].payload)
      BY <2>2 DEF DeleteFile, SafeStore, TypeOK, StoreInv, RestoreInv, Matches
    <2>3. ASSUME NEW a \in Actors, RemoveTarget(a) \/ Rename(a) PROVE FALSE
      BY <2>3 DEF RemoveTarget, Rename, StoreInv, SaveInv
    <2>4. ASSUME NEW q \in Paths, Corrupt(q) PROVE FALSE
      BY <2>4 DEF Corrupt, SafeStore
    <2>5. CASE snap' = snap
      BY <2>5 DEF Exists
    <2>6. snap' = snap \/ (\E a \in Actors : Move(a) \/ DeleteFile(a)
             \/ RemoveTarget(a) \/ Rename(a)) \/ (\E q \in Paths : Corrupt(q))
      BY DEF Next, SaveStep, RecoverStep, StartSave, StartRecover, Tune, Crash,
             files, CaptureAudio, FindKey, ReadKey, ReadKeyFails, OpenKey,
             OpenKeyFails, WriteKey, WriteKeyFails, Stage, StageFails,
             MoveFails, RenameFails, LoadKey, LoadKeyFails, Verify, VerifyFails,
             RestoreAudio, RestorePower, DeleteFileFails, ZeroKey,
             NoKeyToDelete, DeleteKey
    <2> QED BY <2>1, <2>2, <2>3, <2>4, <2>5, <2>6
  <1> HIDE DEF Kept
  <1>2. Spec => [][Kept]_vars
    BY <1>1, StoreInvariance, PTL DEF Spec
  <1> QED BY <1>2 DEF Kept, SnapshotKeptUntilRestored

=============================================================================
