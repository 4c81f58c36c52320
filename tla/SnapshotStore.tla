--------------------------- MODULE SnapshotStore ---------------------------
(***************************************************************************)
(* SnapshotEngine and CrashRecoveryService: signed snapshots of the system *)
(* settings in one directory, which share the key file snapshot.key.       *)
(* `valopt snapshot [path]' captures and saves one; the daemon at boot, the *)
(* pipe handler and `valopt rollback [path]' verify one, restore it and    *)
(* delete it together with the key.  Nothing is locked.                    *)
(*                                                                         *)
(* Of the settings the model keeps the power plan, which is captured as it *)
(* is, and one endpoint's Disable_SysFx, whose capture loses information.  *)
(***************************************************************************)
EXTENDS FiniteSets

CONSTANTS
    Actors,     \* threads and processes that use the directory
    Savers,     \* those that save snapshots: CLI processes, not the daemon
    Paths,      \* snapshot files in the directory
    Schemes,    \* power plans
    Keys,       \* the HMAC keys the CSPRNG may return
    Junk,       \* what disk corruption turns a recorded plan into
    NoKey,      \* the key file is missing
    BadKey,     \* the key file is there and holds no key
    Serial,     \* TRUE: one operation at a time, and nobody tunes meanwhile
    Faults      \* the kinds of failure that may happen

FaultKinds ==
    { "capture",   \* a setting cannot be read
      "io",        \* a file cannot be read, written or deleted
      "move",      \* MoveFileExW, or the rename that replaces it, fails
      "restore",   \* a setter fails during the rollback
      "corrupt",   \* a snapshot file changes on disk
      "crash" }    \* an actor dies

ASSUME StoreAssumption ==
    /\ "none" \notin Schemes /\ Junk \notin Schemes /\ Junk # "none"
    /\ NoKey \notin Keys /\ BadKey \notin Keys /\ NoKey # BadKey
    /\ Savers \subseteq Actors
    /\ Serial \in BOOLEAN
    /\ Faults \subseteq FaultKinds

VARIABLES
    plan,     \* the active power plan
    fx,       \* Disable_SysFx
    snap,     \* the file at each path
    keyfile,  \* snapshot.key
    open,     \* actors whose write handle refers to the present key file
    pc,       \* where each actor is
    path,     \* the path it works on
    key,      \* the key it holds
    held      \* the SystemStateSnapshot it holds

files  == <<snap, keyfile, open>>
locals == <<path, key, held>>
vars   == <<plan, fx, snap, keyfile, open, pc, path, key, held>>

-----------------------------------------------------------------------------
(* Data                                                                    *)

Dword == {"absent", "0", "1"}

\* The payload of a snapshot; "none" is Option::None (or no backup).
Payload == [plan : Schemes \cup {"none", Junk}, fx : {"none", "0", "1"}]
NoPayload == [plan |-> "none", fx |-> "none"]

\* Mutant of Captured: the registry value is taken over as it is.
CapturedRaw(v) == v

\* capture_system_baseline asks whether the value is 1, and stores 0 or 1.
Captured(v) == IF v = "1" THEN "1" ELSE "0"

\* compute_payload_hmac: no two payloads or keys have the same signature.
Hmac(k, payload) == [key |-> k, of |-> payload]

Signed(k, payload) == [payload |-> payload, hmac |-> Hmac(k, payload)]
NoSnapshot == Signed(NoKey, NoPayload)
Snapshots  == [payload : Payload, hmac : [key : Keys \cup {NoKey}, of : Payload]]

Exists(p) == snap[p] # NoSnapshot

\* A key that is not in use: 256 random bits do not repeat.
FreshKeys ==
    { k \in Keys : /\ k # keyfile
                   /\ \A p \in Paths : snap[p].hmac.key # k
                   /\ \A a \in Actors : key[a] # k }

SavePCs    == {"captureAudio", "findKey", "readKey", "openKey", "writeKey",
               "stage", "move", "removeTarget", "rename"}
RecoverPCs == {"loadKey", "verify", "restoreAudio", "restorePower",
               "delete", "zeroKey", "deleteKey"}
PCs        == {"idle"} \cup SavePCs \cup RecoverPCs

AllIdle == \A a \in Actors : pc[a] = "idle"

TypeOK ==
    /\ plan \in Schemes \cup {Junk}
    /\ fx \in Dword
    /\ snap \in [Paths -> Snapshots]
    /\ keyfile \in Keys \cup {NoKey, BadKey}
    /\ open \subseteq Actors
    /\ pc \in [Actors -> PCs]
    /\ path \in [Actors -> Paths]
    /\ key \in [Actors -> Keys \cup {NoKey}]
    /\ held \in [Actors -> Payload]

Init ==
    /\ plan \in Schemes
    /\ fx \in Dword
    /\ snap = [p \in Paths |-> NoSnapshot]
    /\ keyfile = NoKey
    /\ open = {}
    /\ pc = [a \in Actors |-> "idle"]
    /\ \E p \in Paths : path = [a \in Actors |-> p]
    /\ key = [a \in Actors |-> NoKey]
    /\ held = [a \in Actors |-> NoPayload]

-----------------------------------------------------------------------------
(* capture_system_baseline and save_atomic                                 *)

Goto(a, where) == pc' = [pc EXCEPT ![a] = where]

\* Back at the caller, with Ok or Err: what the actor held is gone.
Return(a) ==
    /\ Goto(a, "idle")
    /\ key' = [key EXCEPT ![a] = NoKey]
    /\ held' = [held EXCEPT ![a] = NoPayload]
    /\ UNCHANGED path

Begin(a, p) ==
    /\ pc[a] = "idle"
    /\ Serial => AllIdle
    /\ path' = [path EXCEPT ![a] = p]

\* The power plan is captured first, unless it cannot be read.
StartSave(a, p) ==
    /\ a \in Savers
    /\ Begin(a, p)
    /\ \E v \in {plan} \cup (IF "capture" \in Faults THEN {"none"} ELSE {}) :
          held' = [held EXCEPT ![a] = [plan |-> v, fx |-> "none"]]
    /\ Goto(a, "captureAudio")
    /\ UNCHANGED <<plan, fx, files, key>>

\* Then the endpoint: none when the endpoints cannot be listed, and 0 when its
\* value cannot be read.
CaptureAudio(a) ==
    /\ pc[a] = "captureAudio"
    /\ \E v \in {Captured(fx)} \cup (IF "capture" \in Faults THEN {"none", "0"} ELSE {}) :
          held' = [held EXCEPT ![a] = [plan |-> @.plan, fx |-> v]]
    /\ Goto(a, "findKey")
    /\ UNCHANGED <<plan, fx, files, path, key>>

\* Mutant of FindKey: a new key for every snapshot, whatever is on disk.
FindKeyAlwaysNew(a) ==
    /\ pc[a] = "findKey"
    /\ \E k \in FreshKeys : key' = [key EXCEPT ![a] = k]
    /\ Goto(a, "openKey")
    /\ UNCHANGED <<plan, fx, files, path, held>>

\* get_or_generate_key: an existing key file is read, otherwise a key is drawn.
FindKey(a) ==
    /\ pc[a] = "findKey"
    /\ \/ /\ keyfile # NoKey
          /\ Goto(a, "readKey")
          /\ UNCHANGED key
       \/ /\ keyfile = NoKey
          /\ \E k \in FreshKeys : key' = [key EXCEPT ![a] = k]
          /\ Goto(a, "openKey")
    /\ UNCHANGED <<plan, fx, files, path, held>>

ReadKey(a) ==
    /\ pc[a] = "readKey"
    /\ keyfile \in Keys
    /\ key' = [key EXCEPT ![a] = keyfile]
    /\ Goto(a, "stage")
    /\ UNCHANGED <<plan, fx, files, path, held>>

\* The key file went away, holds no key, or cannot be read: KeyUnavailable.
ReadKeyFails(a) ==
    /\ pc[a] = "readKey"
    /\ keyfile \notin Keys \/ "io" \in Faults
    /\ Return(a)
    /\ UNCHANGED <<plan, fx, files>>

\* fs::write of the key file: created or truncated ...
OpenKey(a) ==
    /\ pc[a] = "openKey"
    /\ keyfile' = BadKey
    /\ open' = open \cup {a}
    /\ Goto(a, "writeKey")
    /\ UNCHANGED <<plan, fx, snap, locals>>

OpenKeyFails(a) ==
    /\ pc[a] = "openKey"
    /\ "io" \in Faults
    /\ Return(a)
    /\ UNCHANGED <<plan, fx, files>>

\* ... then written, unless the file was deleted under the open handle.
WriteKey(a) ==
    /\ pc[a] = "writeKey"
    /\ keyfile' = IF a \in open THEN key[a] ELSE keyfile
    /\ open' = open \ {a}
    /\ Goto(a, "stage")
    /\ UNCHANGED <<plan, fx, snap, locals>>

WriteKeyFails(a) ==
    /\ pc[a] = "writeKey"
    /\ "io" \in Faults
    /\ open' = open \ {a}
    /\ Return(a)
    /\ UNCHANGED <<plan, fx, snap, keyfile>>

\* sign_with_key, and fs::write of a temporary file nobody else knows.
Stage(a) ==
    /\ pc[a] = "stage"
    /\ Goto(a, "move")
    /\ UNCHANGED <<plan, fx, files, locals>>

StageFails(a) ==
    /\ pc[a] = "stage"
    /\ "io" \in Faults
    /\ Return(a)
    /\ UNCHANGED <<plan, fx, files>>

\* The temporary file becomes the snapshot.
Commit(a) ==
    /\ snap' = [snap EXCEPT ![path[a]] = Signed(key[a], held[a])]
    /\ Return(a)
    /\ UNCHANGED <<plan, fx, keyfile, open>>

\* MoveFileExW with MOVEFILE_REPLACE_EXISTING.
Move(a) ==
    /\ pc[a] = "move"
    /\ Commit(a)

\* It failed: the fallback deletes the target first, ...
MoveFails(a) ==
    /\ pc[a] = "move"
    /\ "move" \in Faults
    /\ Goto(a, "removeTarget")
    /\ UNCHANGED <<plan, fx, files, locals>>

RemoveTarget(a) ==
    /\ pc[a] = "removeTarget"
    /\ \/ snap' = [snap EXCEPT ![path[a]] = NoSnapshot]
       \/ "io" \in Faults /\ UNCHANGED snap
    /\ Goto(a, "rename")
    /\ UNCHANGED <<plan, fx, keyfile, open, locals>>

\* ... and renames the temporary file to it.
Rename(a) ==
    /\ pc[a] = "rename"
    /\ Commit(a)

RenameFails(a) ==
    /\ pc[a] = "rename"
    /\ "move" \in Faults
    /\ Return(a)
    /\ UNCHANGED <<plan, fx, files>>

-----------------------------------------------------------------------------
(* check_and_recover                                                       *)

\* Without a snapshot it returns the empty report and changes nothing.
StartRecover(a, p) ==
    /\ Begin(a, p)
    /\ Exists(p)
    /\ Goto(a, "loadKey")
    /\ UNCHANGED <<plan, fx, files, key, held>>

\* load_and_verify: the target is still there, the key file yields a key ...
LoadKey(a) ==
    /\ pc[a] = "loadKey"
    /\ Exists(path[a])
    /\ keyfile \in Keys
    /\ key' = [key EXCEPT ![a] = keyfile]
    /\ Goto(a, "verify")
    /\ UNCHANGED <<plan, fx, files, path, held>>

LoadKeyFails(a) ==
    /\ pc[a] = "loadKey"
    /\ ~Exists(path[a]) \/ keyfile \notin Keys \/ "io" \in Faults
    /\ Return(a)
    /\ UNCHANGED <<plan, fx, files>>

\* Mutant of Authentic: the signature's key is compared, not what it signs.
AuthenticKeyOnly(a) ==
    /\ Exists(path[a])
    /\ snap[path[a]].hmac.key = key[a]

Authentic(a) ==
    /\ Exists(path[a])
    /\ snap[path[a]].hmac = Hmac(key[a], snap[path[a]].payload)

\* ... and the payload read has the signature that key gives it.
Verify(a) ==
    /\ pc[a] = "verify"
    /\ Authentic(a)
    /\ held' = [held EXCEPT ![a] = snap[path[a]].payload]
    /\ Goto(a, "restoreAudio")
    /\ UNCHANGED <<plan, fx, files, path, key>>

\* NotFound, a parse error or IntegrityViolation: an error, and no more.
VerifyFails(a) ==
    /\ pc[a] = "verify"
    /\ ~Authentic(a) \/ "io" \in Faults
    /\ Return(a)
    /\ UNCHANGED <<plan, fx, files>>

\* rollback_snapshot: a setting that was not captured, or whose setter fails,
\* is passed over.
RestoreAudio(a) ==
    /\ pc[a] = "restoreAudio"
    /\ \/ held[a].fx # "none" /\ fx' = held[a].fx
       \/ held[a].fx = "none" /\ UNCHANGED fx
       \/ "restore" \in Faults /\ UNCHANGED fx
    /\ Goto(a, "restorePower")
    /\ UNCHANGED <<plan, files, locals>>

\* Mutant of RestorePower: the file is deleted before the plan is restored.
RestorePowerLate(a) ==
    /\ pc[a] = "restorePower"
    /\ Goto(a, "delete")
    /\ UNCHANGED <<plan, fx, files, locals>>

RestorePower(a) ==
    /\ pc[a] = "restorePower"
    /\ \/ held[a].plan # "none" /\ plan' = held[a].plan
       \/ held[a].plan = "none" /\ UNCHANGED plan
       \/ "restore" \in Faults /\ UNCHANGED plan
    /\ Goto(a, "delete")
    /\ UNCHANGED <<fx, files, locals>>

\* delete_snapshot removes the file if it is (still) there, ...
DeleteFile(a) ==
    /\ pc[a] = "delete"
    /\ snap' = [snap EXCEPT ![path[a]] = NoSnapshot]
    /\ Goto(a, "zeroKey")
    /\ UNCHANGED <<plan, fx, keyfile, open, locals>>

DeleteFileFails(a) ==
    /\ pc[a] = "delete"
    /\ Exists(path[a])
    /\ "io" \in Faults
    /\ Return(a)
    /\ UNCHANGED <<plan, fx, files>>

\* ... overwrites the key file with zeros if there is one, ...
ZeroKey(a) ==
    /\ pc[a] = "zeroKey"
    /\ keyfile # NoKey
    /\ \/ keyfile' = BadKey
       \/ "io" \in Faults /\ UNCHANGED keyfile
    /\ Goto(a, "deleteKey")
    /\ UNCHANGED <<plan, fx, snap, open, locals>>

NoKeyToDelete(a) ==
    /\ pc[a] = "zeroKey"
    /\ keyfile = NoKey
    /\ Return(a)
    /\ UNCHANGED <<plan, fx, files>>

\* ... and unlinks it.
DeleteKey(a) ==
    /\ pc[a] = "deleteKey"
    /\ \/ keyfile' = NoKey /\ open' = {}
       \/ "io" \in Faults /\ UNCHANGED <<keyfile, open>>
    /\ Return(a)
    /\ UNCHANGED <<plan, fx, snap>>

-----------------------------------------------------------------------------
(* The rest of the machine                                                 *)

\* The optimizer or the user changes a setting.
Tune ==
    /\ Serial => AllIdle
    /\ plan' \in Schemes
    /\ fx' \in Dword
    /\ UNCHANGED <<files, pc, locals>>

\* A snapshot file changes on disk; its signature cannot follow.
Damaged(s) == [s EXCEPT !.payload = [plan |-> Junk, fx |-> @.fx]]

Corrupt(p) ==
    /\ "corrupt" \in Faults
    /\ Exists(p)
    /\ snap' = [snap EXCEPT ![p] = Damaged(@)]
    /\ UNCHANGED <<plan, fx, keyfile, open, pc, locals>>

\* Actors die, with their memory: a process, or all of them with the machine.
Crash(dead) ==
    /\ "crash" \in Faults
    /\ dead # {}
    /\ \A a \in dead : pc[a] # "idle"
    /\ pc'   = [a \in Actors |-> IF a \in dead THEN "idle"    ELSE pc[a]]
    /\ key'  = [a \in Actors |-> IF a \in dead THEN NoKey     ELSE key[a]]
    /\ held' = [a \in Actors |-> IF a \in dead THEN NoPayload ELSE held[a]]
    /\ open' = open \ dead
    /\ UNCHANGED <<plan, fx, snap, keyfile, path>>

SaveStep(a) ==
    \/ CaptureAudio(a)
    \/ FindKey(a) \/ ReadKey(a) \/ ReadKeyFails(a)
    \/ OpenKey(a) \/ OpenKeyFails(a) \/ WriteKey(a) \/ WriteKeyFails(a)
    \/ Stage(a) \/ StageFails(a)
    \/ Move(a) \/ MoveFails(a) \/ RemoveTarget(a) \/ Rename(a) \/ RenameFails(a)

RecoverStep(a) ==
    \/ LoadKey(a) \/ LoadKeyFails(a) \/ Verify(a) \/ VerifyFails(a)
    \/ RestoreAudio(a) \/ RestorePower(a)
    \/ DeleteFile(a) \/ DeleteFileFails(a)
    \/ ZeroKey(a) \/ NoKeyToDelete(a) \/ DeleteKey(a)

Next ==
    \/ \E a \in Actors, p \in Paths : StartSave(a, p) \/ StartRecover(a, p)
    \/ \E a \in Actors : SaveStep(a) \/ RecoverStep(a)
    \/ Tune
    \/ \E p \in Paths : Corrupt(p)
    \/ \E dead \in SUBSET Actors : Crash(dead)

Spec == Init /\ [][Next]_vars

-----------------------------------------------------------------------------
(* Properties                                                              *)

\* A snapshot on disk can be verified with the key on disk: check_and_recover
\* would not refuse it with KeyUnavailable or IntegrityViolation, whatever
\* crashed or failed since it was saved.
SnapshotVerifiable ==
    \A p \in Paths :
       Exists(p) => snap[p].hmac = Hmac(keyfile, snap[p].payload)

\* The settings are those the payload recorded, as far as it did.
Matches(payload) ==
    /\ payload.plan \in {"none", plan}
    /\ payload.fx \in {"none", Captured(fx)}

\* A snapshot leaves the disk only when the settings it recorded are back:
\* neither a failed save, nor a recovery that failed, nor a crash loses it.
SnapshotKeptUntilRestored ==
    [][\A p \in Paths :
          Exists(p) /\ snap'[p] = NoSnapshot => Matches(snap[p].payload)]_vars

\* Fail secure: what corruption put into a file never reaches the settings,
\* also when the file or the key changes between the checks and the restore.
NothingCorruptApplied == plan # Junk

-----------------------------------------------------------------------------
(* The strengthenings that make the properties inductive                   *)

\* No memory and no signature holds what corruption put into a file.
CleanInv ==
    /\ NothingCorruptApplied
    /\ \A a \in Actors : held[a].plan # Junk
    /\ \A p \in Paths : snap[p].hmac.of.plan # Junk

\* One snapshot file, one operation at a time, restoring works, the atomic
\* move does too, and the disk does not corrupt; reading settings, files and
\* keys may fail, and the actor may die anywhere.
SafeStore ==
    /\ Serial
    /\ \A p, q \in Paths : p = q
    /\ Faults \subseteq {"capture", "io", "crash"}

\* Where an actor is tells which key and which snapshot are on disk.
SaveInv(a) ==
    /\ pc[a] \notin {"removeTarget", "rename"}
    /\ pc[a] = "openKey" => keyfile = NoKey /\ key[a] \in Keys
    /\ pc[a] = "writeKey" => keyfile = BadKey /\ a \in open /\ key[a] \in Keys
    /\ pc[a] \in {"stage", "move"} => keyfile = key[a] /\ key[a] \in Keys

RestoreInv(a) ==
    /\ pc[a] \in {"restoreAudio", "restorePower", "delete"} =>
          Exists(path[a]) /\ held[a] = snap[path[a]].payload
    /\ pc[a] \in {"restorePower", "delete"} => held[a].fx \in {"none", Captured(fx)}
    /\ pc[a] = "delete" => held[a].plan \in {"none", plan}
    /\ pc[a] \in {"zeroKey", "deleteKey"} => \A p \in Paths : ~Exists(p)

StoreInv ==
    /\ \A a, b \in Actors : a = b \/ pc[a] = "idle" \/ pc[b] = "idle"
    /\ \A p \in Paths : Exists(p) => keyfile \in Keys
    /\ SnapshotVerifiable
    /\ \A a \in Actors : SaveInv(a) /\ RestoreInv(a)

=============================================================================
