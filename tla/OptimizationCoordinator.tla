---------------------- MODULE OptimizationCoordinator ----------------------
(***************************************************************************)
(* The transactional settings engine: apply_optimizations, rollback and    *)
(* recover_orphaned_transaction, run by any number of callers (the pipe    *)
(* handler, a supervisor thread, a CLI process, the GUI's in-process       *)
(* fallback) over the same registry values, the same power scheme and the  *)
(* same record file, active_transaction.json.  The code takes no lock, so  *)
(* the callers interleave between any two system calls.                    *)
(*                                                                         *)
(* `orig' is a history variable: the settings the user had at Init, which  *)
(* a complete rollback has to bring back.                                  *)
(***************************************************************************)
EXTENDS FiniteSets

CONSTANTS
    Actors,           \* threads and processes that call the coordinator
    Endpoints,        \* render endpoints of the audio subsystem
    Schemes,          \* power schemes installed on the machine
    Ultimate,         \* ULTIMATE_PERFORMANCE_GUID
    HighPerformance,  \* HIGH_PERFORMANCE_GUID
    Laptop,           \* is_laptop()
    Exclusive,        \* TRUE: applies start alone, on a machine without a record
    Faults            \* the kinds of failure that may happen

\* What may go wrong, by the place where it does.
FaultKinds ==
    { "query",          \* a setting cannot be read and a default is assumed
      "apply",          \* a setter fails while optimizations are applied
      "persist",        \* the record cannot be created, or not be written
      "restore",        \* a setter fails while settings are restored
      "remove",         \* the record cannot be deleted
      "crashApply",     \* an actor dies inside apply_optimizations
      "crashRollback" } \* an actor dies inside recover_orphaned_transaction

ASSUME CoordinatorAssumption ==
    /\ Ultimate \in Schemes /\ HighPerformance \in Schemes
    /\ "none" \notin Schemes
    /\ Laptop \in BOOLEAN /\ Exclusive \in BOOLEAN
    /\ Faults \subseteq FaultKinds

VARIABLES
    allow,   \* HKCU GameBar AllowAutoGameMode
    auto,    \* HKCU GameBar AutoGameModeEnabled
    power,   \* the active power scheme
    audio,   \* Disable_SysFx of each endpoint
    file,    \* active_transaction.json
    open,    \* actors whose write handle refers to the present file
    pc,      \* where each actor is
    tx,      \* the OptimizationTransaction each actor holds in memory
    todo,    \* endpoints the actor's audio loop has not visited
    orig     \* history: the settings before the first apply

settings == <<allow, auto, power, audio>>
vars == <<allow, auto, power, audio, file, open, pc, tx, todo, orig>>

-----------------------------------------------------------------------------
(* Data                                                                    *)

\* A registry DWORD of interest: missing, zero, or set.
Dword == {"absent", "0", "1"}

\* An OptimizationTransaction: "none" is Option::None, and for an endpoint
\* that it has no AudioEndpointBackup.
Transaction ==
    [ game  : {"none", "0", "1"},
      power : Schemes \cup {"none"},
      audio : [Endpoints -> Dword \cup {"none"}] ]

EmptyTx ==
    [ game  |-> "none",
      power |-> "none",
      audio |-> [e \in Endpoints |-> "none"] ]

\* The record file: missing, created or truncated but not yet written, written
\* but not a JSON document, or a transaction.
NoFile    == [kind |-> "missing", tx |-> EmptyTx]
Empty     == [kind |-> "empty",   tx |-> EmptyTx]
Garbled   == [kind |-> "garbled", tx |-> EmptyTx]
Record(t) == [kind |-> "record",  tx |-> t]
Files     == {NoFile, Empty, Garbled} \cup {Record(t) : t \in Transaction}

\* get_game_mode_state: enabled unless the value is there and zero.
GameState(v) == IF v = "0" THEN "0" ELSE "1"

ApplyPCs    == {"setGame", "queryPower", "setPower", "audio", "setAudio",
                "persist", "write"}
RollbackPCs == {"restoreAudio", "restorePower", "restoreGame", "remove"}
PCs         == {"idle", "read"} \cup ApplyPCs \cup RollbackPCs

AllIdle == \A a \in Actors : pc[a] = "idle"

TypeOK ==
    /\ allow \in Dword /\ auto \in Dword
    /\ power \in Schemes
    /\ audio \in [Endpoints -> Dword]
    /\ file \in Files
    /\ open \subseteq Actors
    /\ pc \in [Actors -> PCs]
    /\ tx \in [Actors -> Transaction]
    /\ todo \in [Actors -> SUBSET Endpoints]
    /\ orig \in [allow : Dword, auto : Dword, power : Schemes,
                 audio : [Endpoints -> Dword]]

\* Any settings the user may have, and no record.
Init ==
    /\ allow \in Dword /\ auto \in Dword
    /\ power \in Schemes
    /\ audio \in [Endpoints -> Dword]
    /\ file = NoFile
    /\ open = {}
    /\ pc = [a \in Actors |-> "idle"]
    /\ tx = [a \in Actors |-> EmptyTx]
    /\ todo = [a \in Actors |-> {}]
    /\ orig = [allow |-> allow, auto |-> auto, power |-> power, audio |-> audio]

-----------------------------------------------------------------------------
(* Steps of one actor                                                      *)

Goto(a, where) == pc' = [pc EXCEPT ![a] = where]

\* Transaction t with value v recorded for endpoint e.
WithBackup(t, e, v) == [t EXCEPT !.audio[e] = v]

Note(a, t) == tx' = [tx EXCEPT ![a] = t]

\* The two RegSetValueExW calls of set_game_mode: which of them took effect.
WriteGameMode(v, written) ==
    /\ allow' = IF "allow" \in written THEN v ELSE allow
    /\ auto'  = IF "auto"  \in written THEN v ELSE auto

GameValues == {"allow", "auto"}

\* apply_optimizations begins: set_game_mode reads the previous state (an
\* unreadable key counts as enabled) into the transaction.
StartApply(a) ==
    /\ pc[a] = "idle"
    /\ Exclusive => AllIdle /\ file = NoFile
    /\ \E prev \in {GameState(allow)}
                     \cup (IF "query" \in Faults THEN {"1"} ELSE {}) :
          Note(a, [EmptyTx EXCEPT !.game = prev])
    /\ Goto(a, "setGame")
    /\ UNCHANGED <<settings, file, open, todo, orig>>

\* set_game_mode(true) writes.  It reports success if either write did.
SetGame(a) ==
    /\ pc[a] = "setGame"
    /\ \E written \in SUBSET GameValues :
          /\ written # {}
          /\ written # GameValues => "apply" \in Faults
          /\ WriteGameMode("1", written)
    /\ Goto(a, "queryPower")
    /\ UNCHANGED <<power, audio, file, open, tx, todo, orig>>

\* set_game_mode(true) fails: rollback() of a transaction that has recorded
\* nothing restores nothing and goes on to delete the record file.
SetGameFails(a) ==
    /\ pc[a] = "setGame"
    /\ "apply" \in Faults
    /\ Note(a, EmptyTx)
    /\ Goto(a, "remove")
    /\ UNCHANGED <<settings, file, open, todo, orig>>

EnterAudio(a) ==
    /\ Goto(a, "audio")
    /\ todo' = [todo EXCEPT ![a] = Endpoints]

\* apply_gaming_power_scheme reads the active scheme; a laptop keeps it.
QueryPower(a) ==
    /\ pc[a] = "queryPower"
    /\ Note(a, [tx[a] EXCEPT !.power = power])
    /\ \/ Laptop /\ EnterAudio(a)
       \/ ~Laptop /\ Goto(a, "setPower") /\ UNCHANGED todo
    /\ UNCHANGED <<settings, file, open, orig>>

\* The active scheme cannot be read: the step is skipped with a warning.
QueryPowerFails(a) ==
    /\ pc[a] = "queryPower"
    /\ "apply" \in Faults
    /\ EnterAudio(a)
    /\ UNCHANGED <<settings, file, open, tx, orig>>

\* Mutant of SetPower: the scheme is read for the record after the change.
SetPowerThenQuery(a) ==
    /\ pc[a] = "setPower"
    /\ \/ power' = Ultimate
       \/ "apply" \in Faults /\ power' = HighPerformance
    /\ tx' = [tx EXCEPT ![a].power = power']
    /\ EnterAudio(a)
    /\ UNCHANGED <<allow, auto, audio, file, open, orig>>

\* Ultimate Performance, or High Performance where it cannot be activated.
SetPower(a) ==
    /\ pc[a] = "setPower"
    /\ \/ power' = Ultimate
       \/ "apply" \in Faults /\ power' = HighPerformance
    /\ EnterAudio(a)
    /\ UNCHANGED <<allow, auto, audio, file, open, tx, orig>>

\* Neither scheme can be activated: nothing changed, nothing is recorded.
SetPowerFails(a) ==
    /\ pc[a] = "setPower"
    /\ "apply" \in Faults
    /\ Note(a, [tx[a] EXCEPT !.power = "none"])
    /\ EnterAudio(a)
    /\ UNCHANGED <<settings, file, open, orig>>

\* disable_audio_enhancements opens the next endpoint's FxProperties and reads
\* the value it is about to overwrite; a failed read counts as "absent".
QueryEndpoint(a) ==
    /\ pc[a] = "audio"
    /\ \E e \in todo[a] :
         \E prev \in {audio[e]}
                       \cup (IF "query" \in Faults THEN {"absent"} ELSE {}) :
            Note(a, WithBackup(tx[a], e, prev))
    /\ Goto(a, "setAudio")
    /\ UNCHANGED <<settings, file, open, todo, orig>>

\* The key of an endpoint cannot be opened (or, for all of them, the endpoints
\* cannot be enumerated): it is passed over.
SkipEndpoint(a) ==
    /\ pc[a] = "audio"
    /\ "apply" \in Faults
    /\ \E e \in todo[a] : todo' = [todo EXCEPT ![a] = @ \ {e}]
    /\ UNCHANGED <<settings, file, open, pc, tx, orig>>

\* The endpoint whose previous value was just read: visited, still to do.
Current(a, e) == e \in todo[a] /\ tx[a].audio[e] # "none"

\* Write 1, and keep the backup in the transaction.
SetEndpoint(a) ==
    /\ pc[a] = "setAudio"
    /\ \E e \in Endpoints :
          /\ Current(a, e)
          /\ audio' = [audio EXCEPT ![e] = "1"]
          /\ todo' = [todo EXCEPT ![a] = @ \ {e}]
    /\ Goto(a, "audio")
    /\ UNCHANGED <<allow, auto, power, file, open, tx, orig>>

\* The write failed: no backup is pushed.
SetEndpointFails(a) ==
    /\ pc[a] = "setAudio"
    /\ "apply" \in Faults
    /\ \E e \in Endpoints :
          /\ Current(a, e)
          /\ Note(a, WithBackup(tx[a], e, "none"))
          /\ todo' = [todo EXCEPT ![a] = @ \ {e}]
    /\ Goto(a, "audio")
    /\ UNCHANGED <<settings, file, open, orig>>

AudioDone(a) ==
    /\ pc[a] = "audio"
    /\ todo[a] = {}
    /\ Goto(a, "persist")
    /\ UNCHANGED <<settings, file, open, tx, todo, orig>>

\* fs::write, first half: the file is created, or truncated if it was there.
PersistOpen(a) ==
    /\ pc[a] = "persist"
    /\ file' = Empty
    /\ open' = open \cup {a}
    /\ Goto(a, "write")
    /\ UNCHANGED <<settings, tx, todo, orig>>

\* The actor is back at its caller; its transaction is gone.
Return(a) ==
    /\ Goto(a, "idle")
    /\ Note(a, EmptyTx)
    /\ todo' = [todo EXCEPT ![a] = {}]

\* fs::write fails to open the file; the error is ignored.
PersistFails(a) ==
    /\ pc[a] = "persist"
    /\ "persist" \in Faults
    /\ Return(a)
    /\ UNCHANGED <<settings, file, open, orig>>

\* fs::write, second half.  The handle may refer to a file that was deleted
\* meanwhile; and what another writer put there meanwhile may be longer and
\* leave its tail behind this record, which then does not parse.
PersistWrite(a) ==
    /\ pc[a] = "write"
    /\ \/ a \in open /\ file' = Record(tx[a])
       \/ a \in open /\ file # Empty /\ file' = Garbled
       \/ a \in open /\ "persist" \in Faults /\ file' = Garbled
       \/ a \notin open /\ UNCHANGED file
    /\ open' = open \ {a}
    /\ Return(a)
    /\ UNCHANGED <<settings, orig>>

-----------------------------------------------------------------------------

\* recover_orphaned_transaction finds the file; it returns Ok(false) at once,
\* and changes nothing, when there is none.
StartRecover(a) ==
    /\ pc[a] = "idle"
    /\ file # NoFile
    /\ Goto(a, "read")
    /\ UNCHANGED <<settings, file, open, tx, todo, orig>>

\* Mutant of ReadRecord: every endpoint is restored, recorded or not.
ReadRecordForAll(a) ==
    /\ pc[a] = "read"
    /\ file.kind = "record"
    /\ Note(a, file.tx)
    /\ todo' = [todo EXCEPT ![a] = Endpoints]
    /\ Goto(a, "restoreAudio")
    /\ UNCHANGED <<settings, file, open, orig>>

\* Reads and parses the record, and begins the rollback of what it found.
ReadRecord(a) ==
    /\ pc[a] = "read"
    /\ file.kind = "record"
    /\ Note(a, file.tx)
    /\ todo' = [todo EXCEPT ![a] = {e \in Endpoints : file.tx.audio[e] # "none"}]
    /\ Goto(a, "restoreAudio")
    /\ UNCHANGED <<settings, file, open, orig>>

\* The file is gone again, or is not a complete document: Err, nothing done.
ReadRecordFails(a) ==
    /\ pc[a] = "read"
    /\ file.kind # "record"
    /\ Return(a)
    /\ UNCHANGED <<settings, file, open, orig>>

\* Mutant of RestoreEndpoint: a value that had been missing is not deleted.
RestoreEndpointKeepsNew(a) ==
    /\ pc[a] = "restoreAudio"
    /\ \E e \in todo[a] :
          /\ IF tx[a].audio[e] = "absent"
                THEN UNCHANGED audio
                ELSE audio' = [audio EXCEPT ![e] = tx[a].audio[e]]
          /\ todo' = [todo EXCEPT ![a] = @ \ {e}]
    /\ UNCHANGED <<allow, auto, power, file, open, pc, tx, orig>>

\* Mutant of RestoreEndpoint: a missing value is restored as
\* original_disabled_state.unwrap_or(0).
RestoreEndpointOrZero(a) ==
    /\ pc[a] = "restoreAudio"
    /\ \E e \in todo[a] :
          /\ audio' = [audio EXCEPT ![e] =
                IF tx[a].audio[e] = "absent" THEN "0" ELSE tx[a].audio[e]]
          /\ todo' = [todo EXCEPT ![a] = @ \ {e}]
    /\ UNCHANGED <<allow, auto, power, file, open, pc, tx, orig>>

\* restore_audio_enhancements, one backup: writes the recorded value back, or
\* deletes the value where there had been none.  Failures are passed over.
RestoreEndpoint(a) ==
    /\ pc[a] = "restoreAudio"
    /\ \E e \in todo[a] :
          /\ \/ audio' = [audio EXCEPT ![e] = tx[a].audio[e]]
             \/ "restore" \in Faults /\ UNCHANGED audio
          /\ todo' = [todo EXCEPT ![a] = @ \ {e}]
    /\ UNCHANGED <<allow, auto, power, file, open, pc, tx, orig>>

RestoreAudioDone(a) ==
    /\ pc[a] = "restoreAudio"
    /\ todo[a] = {}
    /\ Goto(a, "restorePower")
    /\ UNCHANGED <<settings, file, open, tx, todo, orig>>

\* Mutant of RestorePower: a scheme that is active already is toggled.
RestorePowerToggled(a) ==
    /\ pc[a] = "restorePower"
    /\ power' = IF tx[a].power = "none" THEN power
                ELSE IF power = tx[a].power THEN HighPerformance ELSE tx[a].power
    /\ Goto(a, "restoreGame")
    /\ UNCHANGED <<allow, auto, audio, file, open, tx, todo, orig>>

\* restore_power_scheme, if the record has one.
RestorePower(a) ==
    /\ pc[a] = "restorePower"
    /\ \/ tx[a].power # "none" /\ power' = tx[a].power
       \/ tx[a].power = "none" /\ UNCHANGED power
       \/ "restore" \in Faults /\ UNCHANGED power
    /\ Goto(a, "restoreGame")
    /\ UNCHANGED <<allow, auto, audio, file, open, tx, todo, orig>>

\* restore_game_mode, if the record has it: set_game_mode(previous) writes the
\* same value to both registry values.
RestoreGame(a) ==
    /\ pc[a] = "restoreGame"
    /\ \E written \in SUBSET GameValues :
          /\ written # GameValues =>
                tx[a].game = "none" \/ "restore" \in Faults
          /\ tx[a].game = "none" => written = {}
          /\ WriteGameMode(tx[a].game, written)
    /\ Goto(a, "remove")
    /\ UNCHANGED <<power, audio, file, open, tx, todo, orig>>

\* rollback deletes whatever record file is there now, and returns Ok.
RemoveRecord(a) ==
    /\ pc[a] = "remove"
    /\ \/ file' = NoFile /\ open' = {}
       \/ "remove" \in Faults /\ UNCHANGED <<file, open>>
    /\ Return(a)
    /\ UNCHANGED <<settings, orig>>

\* Actors die between two steps: all of them when the machine loses power,
\* those of one process when that process is killed.
Crash(dead) ==
    /\ dead # {}
    /\ \A a \in dead :
          /\ pc[a] # "idle"
          /\ pc[a] \in ApplyPCs => "crashApply" \in Faults
          /\ pc[a] \notin ApplyPCs => "crashRollback" \in Faults
    /\ pc'   = [a \in Actors |-> IF a \in dead THEN "idle"  ELSE pc[a]]
    /\ tx'   = [a \in Actors |-> IF a \in dead THEN EmptyTx ELSE tx[a]]
    /\ todo' = [a \in Actors |-> IF a \in dead THEN {}      ELSE todo[a]]
    /\ open' = open \ dead
    /\ UNCHANGED <<settings, file, orig>>

ApplyStep(a) ==
    \/ SetGame(a) \/ SetGameFails(a)
    \/ QueryPower(a) \/ QueryPowerFails(a) \/ SetPower(a) \/ SetPowerFails(a)
    \/ QueryEndpoint(a) \/ SkipEndpoint(a) \/ SetEndpoint(a)
    \/ SetEndpointFails(a) \/ AudioDone(a)
    \/ PersistOpen(a) \/ PersistFails(a) \/ PersistWrite(a)

RollbackStep(a) ==
    \/ ReadRecord(a) \/ ReadRecordFails(a)
    \/ RestoreEndpoint(a) \/ RestoreAudioDone(a)
    \/ RestorePower(a) \/ RestoreGame(a) \/ RemoveRecord(a)

Next ==
    \/ \E a \in Actors : StartApply(a) \/ ApplyStep(a)
    \/ \E a \in Actors : StartRecover(a) \/ RollbackStep(a)
    \/ \E dead \in SUBSET Actors : Crash(dead)

Spec == Init /\ [][Next]_vars

-----------------------------------------------------------------------------
(* Properties                                                              *)

\* The settings are the user's: Game Mode as get_game_mode_state reports it,
\* the power scheme, and every endpoint's value including its absence.
AtBaseline ==
    /\ GameState(allow) = GameState(orig.allow)
    /\ power = orig.power
    /\ audio = orig.audio

\* Applying record t to the present settings would bring the baseline back.
Restores(t) ==
    /\ IF t.game = "none" THEN GameState(allow) = GameState(orig.allow)
                          ELSE t.game = GameState(orig.allow)
    /\ IF t.power = "none" THEN power = orig.power ELSE t.power = orig.power
    /\ \A e \in Endpoints :
          IF t.audio[e] = "none" THEN audio[e] = orig.audio[e]
                                 ELSE t.audio[e] = orig.audio[e]

Applying(a) == pc[a] \in ApplyPCs

\* What rollback() and its tests promise: once no record is left and no apply
\* is under way, every setting has the value the user gave it, however many
\* recoveries of one record overlapped or died half-way, and whichever apply
\* steps had failed.
BaselineWhenClean ==
    file = NoFile /\ (\A a \in Actors : ~Applying(a)) => AtBaseline

\* A complete record on disk is always enough to get back to the baseline from
\* the present settings, also in the middle of a recovery and after its crash:
\* recover_orphaned_transaction can be repeated.
RecordRestoresBaseline ==
    file.kind = "record" => Restores(file.tx)

\* Whatever the interleaving, the crashes and the failures: a setting only ever
\* has the user's value, the optimizer's, or the default that stands for an
\* unreadable one.  No rollback of a stale or foreign record invents a value.
NoForeignValues ==
    /\ allow \in {orig.allow, GameState(orig.allow), "1"}
    /\ auto \in {orig.auto, GameState(orig.allow), "1"}
    /\ power \in {orig.power, Ultimate, HighPerformance}
    /\ \A e \in Endpoints : audio[e] \in {orig.audio[e], "1", "absent"}

\* What the comment of apply_optimizations says: the optimizations are applied
\* atomically, and if any step fails the earlier ones are rolled back.  On a
\* machine where nobody is at work either all is as the user had it, or Game Mode
\* is on and a gaming power scheme is active (a laptop keeps its scheme).  The
\* code does not do so: a failing power or audio step is logged and passed over.
AppliedAsAWhole ==
    AllIdle => \/ AtBaseline
               \/ /\ GameState(allow) = "1"
                  /\ Laptop \/ power \in {Ultimate, HighPerformance}

-----------------------------------------------------------------------------
(* The abstract transaction that the coordinator implements                *)

Game     == <<"game">>
Power    == <<"power">>
Audio(e) == <<"audio", e>>

\* A transaction is being made while some caller applies; afterwards it can be
\* undone as long as there is a record.
Phase ==
    IF \E a \in Actors : Applying(a) THEN "changing"
    ELSE IF file = NoFile THEN "clean" ELSE "undoable"

Changed ==
    {s \in {Game} : GameState(allow) # GameState(orig.allow)}
        \cup {s \in {Power} : power # orig.power}
        \cup {Audio(e) : e \in {x \in Endpoints : audio[x] # orig.audio[x]}}

Promise == INSTANCE SettingsTransaction WITH
    Settings <- {Game, Power} \cup {Audio(e) : e \in Endpoints},
    phase <- Phase, changed <- Changed

\* Apply and rollback, with their failing steps, overlapping recoveries and
\* crashes, implement one transaction: settings change only under an apply, and
\* once its record is there each step of each caller leads back to the user's
\* settings, until none is left to undo.  (A transaction may be committed with
\* some of its changes only: see AppliedAsAWhole.)
ImplementsTransaction == Promise!Spec

-----------------------------------------------------------------------------
(* The strengthenings that make the properties inductive                   *)

\* The values of NoForeignValues, for a transaction in memory or on disk.
NativeTx(t) ==
    /\ t.game \in {"none", GameState(orig.allow), "1"}
    /\ t.power \in {"none", orig.power, Ultimate, HighPerformance}
    /\ \A e \in Endpoints :
          t.audio[e] \in {"none", orig.audio[e], "1", "absent"}

NativeInv ==
    /\ NoForeignValues
    /\ NativeTx(file.tx)
    /\ \A a \in Actors : NativeTx(tx[a])

\* The environment in which a rollback restores the baseline: applies start
\* alone on a machine without a record, values can be read, the record can be
\* written, restoring works, and no caller dies inside an apply.  Failing
\* apply steps, undeletable records and recoveries that die are allowed.
SafeEnvironment ==
    /\ Exclusive
    /\ Faults \subseteq {"apply", "remove", "crashRollback"}

\* While one actor applies, the others have nothing to roll back, and the
\* actor's transaction undoes what it has done so far.
ApplyInv(a) ==
    /\ \A b \in Actors \ {a} : pc[b] \in {"idle", "read"}
    /\ IF pc[a] = "write" THEN file = Empty /\ a \in open ELSE file = NoFile
    /\ Restores(tx[a])
    /\ pc[a] = "setGame" => AtBaseline /\ tx[a].game # "none"
    /\ pc[a] \in {"queryPower", "setPower"} =>
          power = orig.power /\ audio = orig.audio
    /\ pc[a] = "setPower" => tx[a].power # "none"
    /\ pc[a] \in {"audio", "setAudio"} =>
          \A e \in todo[a] : audio[e] = orig.audio[e]

\* An actor that rolls back holds a transaction that leads to the baseline,
\* and what it has restored is still restored.
RollbackInv(a) ==
    /\ Restores(tx[a])
    /\ pc[a] = "restoreAudio" =>
          \A e \in Endpoints \ todo[a] : audio[e] = orig.audio[e]
    /\ pc[a] # "restoreAudio" => audio = orig.audio
    /\ pc[a] \in {"restoreGame", "remove"} => power = orig.power
    /\ pc[a] = "remove" => AtBaseline

RecoveryInv ==
    /\ \A a \in Actors : pc[a] \in ApplyPCs => ApplyInv(a)
    /\ \A a \in Actors : pc[a] \in RollbackPCs => RollbackInv(a)
    /\ file = NoFile \/ file = Empty \/ file.kind = "record"
    /\ file = Empty => \E a \in Actors : pc[a] = "write"
    /\ BaselineWhenClean
    /\ RecordRestoresBaseline

=============================================================================
