------------------------ MODULE SettingsTransaction ------------------------
(***************************************************************************)
(* What the optimization coordinator promises the user, with the record    *)
(* file, the callers and their steps left out: settings are changed only   *)
(* by a transaction under way, a transaction that ended can be undone, and *)
(* until it has been undone completely every step leads back to the user's *)
(* settings and no other transaction begins.                               *)
(***************************************************************************)
CONSTANT Settings

VARIABLES
    phase,    \* "clean", a transaction is "changing" settings, or "undoable"
    changed   \* the settings that differ from the user's

Init == phase = "clean" /\ changed = {}

Begin == phase = "clean" /\ phase' = "changing" /\ UNCHANGED changed

Change(s) ==
    /\ phase = "changing" /\ s \notin changed
    /\ changed' = changed \cup {s} /\ UNCHANGED phase

\* A transaction may give up only as long as it has changed nothing.
Abort == phase = "changing" /\ changed = {} /\ phase' = "clean" /\ UNCHANGED changed

\* Some steps may have failed: what was changed is committed as it is.
Commit == phase = "changing" /\ phase' = "undoable" /\ UNCHANGED changed

Undo(s) ==
    /\ phase = "undoable" /\ s \in changed
    /\ changed' = changed \ {s} /\ UNCHANGED phase

Finish == phase = "undoable" /\ changed = {} /\ phase' = "clean" /\ UNCHANGED changed

Next ==
    \/ Begin \/ Abort \/ Commit \/ Finish
    \/ \E s \in Settings : Change(s) \/ Undo(s)

Spec == Init /\ [][Next]_<<phase, changed>>

=============================================================================
