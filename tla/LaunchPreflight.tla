--------------------------- MODULE LaunchPreflight ---------------------------
(***************************************************************************)
(* What the daemon reads before it launches the game, as operators: the    *)
(* safety tiers (safety_db.rs), the Vanguard check (vanguard_check.rs),    *)
(* the processor topology (hardware/cpu.rs), the installed launchers       *)
(* (valorant_launcher.rs) and the validation of an executable that is to   *)
(* be started again (terminator.rs).                                       *)
(***************************************************************************)
EXTENDS Naturals, Sequences, FiniteSets, SequencesExt, FiniteSetsExt

CONSTANT None

-----------------------------------------------------------------------------
(* Safety tiers: one or two names stand for each table of safety_db.rs.    *)

Game == "valorant-win64-shipping.exe"
RiotClient == "riotclientservices.exe"
CefUi == "riotclientux.exe"

Tier0Protected == {"explorer.exe", "vgc.exe", RiotClient, Game}
Tier1Driver == {"nvcontainer.exe"}
Tier2SafeTerminate == {"discord.exe", "chrome.exe", CefUi}
Tier0Services == {"vgc", "wuauserv"}
Tier3ServicePause == {"SysMain", "DiagTrack", "Spooler"}

classify_process(name) ==
    CASE name \in Tier0Protected -> 0
      [] name \in Tier1Driver -> 1
      [] name \in Tier2SafeTerminate -> 2
      [] OTHER -> None

assert_safe_to_kill(name) == classify_process(name) # 0
assert_safe_to_stop_service(name) == name \notin Tier0Services

-----------------------------------------------------------------------------
(* Vanguard: every reading that cannot be taken counts as the code says:   *)
(* an unreadable service, driver list or Secure Boot key is a violation,   *)
(* unreadable boot options and Device Guard keys are not.                  *)

Checks == {"vgc", "vgk", "secure_boot", "test_signing_off", "vbs_hvci"}
Readings == {"yes", "no", "unreadable"}

\* check.
Violations(machine) ==
    {c \in {"vgc", "vgk", "secure_boot"} : machine[c] # "yes"}
        \cup {c \in {"test_signing_off", "vbs_hvci"} : machine[c] = "no"}

ensure_compliant(machine, bypass) == Violations(machine) = {} \/ bypass

-----------------------------------------------------------------------------
(* Processor topology: a core is its efficiency class, its processor group *)
(* and its logical processors there; a firmware record is a core or some   *)
(* other relation, or it is cut short.                                     *)

CoreRecords == [relation : {"core"}, class : 0 .. 255, group : Nat, cpus : SUBSET Nat]
Records     == CoreRecords \cup [relation : {"cache", "package", "cut"}]

\* The cores, by their place in the buffer.  The walk stops at the first record
\* whose size does not fit.
parse_processor_cores(buffer) ==
    LET cut   == {i \in DOMAIN buffer : buffer[i].relation = "cut"}
        whole == IF cut = {} THEN DOMAIN buffer ELSE 1 .. Min(cut) - 1
    IN  [i \in {j \in whole : buffer[j].relation = "core"} |-> buffer[i]]

\* The bounds of the classes as the loop over the cores computes them, from the
\* least and the greatest value of a byte.
MaxClass(cores) == Max({0} \cup {cores[i].class : i \in DOMAIN cores})
MinClass(cores) == Min({255} \cup {cores[i].class : i \in DOMAIN cores})

\* (Mutant: low classes are taken for fast cores.)
MaskOfWeakestCores(cores) ==
    LET best == {i \in DOMAIN cores : cores[i].class = MinClass(cores) /\ cores[i].group = 0}
        mask == UNION {cores[i].cpus : i \in best}
    IN  IF MaxClass(cores) > MinClass(cores) /\ mask # {} THEN mask ELSE None

\* p_core_affinity_mask: only hybrid processors restrict the game, and only to
\* performance cores of processor group 0.
evaluate_topology(cores) ==
    LET best == {i \in DOMAIN cores : cores[i].class = MaxClass(cores) /\ cores[i].group = 0}
        mask == UNION {cores[i].cpus : i \in best}
    IN  IF MaxClass(cores) > MinClass(cores) /\ mask # {} THEN mask ELSE None

-----------------------------------------------------------------------------
(* Launchers: where find_riot_client_executable looks, in its order.       *)

ClientSources ==
    <<"rc_default", "rc_live", "HKCU", "HKLM", "WOW6432Node", "open command", "drive">>

\* The first place that names a file which exists.
find_riot_client_executable(present) ==
    LET hits == {i \in DOMAIN ClientSources : ClientSources[i] \in present}
    IN  IF hits = {} THEN None ELSE ClientSources[Min(hits)]

-----------------------------------------------------------------------------
(* Paths of closed applications: what a stored path may have become.       *)

PathKinds == {"file", "missing", "directory", "relative", "script", "empty"}

validate_relaunch_path(kind, image) == kind = "file" /\ classify_process(image) # 0

=============================================================================
