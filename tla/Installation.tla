---------------------------- MODULE Installation ----------------------------
(***************************************************************************)
(* The clean installer (runtime/installer.py and its _install_* owners).   *)
(*                                                                         *)
(* install_clean_runtime builds one installation in a private staging      *)
(* directory beside the target, phase by phase, and publishes it with one  *)
(* rename that never replaces.  Installers compete for one target name;    *)
(* any of them may fail or die between two steps; an unrelated program may *)
(* drop a file into a stage; the machine may lose power.                   *)
(*                                                                         *)
(* A directory is a pair of sets of entries: what a reader sees now and    *)
(* what is certain to be on the disk.  An entry is <<name, maker>>, so     *)
(* that a mixture of two installers' work can be told from either's.       *)
(***************************************************************************)
EXTENDS Naturals, FiniteSets

CONSTANTS Installer,        \* processes that run install_clean_runtime
          Epoch,            \* install epochs, which name the stages
          MaxIntrusions,    \* files dropped by an unrelated program
          MaxPowerLosses    \* power losses

ASSUME InstallationAssumption ==
  /\ MaxIntrusions \in Nat
  /\ MaxPowerLosses \in Nat

Absent == [now |-> {}, disk |-> {}, exists |-> FALSE]

(***************************************************************************)
(* The names of an installation.  "v5" and "v6" are the content of the     *)
(* database file, "pending" a committed v6 that is only in the WAL, "wal"  *)
(* the sidecar files.                                                      *)
(***************************************************************************)
Evidence == {"receipt", "preparation", "attestation", "profile", "current", "history"}
SqliteName == {"v5", "v6", "pending", "wal", "backup"}
Whole(i) == {<<name, i>> : name \in Evidence \union {"v6"}}
Foreign == <<"foreign", "nobody">>
Runtime == <<"runtime", "host">>

VARIABLES stages,    \* stages[e]: the staging directory of epoch e
          target,    \* the runtime home: a directory, the epoch it was staged
                     \* under, and whether its name is certainly on the disk
          work,      \* work[i]: where installer i is, its epoch and manifest
          intrusions,
          losses
installVars == <<stages, target, work, intrusions, losses>>

NoTarget == [dir |-> Absent, epoch |-> "none", durable |-> FALSE]
Idle == [pc |-> "idle", epoch |-> "none", owned |-> {}, recorded |-> TRUE]

InstallInit ==
  /\ stages = [e \in Epoch |-> Absent]
  /\ target = NoTarget
  /\ work = [i \in Installer |-> Idle]
  /\ intrusions = 0
  /\ losses = 0

\* A stage that nobody will open again: only its name matters.
Abandoned == [Absent EXCEPT !.exists = TRUE]

\* An installer that is over keeps nothing but what it reported.
Ended(pc) == [Idle EXCEPT !.pc = pc]
Outcome == {"refused", "failed", "residue", "installed", "indeterminate"}

Stage(i) == stages[work[i].epoch]
Staging == {"staged", "made", "v5", "copied", "backup", "sidecars", "v6", "verified", "quiesced",
            "evidence", "trimmed", "proved", "synced"}

(***************************************************************************)
(* _preflight_target_with_chain: whatever is at the target name, in any    *)
(* form, refuses the installation.                                         *)
(***************************************************************************)
PreflightTarget(i) ==
  /\ work[i].pc = "idle"
  /\ work' = [work EXCEPT ![i] = Ended(IF target.dir.exists THEN "refused" ELSE "checked")]
  /\ UNCHANGED <<stages, target, intrusions, losses>>

(***************************************************************************)
(* The intent, the receipt and the wheel are opened once, and bound to     *)
(* each other and to the target; any mismatch refuses, with no effect.     *)
(***************************************************************************)
BindInputs(i) ==
  /\ work[i].pc = "checked"
  /\ \E pc \in {"bound", "refused"} : work' = [work EXCEPT ![i] = Ended(pc)]
  /\ UNCHANGED <<stages, target, intrusions, losses>>

(***************************************************************************)
(* _issue_epoch and _create_stage: the stage is named after the epoch and  *)
(* made exclusively; one that exists is never adopted.                     *)
(***************************************************************************)
CreateStage(i) ==
  /\ work[i].pc = "bound"
  /\ \E e \in Epoch :
       IF stages[e].exists
       THEN /\ work' = [work EXCEPT ![i] = Ended("refused")]
            /\ UNCHANGED stages
       ELSE /\ work' = [work EXCEPT ![i] = [Idle EXCEPT !.pc = "staged", !.epoch = e]]
            /\ stages' = [stages EXCEPT ![e] = [Absent EXCEPT !.exists = TRUE]]
  /\ UNCHANGED <<target, intrusions, losses>>

(***************************************************************************)
(* The ownership manifest.  A phase begins only if the stage holds exactly *)
(* what the manifest says (validate_stage_ownership) and, for the SQLite   *)
(* phases, only names the adapter knows (_check_entries).  When it is over *)
(* the manifest is taken anew from the directory (record_stage_ownership): *)
(* a file that arrived in between is in it from then on.                   *)
(***************************************************************************)
OwnsStage(i) == Stage(i).now = work[i].owned
KnownEntries(i, names) == Stage(i).now \subseteq names \X {i}

Ready(i, pc) ==
  /\ work[i].pc = pc
  /\ work[i].recorded
  /\ OwnsStage(i)

Record(i) ==
  /\ work[i].pc \in Staging \ {"made", "copied"}
  /\ ~work[i].recorded
  /\ work' = [work EXCEPT ![i].owned = Stage(i).now, ![i].recorded = TRUE]
  /\ UNCHANGED <<stages, target, intrusions, losses>>

\* One phase: entries go and come, and the phase ends with or without the
\* directory being synced.
Phase(i, pc, gone, new, synced) ==
  LET now == (Stage(i).now \ gone) \union new
  IN /\ stages' = [stages EXCEPT ![work[i].epoch].now = now,
                                 ![work[i].epoch].disk = IF synced THEN now ELSE @]
     /\ work' = [work EXCEPT ![i].pc = pc, ![i].recorded = FALSE]
     /\ UNCHANGED <<target, intrusions, losses>>

\* construct_empty_v5: the stage is empty, and the registry makes v1 to v5 ...
ConstructEmptyV5(i) ==
  /\ Ready(i, "staged")
  /\ Stage(i).now = {}
  /\ Phase(i, "made", {}, {<<"v5", i>>}, FALSE)

\* ... whose objects, rows and integrity are then read back.
VerifyEmptyV5(i) ==
  /\ work[i].pc = "made"
  /\ KnownEntries(i, {"v5", "wal"})
  /\ Phase(i, "v5", {}, {}, FALSE)

\* create_sqlite_backup: the copy is linked under its name without replacing,
\* and the directory is synced ...
CreateBackup(i) ==
  /\ Ready(i, "v5")
  /\ KnownEntries(i, {"v5", "wal"})
  /\ Phase(i, "copied", {}, {<<"backup", i>>}, TRUE)

\* ... and read back as the empty v5 that the preparation is bound to.
VerifyBackup(i) ==
  /\ work[i].pc = "copied"
  /\ KnownEntries(i, SqliteName)
  /\ Phase(i, "backup", {}, {}, TRUE)

\* prepare_v6_sidecars: the WAL names are made before SQLite may.
PrepareSidecars(i) ==
  /\ Ready(i, "backup")
  /\ KnownEntries(i, SqliteName)
  /\ Phase(i, "sidecars", {}, {<<"wal", i>>}, TRUE)

\* apply_registry_v6: one transaction; closing the last connection may
\* already have moved it from the WAL to the database file.
ApplyV6(i) ==
  /\ Ready(i, "sidecars")
  /\ KnownEntries(i, SqliteName)
  /\ \/ Phase(i, "v6", {}, {<<"pending", i>>}, FALSE)
     \/ Phase(i, "v6", {<<"v5", i>>, <<"wal", i>>}, {<<"v6", i>>}, FALSE)

\* verify_v6: the rows are read back through the WAL.
VerifyV6(i) ==
  /\ Ready(i, "v6")
  /\ KnownEntries(i, SqliteName)
  /\ {<<"pending", i>>, <<"v6", i>>} \intersect Stage(i).now # {}
  /\ Phase(i, "verified", {}, {}, FALSE)

\* quiesce_database: the WAL is checkpointed into the file, must be empty, and
\* its sidecars are removed.
QuiesceDatabase(i) ==
  /\ Ready(i, "verified")
  /\ KnownEntries(i, SqliteName)
  /\ <<"backup", i>> \in Stage(i).now
  /\ Phase(i, "quiesced", {<<"v5", i>>, <<"pending", i>>, <<"wal", i>>}, {<<"v6", i>>}, TRUE)

\* _write_install_evidence: each file exclusively, synced with its directory;
\* the stage's own entry for them is synced by the next phase.
WriteEvidence(i) ==
  /\ Ready(i, "quiesced")
  /\ Stage(i).now \intersect (Evidence \X Installer) = {}
  /\ Phase(i, "evidence", {}, {<<name, i>> : name \in Evidence}, FALSE)

RemoveBackup(i) ==
  /\ Ready(i, "evidence")
  /\ KnownEntries(i, SqliteName \union Evidence)
  /\ <<"backup", i>> \in Stage(i).now
  /\ Phase(i, "trimmed", {<<"backup", i>>}, {}, TRUE)

\* _verify_staged_evidence: the exact inventory, and every document read back
\* against this installer's own.  The database is only checked by its name.
VerifyStagedEvidence(i) ==
  /\ Ready(i, "trimmed")
  /\ Stage(i).now \ {<<"v5", i>>, <<"v6", i>>} = {<<name, i>> : name \in Evidence}
  /\ work' = [work EXCEPT ![i].pc = "proved"]
  /\ UNCHANGED <<stages, target, intrusions, losses>>

\* The database and the stage are synced before the rename.
SyncStage(i) ==
  /\ Ready(i, "proved")
  /\ stages' = [stages EXCEPT ![work[i].epoch].disk = Stage(i).now]
  /\ work' = [work EXCEPT ![i].pc = "synced"]
  /\ UNCHANGED <<target, intrusions, losses>>

(***************************************************************************)
(* _publish: renameat2 with RENAME_NOREPLACE.  The manifest is not looked  *)
(* at again; a target that has appeared is a failed phase.                 *)
(***************************************************************************)
Publish(i) ==
  /\ work[i].pc = "synced"
  /\ ~target.dir.exists
  /\ target' = [dir |-> Stage(i), epoch |-> work[i].epoch, durable |-> FALSE]
  /\ stages' = [stages EXCEPT ![work[i].epoch] = Absent]
  /\ work' = [work EXCEPT ![i].pc = "renamed"]
  /\ UNCHANGED <<intrusions, losses>>

\* Bug: the parent directory is not synced before the installation counts.
VerifyPublicationUnsynced(i) ==
  /\ work[i].pc = "renamed"
  /\ work' = [work EXCEPT ![i].pc = "fenced"]
  /\ UNCHANGED <<stages, target, intrusions, losses>>

(***************************************************************************)
(* _verify_publication: the published name is this stage's inode, and the  *)
(* parent is synced; a failure leaves the outcome indeterminate.           *)
(***************************************************************************)
VerifyPublication(i) ==
  /\ work[i].pc = "renamed"
  /\ \/ /\ target.epoch = work[i].epoch
        /\ target' = [target EXCEPT !.durable = TRUE]
        /\ work' = [work EXCEPT ![i].pc = "fenced"]
     \/ /\ work' = [work EXCEPT ![i] = Ended("indeterminate")]
        /\ UNCHANGED target
  /\ UNCHANGED <<stages, intrusions, losses>>

(***************************************************************************)
(* verify_published_install: first the exact inventory, which knows the    *)
(* database only by its name, then every document bound to the others and  *)
(* to this target, and v6 in the database file itself.                     *)
(***************************************************************************)
ExactInventory(allowed) ==
  {entry[1] : entry \in target.dir.now \ allowed} \ {"v5", "v6"} = Evidence

ReadBack(i, allowed) ==
  /\ target.dir.exists
  /\ ExactInventory(allowed)
  /\ target.dir.now \ allowed = Whole(i)

\* The installer allows no runtime state, and compares with what it prepared.
VerifyPublished(i) ==
  /\ work[i].pc = "fenced"
  /\ work' = [work EXCEPT ![i] = Ended(IF ReadBack(i, {}) THEN "installed" ELSE "indeterminate")]
  /\ UNCHANGED <<stages, target, intrusions, losses>>

(***************************************************************************)
(* A phase fails before the rename: its precondition, or the system.  What *)
(* it has already written stays.  A failed v5 construction may take its    *)
(* own file into the manifest, and a failed migration may strike sidecars  *)
(* that have gone (reconcile_removed_stage_entries).  Then cleanup_stage   *)
(* removes the stage, and refuses when it does not match the manifest.     *)
(***************************************************************************)
Leavings(i) ==
  CASE work[i].pc = "staged"   -> {Stage(i).now, Stage(i).now \union {<<"v5", i>>}}
    [] work[i].pc = "sidecars" -> {Stage(i).now, Stage(i).now \ {<<"wal", i>>}}
    [] work[i].pc = "quiesced" -> {Stage(i).now, Stage(i).now \union {<<"receipt", i>>}}
    [] OTHER                   -> {Stage(i).now}

Reconciled(i, left) ==
  \/ left = work[i].owned
  \/ work[i].pc \in {"staged", "made"} /\ left \subseteq {<<"v5", i>>}
  \/ work[i].pc = "sidecars" /\ left \subseteq work[i].owned

CleanupStage(i, left) ==
  IF Reconciled(i, left)
  THEN /\ stages' = [stages EXCEPT ![work[i].epoch] = Absent]
       /\ work' = [work EXCEPT ![i] = Ended("failed")]
  ELSE /\ stages' = [stages EXCEPT ![work[i].epoch] = Abandoned]
       /\ work' = [work EXCEPT ![i] = Ended("residue")]

PhaseFails(i) ==
  /\ work[i].pc \in Staging
  /\ \E left \in Leavings(i) : CleanupStage(i, left)
  /\ UNCHANGED <<target, intrusions, losses>>

\* The installer dies: nothing is cleaned up and nothing remembers it.
InstallerDies(i) ==
  /\ work[i].pc \notin Outcome \union {"idle", "dead"}
  /\ work' = [work EXCEPT ![i] = Ended("dead")]
  /\ stages' = [e \in Epoch |->
                  IF work[i].pc \in Staging /\ e = work[i].epoch THEN Abandoned ELSE stages[e]]
  /\ UNCHANGED <<target, intrusions, losses>>

\* An unrelated program drops a file into a stage that is in use.
Intrude(e) ==
  /\ intrusions < MaxIntrusions
  /\ \E i \in Installer : work[i].pc \in Staging /\ work[i].epoch = e
  /\ stages' = [stages EXCEPT ![e].now = @ \union {Foreign}]
  /\ intrusions' = intrusions + 1
  /\ UNCHANGED <<target, work, losses>>

(***************************************************************************)
(* Power loss.  What was synced is there; an entry that was added or       *)
(* removed since may or may not have reached the disk; a rename whose      *)
(* parent was not synced may be undone.  A stage is there, or gone.        *)
(***************************************************************************)
Survives(dir, after) ==
  /\ dir.now \intersect dir.disk \subseteq after
  /\ after \subseteq dir.now \union dir.disk

Rebooted(dir, after) == [now |-> after, disk |-> after, exists |-> TRUE]

InstallersDie ==
  work' = [i \in Installer |->
             IF work[i].pc \in Outcome \union {"idle"} THEN work[i] ELSE Ended("dead")]

LoseStages(known) ==
  \E kept \in SUBSET known :
    stages' = [e \in Epoch |-> IF e \in kept THEN Abandoned ELSE Absent]

PowerLoss ==
  /\ losses < MaxPowerLosses
  /\ losses' = losses + 1
  /\ InstallersDie
  /\ \/ /\ target.dir.exists
        /\ \E after \in SUBSET (target.dir.now \union target.dir.disk) :
             /\ Survives(target.dir, after)
             /\ target' = [target EXCEPT !.dir = Rebooted(@, after), !.durable = TRUE]
        /\ LoseStages({e \in Epoch : stages[e].exists})
     \/ /\ ~target.durable
        /\ target' = NoTarget
        /\ LoseStages({e \in Epoch : stages[e].exists \/ target.epoch = e})
  /\ UNCHANGED intrusions

InstallNext ==
  \/ \E i \in Installer :
       \/ PreflightTarget(i) \/ BindInputs(i) \/ CreateStage(i) \/ Record(i)
       \/ ConstructEmptyV5(i) \/ VerifyEmptyV5(i) \/ CreateBackup(i) \/ VerifyBackup(i)
       \/ PrepareSidecars(i) \/ ApplyV6(i)
       \/ VerifyV6(i) \/ QuiesceDatabase(i) \/ WriteEvidence(i) \/ RemoveBackup(i)
       \/ VerifyStagedEvidence(i) \/ SyncStage(i) \/ Publish(i)
       \/ VerifyPublication(i) \/ VerifyPublished(i) \/ PhaseFails(i) \/ InstallerDies(i)
  \/ \E e \in Epoch : Intrude(e)

(***************************************************************************)
(* Whatever stands at the runtime home is the whole installation of one    *)
(* installer: its v6 database and all its evidence, with nothing of        *)
(* another installer and nothing left over, apart from a stranger's file   *)
(* and what a host has added; and the installer that reported success is   *)
(* the one whose installation stands there for good.  (installer.py:153,   *)
(* with _install_fs.py:775: a kill, a race or a power loss at any moment.) *)
(***************************************************************************)
PublishedIsWhole ==
  /\ target.dir.exists =>
       \E i \in Installer : target.dir.now \ {Foreign, Runtime} = Whole(i)
  /\ \A i \in Installer :
       work[i].pc = "installed" => target.dir.exists /\ Whole(i) \subseteq target.dir.now

=============================================================================
