-------------------------- MODULE ActivationProofs --------------------------
(***************************************************************************)
(* Installation and activation of a runtime home, for any number of        *)
(* installers, stages, hosts and clients, and any number of intrusions and *)
(* power losses.                                                           *)
(*                                                                         *)
(* Installation.  Two installers never work in one stage, since a stage is *)
(* made exclusively and nobody leaves one behind under a name that could   *)
(* be made again.  So what a stage holds is what the phases of its owner   *)
(* put there, and at most a stranger's file; the last two phases look at   *)
(* it whole and put it on the disk whole before the rename.                *)
(*                                                                         *)
(* Activation.  A generation belongs to one host, and its directory only   *)
(* ever gains the grant-set file, so the fence a host has seen stays       *)
(* published.  A request is bound to a host and a generation: what it did  *)
(* can only be lost by the host moving on to a later fence.                *)
(***************************************************************************)
EXTENDS Activation, WellFoundedInduction, TLAPS

-----------------------------------------------------------------------------
(* Types.                                                                  *)

Entry == ((Evidence \union SqliteName) \X Installer) \union {Foreign, Runtime}
Directory == [now : SUBSET Entry, disk : SUBSET Entry, exists : BOOLEAN]
Pcs == Staging \union Outcome \union {"idle", "checked", "bound", "renamed", "fenced", "dead"}
WorkRow == [pc : Pcs, epoch : Epoch \union {"none"}, owned : SUBSET Entry, recorded : BOOLEAN]
TargetRow == [dir : Directory, epoch : Epoch \union {"none"}, durable : BOOLEAN]

Stored ==
  /\ stages \in [Epoch -> Directory] /\ work \in [Installer -> WorkRow] /\ target \in TargetRow

-----------------------------------------------------------------------------
(* The stages and the home.                                                *)

Stages(i) == work[i].pc \in Staging

\* an installer that builds has a stage of its own
Placed(i) == Stages(i) => work[i].epoch \in Epoch /\ Stage(i).exists
Apart(i, j) == Stages(i) /\ Stages(j) /\ i # j => work[i].epoch # work[j].epoch

\* what the last phases rely on: v6 is in the database file from the checkpoint of the WAL on,
\* the stage was looked at whole, and it is on the disk before it is renamed
Built(i) ==
  /\ work[i].pc \in {"quiesced", "evidence", "trimmed"} =>
       <<"v6", i>> \in Stage(i).now /\ <<"v5", i>> \notin Stage(i).now
  /\ work[i].pc \in {"proved", "synced"} => work[i].recorded
  /\ work[i].pc = "proved" => work[i].owned = Whole(i)
  /\ work[i].pc = "synced" => /\ Stage(i).disk = Whole(i)
                              /\ Whole(i) \subseteq Stage(i).now
                              /\ Stage(i).now \subseteq Whole(i) \union {Foreign}

Stands(i) ==
  /\ Whole(i) \subseteq target.dir.now /\ Whole(i) \subseteq target.dir.disk
  /\ target.dir.now \subseteq Whole(i) \union {Foreign, Runtime}
  /\ target.dir.disk \subseteq Whole(i) \union {Foreign, Runtime}

Home ==
  /\ target.dir.exists => \E i \in Installer : Stands(i)
  /\ \A i \in Installer :
       /\ work[i].pc \in {"renamed", "fenced", "installed"} => target.dir.exists
       /\ work[i].pc \in {"fenced", "installed"} => target.durable
       /\ work[i].pc = "installed" => Whole(i) \subseteq target.dir.now

Installed ==
  /\ Stored /\ Home
  /\ \A i \in Installer : Placed(i) /\ Built(i)
  /\ \A i, j \in Installer : Apart(i, j)

LEMMA InstalledInit == Init => Installed
<1> SUFFICES ASSUME Init PROVE Installed
  OBVIOUS
<1>1. Absent \in Directory /\ Idle \in WorkRow /\ NoTarget \in TargetRow
  BY DEF Absent, Directory, Idle, WorkRow, Pcs, NoTarget, TargetRow
<1>2. Stored
  BY <1>1 DEF Init, InstallInit, Stored
<1> QED
  BY <1>2 DEF Init, InstallInit, Installed, Home, Placed, Built, Apart, Stages, Staging, Idle,
              NoTarget, Absent

LEMMA Endings ==
  ASSUME NEW pc \in Pcs
  PROVE  Ended(pc) \in WorkRow /\ Ended(pc).pc = pc
BY DEF Ended, Idle, WorkRow

\* one installer's entries are not another's
LEMMA OwnEntries ==
  ASSUME NEW i, NEW j, <<"v6", i>> \in Whole(j) \union {Foreign, Runtime}
  PROVE  i = j
BY DEF Whole, Foreign, Runtime

\* the home stays what it is while an installer works elsewhere
LEMMA HomeKept ==
  ASSUME Installed, NEW i \in Installer, target' = target,
         \A j \in Installer : j # i => work'[j] = work[j],
         work'[i].pc \notin {"renamed", "fenced", "installed"}
  PROVE  Home'
BY DEF Installed, Home, Stands

\* an installer does something in its stage, or is over
LEMMA StageKept ==
  ASSUME Installed, NEW i \in Installer, Stages(i), target' = target,
         work' \in [Installer -> WorkRow], stages' \in [Epoch -> Directory],
         \A j \in Installer : j # i => work'[j] = work[j],
         \A e \in Epoch : e # work[i].epoch => stages'[e] = stages[e],
         Stages(i)' => /\ work'[i].epoch = work[i].epoch /\ stages'[work[i].epoch].exists
                       /\ Built(i)',
         work'[i].pc \notin {"renamed", "fenced", "installed"}
  PROVE  Installed'
<1>1. Stored' /\ Home'
  BY HomeKept DEF Installed, Stored
<1>2. ASSUME NEW j \in Installer
      PROVE  Placed(j)' /\ Built(j)'
  <2>1. CASE j = i
    BY <2>1 DEF Installed, Placed, Built, Stages, Stage, Staging
  <2>2. CASE j # i /\ Stages(j)
    <3>1. work[j].epoch \in Epoch /\ work[j].epoch # work[i].epoch
      BY <2>2 DEF Installed, Placed, Apart
    <3>2. Stage(j)' = Stage(j) /\ work'[j] = work[j]
      BY <2>2, <3>1 DEF Stage
    <3> QED
      BY <3>2 DEF Installed, Placed, Built, Stages
  <2>3. CASE j # i /\ ~Stages(j)
    BY <2>3 DEF Placed, Built, Stages, Staging
  <2> QED
    BY <2>1, <2>2, <2>3
<1>3. \A j, k \in Installer : Apart(j, k)'
  BY DEF Installed, Apart, Stages
<1> QED
  BY <1>1, <1>2, <1>3 DEF Installed

\* an installer that has no stage takes a step
LEMMA AsideKept ==
  ASSUME Installed, NEW i \in Installer, target' = target, stages' = stages,
         NEW pc \in Pcs, pc \notin Staging \union {"renamed", "fenced", "installed"},
         work' = [work EXCEPT ![i] = Ended(pc)]
  PROVE  Installed'
<1>1. /\ work' \in [Installer -> WorkRow] /\ work'[i].pc = pc
      /\ \A j \in Installer : j # i => work'[j] = work[j]
  BY Endings DEF Installed, Stored
<1>2. Stored' /\ Home'
  BY <1>1, HomeKept DEF Installed, Stored
<1>3. ~Stages(i)'
  BY <1>1 DEF Stages
<1>4. \A j \in Installer : Placed(j)' /\ Built(j)'
  BY <1>1, <1>3 DEF Installed, Placed, Built, Stages, Stage, Staging
<1>5. \A j, k \in Installer : Apart(j, k)'
  BY <1>1, <1>3 DEF Installed, Apart, Stages
<1> QED
  BY <1>2, <1>4, <1>5 DEF Installed

LEMMA PhaseKept ==
  ASSUME Installed, NEW i \in Installer, Stages(i), NEW pc \in Staging \ {"proved", "synced"},
         NEW gone, NEW new \in SUBSET Entry, NEW synced \in BOOLEAN,
         Phase(i, pc, gone, new, synced),
         pc \in {"quiesced", "evidence", "trimmed"} =>
           /\ <<"v6", i>> \in (Stage(i).now \ gone) \union new
           /\ <<"v5", i>> \notin (Stage(i).now \ gone) \union new
  PROVE  Installed'
<1> DEFINE now == (Stage(i).now \ gone) \union new
           e == work[i].epoch
<1>1. /\ stages \in [Epoch -> Directory] /\ work \in [Installer -> WorkRow] /\ e \in Epoch
      /\ stages[e].exists
  BY DEF Installed, Stored, Placed, Stage
<1>2. /\ stages' = [stages EXCEPT ![e].now = now, ![e].disk = IF synced THEN now ELSE @]
      /\ work' = [work EXCEPT ![i].pc = pc, ![i].recorded = FALSE] /\ target' = target
      /\ now \in SUBSET Entry
  BY <1>1 DEF Phase, Stage, Directory
<1>3. Stage(i)' = stages'[work'[i].epoch]
  BY DEF Stage
<1>4. pc \in {"quiesced", "evidence", "trimmed"} => <<"v6", i>> \in now /\ <<"v5", i>> \notin now
  OBVIOUS
<1>5. pc \in Pcs
  BY DEF Pcs
<1> HIDE DEF now
<1>6. /\ work' \in [Installer -> WorkRow] /\ work'[i].pc = pc /\ work'[i].epoch = work[i].epoch
      /\ \A j \in Installer : j # i => work'[j] = work[j]
  BY <1>1, <1>2, <1>5 DEF WorkRow
<1> HIDE DEF e
<1>7. /\ stages' \in [Epoch -> Directory] /\ stages'[e].exists /\ stages'[e].now = now
      /\ \A f \in Epoch : f # e => stages'[f] = stages[f]
  BY <1>1, <1>2 DEF Directory
<1>8. Built(i)'
  BY <1>3, <1>4, <1>6, <1>7 DEF Built, e
<1> QED
  BY <1>2, <1>6, <1>7, <1>8, StageKept DEF e, Staging

-----------------------------------------------------------------------------
(* The steps of an installer.                                              *)

LEMMA Names ==
  ASSUME NEW i \in Installer
  PROVE  /\ \A name \in SqliteName \union Evidence : {<<name, i>>} \in SUBSET Entry
         /\ {<<name, i>> : name \in Evidence} \in SUBSET Entry /\ {} \in SUBSET Entry
BY DEF Entry

\* the phases up to the checks of what is published
LEMMA PhasesKept ==
  ASSUME Installed, NEW i \in Installer,
         \/ ConstructEmptyV5(i) \/ VerifyEmptyV5(i) \/ CreateBackup(i) \/ VerifyBackup(i)
         \/ PrepareSidecars(i) \/ ApplyV6(i) \/ VerifyV6(i) \/ QuiesceDatabase(i)
         \/ WriteEvidence(i) \/ RemoveBackup(i)
  PROVE  Installed'
<1>0. /\ {<<"v5", i>>} \in SUBSET Entry /\ {<<"v6", i>>} \in SUBSET Entry
      /\ {<<"backup", i>>} \in SUBSET Entry /\ {<<"wal", i>>} \in SUBSET Entry
      /\ {<<"pending", i>>} \in SUBSET Entry /\ {} \in SUBSET Entry
      /\ {<<name, i>> : name \in Evidence} \in SUBSET Entry
  BY Names DEF SqliteName
<1>1. CASE ConstructEmptyV5(i)
  <2>1. Stages(i) /\ Phase(i, "made", {}, {<<"v5", i>>}, FALSE)
    BY <1>1 DEF ConstructEmptyV5, Ready, Stages, Staging
  <2> QED
    BY <1>0, <2>1, PhaseKept DEF Staging
<1>2. CASE VerifyEmptyV5(i)
  <2>1. Stages(i) /\ Phase(i, "v5", {}, {}, FALSE)
    BY <1>2 DEF VerifyEmptyV5, Stages, Staging
  <2> QED
    BY <1>0, <2>1, PhaseKept DEF Staging
<1>3. CASE CreateBackup(i)
  <2>1. Stages(i) /\ Phase(i, "copied", {}, {<<"backup", i>>}, TRUE)
    BY <1>3 DEF CreateBackup, Ready, Stages, Staging
  <2> QED
    BY <1>0, <2>1, PhaseKept DEF Staging
<1>4. CASE VerifyBackup(i)
  <2>1. Stages(i) /\ Phase(i, "backup", {}, {}, TRUE)
    BY <1>4 DEF VerifyBackup, Stages, Staging
  <2> QED
    BY <1>0, <2>1, PhaseKept DEF Staging
<1>5. CASE PrepareSidecars(i)
  <2>1. Stages(i) /\ Phase(i, "sidecars", {}, {<<"wal", i>>}, TRUE)
    BY <1>5 DEF PrepareSidecars, Ready, Stages, Staging
  <2> QED
    BY <1>0, <2>1, PhaseKept DEF Staging
<1>6. CASE ApplyV6(i)
  <2>1. /\ Stages(i)
        /\ \/ Phase(i, "v6", {}, {<<"pending", i>>}, FALSE)
           \/ Phase(i, "v6", {<<"v5", i>>, <<"wal", i>>}, {<<"v6", i>>}, FALSE)
    BY <1>6 DEF ApplyV6, Ready, Stages, Staging
  <2>2. CASE Phase(i, "v6", {}, {<<"pending", i>>}, FALSE)
    BY <1>0, <2>1, <2>2, PhaseKept DEF Staging
  <2>3. CASE Phase(i, "v6", {<<"v5", i>>, <<"wal", i>>}, {<<"v6", i>>}, FALSE)
    BY <1>0, <2>1, <2>3, PhaseKept DEF Staging
  <2> QED
    BY <2>1, <2>2, <2>3
<1>7. CASE VerifyV6(i)
  <2>1. Stages(i) /\ Phase(i, "verified", {}, {}, FALSE)
    BY <1>7 DEF VerifyV6, Ready, Stages, Staging
  <2> QED
    BY <1>0, <2>1, PhaseKept DEF Staging
<1>8. CASE QuiesceDatabase(i)
  <2> DEFINE gone == {<<"v5", i>>, <<"pending", i>>, <<"wal", i>>}
  <2>1. Stages(i) /\ Phase(i, "quiesced", gone, {<<"v6", i>>}, TRUE)
    BY <1>8 DEF QuiesceDatabase, Ready, Stages, Staging
  <2>2. /\ <<"v6", i>> \in (Stage(i).now \ gone) \union {<<"v6", i>>}
        /\ <<"v5", i>> \notin (Stage(i).now \ gone) \union {<<"v6", i>>}
    OBVIOUS
  <2> HIDE DEF gone
  <2> QED
    BY <1>0, <2>1, <2>2, PhaseKept DEF Staging
<1>9. CASE WriteEvidence(i)
  <2> DEFINE new == {<<name, i>> : name \in Evidence}
  <2>1. Stages(i) /\ Phase(i, "evidence", {}, new, FALSE) /\ work[i].pc = "quiesced"
    BY <1>9 DEF WriteEvidence, Ready, Stages, Staging
  <2>2. /\ <<"v6", i>> \in (Stage(i).now \ {}) \union new
        /\ <<"v5", i>> \notin (Stage(i).now \ {}) \union new
    BY <2>1 DEF Installed, Built, Evidence
  <2> HIDE DEF new
  <2>3. new \in SUBSET Entry
    BY <1>0 DEF new
  <2> QED
    BY <2>1, <2>2, <2>3, PhaseKept DEF Staging
<1>10. CASE RemoveBackup(i)
  <2> DEFINE gone == {<<"backup", i>>}
  <2>1. Stages(i) /\ Phase(i, "trimmed", gone, {}, TRUE) /\ work[i].pc = "evidence"
    BY <1>10 DEF RemoveBackup, Ready, Stages, Staging
  <2>2. /\ <<"v6", i>> \in (Stage(i).now \ gone) \union {}
        /\ <<"v5", i>> \notin (Stage(i).now \ gone) \union {}
    BY <2>1 DEF Installed, Built
  <2> HIDE DEF gone
  <2> QED
    BY <1>0, <2>1, <2>2, PhaseKept DEF Staging
<1> QED
  BY <1>1, <1>2, <1>3, <1>4, <1>5, <1>6, <1>7, <1>8, <1>9, <1>10

\* the manifest is taken anew; the stage is looked at whole
LEMMA ChecksKept ==
  ASSUME Installed, NEW i \in Installer, Record(i) \/ VerifyStagedEvidence(i) \/ SyncStage(i)
  PROVE  Installed'
<1> DEFINE e == work[i].epoch
<1>0. /\ stages \in [Epoch -> Directory] /\ work \in [Installer -> WorkRow] /\ target' = target
      /\ Stages(i) /\ e \in Epoch /\ stages[e].exists /\ Stage(i) = stages[e] /\ Built(i)
      /\ stages[e].now \in SUBSET Entry
  <2>1. Stages(i) /\ target' = target
    BY DEF Record, VerifyStagedEvidence, SyncStage, Ready, Stages, Staging
  <2>2. e \in Epoch /\ stages \in [Epoch -> Directory] /\ stages[e].exists
    BY <2>1 DEF Installed, Stored, Placed, Stage
  <2> QED
    BY <2>1, <2>2 DEF Installed, Stored, Stage, Directory
<1>1. CASE Record(i)
  <2>1. /\ stages' = stages /\ ~work[i].recorded
        /\ work' = [work EXCEPT ![i].owned = stages[e].now, ![i].recorded = TRUE]
    BY <1>0, <1>1 DEF Record
  <2> DEFINE now == stages[e].now
  <2>2. work' = [work EXCEPT ![i].owned = now, ![i].recorded = TRUE] /\ now \in SUBSET Entry
    BY <1>0, <2>1
  <2> HIDE DEF now
  <2>3. /\ work' \in [Installer -> WorkRow] /\ work'[i].pc = work[i].pc
        /\ work'[i].epoch = work[i].epoch
        /\ \A j \in Installer : j # i => work'[j] = work[j]
    BY <1>0, <2>2 DEF WorkRow
  <2>4. Built(i)'
    BY <1>0, <2>1, <2>3 DEF Built, Stage
  <2> QED
    BY <1>0, <2>1, <2>3, <2>4, StageKept DEF Stages, Staging
<1>2. CASE VerifyStagedEvidence(i)
  <2>1. /\ stages' = stages /\ work' = [work EXCEPT ![i].pc = "proved"]
        /\ work[i].pc = "trimmed" /\ work[i].recorded /\ stages[e].now = work[i].owned
        /\ stages[e].now \ {<<"v5", i>>, <<"v6", i>>} = {<<name, i>> : name \in Evidence}
    BY <1>0, <1>2 DEF VerifyStagedEvidence, Ready, OwnsStage
  <2>2. /\ work' \in [Installer -> WorkRow] /\ work'[i].pc = "proved" /\ work'[i].recorded
        /\ work'[i].epoch = work[i].epoch /\ work'[i].owned = work[i].owned
        /\ \A j \in Installer : j # i => work'[j] = work[j]
    BY <1>0, <2>1 DEF WorkRow, Pcs, Staging
  <2>3. work[i].owned = Whole(i)
    <3>1. <<"v6", i>> \in stages[e].now /\ <<"v5", i>> \notin stages[e].now
      BY <1>0, <2>1 DEF Built
    <3> QED
      BY <2>1, <3>1 DEF Whole
  <2>4. Built(i)'
    BY <2>2, <2>3 DEF Built
  <2> QED
    BY <1>0, <2>1, <2>2, <2>4, StageKept DEF Stages, Staging
<1>3. CASE SyncStage(i)
  <2> DEFINE now == stages[e].now
  <2>1. /\ stages' = [stages EXCEPT ![e].disk = now] /\ work' = [work EXCEPT ![i].pc = "synced"]
        /\ work[i].pc = "proved" /\ work[i].recorded /\ now = work[i].owned
    BY <1>0, <1>3 DEF SyncStage, Ready, OwnsStage
  <2>2. /\ work' \in [Installer -> WorkRow] /\ work'[i].pc = "synced" /\ work'[i].recorded
        /\ work'[i].epoch = work[i].epoch
        /\ \A j \in Installer : j # i => work'[j] = work[j]
    BY <1>0, <2>1 DEF WorkRow, Pcs, Staging
  <2>3. now = Whole(i) /\ now \in SUBSET Entry
    BY <1>0, <2>1 DEF Built
  <2>4. /\ stages' \in [Epoch -> Directory] /\ stages'[e].now = now /\ stages'[e].disk = now
        /\ stages'[e].exists /\ \A f \in Epoch : f # e => stages'[f] = stages[f]
    <3> HIDE DEF e
    <3> QED
      BY <1>0, <2>1, <2>3 DEF Directory
  <2>5. Built(i)'
    BY <2>2, <2>3, <2>4 DEF Built, Stage
  <2> QED
    BY <1>0, <2>2, <2>4, <2>5, StageKept DEF Stages, Staging
<1> QED
  BY <1>1, <1>2, <1>3

\* a stage is made under a name that no stage has
LEMMA CreateKept ==
  ASSUME Installed, NEW i \in Installer, CreateStage(i)
  PROVE  Installed'
<1>1. /\ target' = target /\ work[i].pc = "bound" /\ stages \in [Epoch -> Directory]
      /\ work \in [Installer -> WorkRow]
  BY DEF CreateStage, Installed, Stored
<1>2. CASE stages' = stages /\ work' = [work EXCEPT ![i] = Ended("refused")]
  BY <1>1, <1>2, AsideKept DEF Pcs, Outcome, Staging
<1>3. ASSUME NEW e \in Epoch, ~stages[e].exists,
             work' = [work EXCEPT ![i] = [Idle EXCEPT !.pc = "staged", !.epoch = e]],
             stages' = [stages EXCEPT ![e] = [Absent EXCEPT !.exists = TRUE]]
      PROVE  Installed'
  <2>1. /\ [Idle EXCEPT !.pc = "staged", !.epoch = e] \in WorkRow
        /\ [Absent EXCEPT !.exists = TRUE] \in Directory
    BY DEF Idle, WorkRow, Pcs, Staging, Absent, Directory
  <2>2. /\ work' \in [Installer -> WorkRow] /\ stages' \in [Epoch -> Directory]
        /\ \A j \in Installer : j # i => work'[j] = work[j]
        /\ \A f \in Epoch : f # e => stages'[f] = stages[f]
    BY <1>1, <1>3, <2>1
  <2>3. work'[i].pc = "staged" /\ work'[i].epoch = e /\ stages'[e].exists
    BY <1>1, <1>3 DEF Idle, Absent
  <2>4. Stored' /\ Home'
    BY <1>1, <2>2, <2>3, HomeKept DEF Installed, Stored
  <2>5. \A j \in Installer : Stages(j) => work[j].epoch # e
    BY <1>3 DEF Installed, Placed, Stage
  <2>6. ASSUME NEW j \in Installer
        PROVE  Placed(j)' /\ Built(j)'
    <3>1. CASE j = i
      BY <2>3, <3>1 DEF Placed, Built, Stage
    <3>2. CASE j # i
      BY <2>2, <2>5, <3>2 DEF Installed, Placed, Built, Stages, Stage, Staging
    <3> QED
      BY <3>1, <3>2
  <2>7. \A j, k \in Installer : Apart(j, k)'
    BY <2>2, <2>3, <2>5 DEF Installed, Apart, Stages
  <2> QED
    BY <2>4, <2>6, <2>7 DEF Installed
<1> QED
  BY <1>2, <1>3 DEF CreateStage

\* the rename puts the stage, synced whole, at a name that is free
LEMMA PublishKept ==
  ASSUME Installed, NEW i \in Installer, Publish(i)
  PROVE  Installed'
<1> DEFINE e == work[i].epoch
<1>1. /\ work[i].pc = "synced" /\ ~target.dir.exists /\ stages \in [Epoch -> Directory]
      /\ work \in [Installer -> WorkRow] /\ Stages(i) /\ e \in Epoch /\ stages[e].exists
      /\ target' = [dir |-> stages[e], epoch |-> e, durable |-> FALSE]
      /\ stages' = [stages EXCEPT ![e] = Absent] /\ work' = [work EXCEPT ![i].pc = "renamed"]
  BY DEF Publish, Installed, Stored, Placed, Stages, Staging, Stage
<1>2. /\ work' \in [Installer -> WorkRow] /\ work'[i].pc = "renamed"
      /\ \A j \in Installer : j # i => work'[j] = work[j]
  BY <1>1 DEF WorkRow, Pcs
<1>3. /\ stages' \in [Epoch -> Directory] /\ \A f \in Epoch : f # e => stages'[f] = stages[f]
  <2>1. Absent \in Directory
    BY DEF Absent, Directory
  <2> HIDE DEF e
  <2> QED
    BY <1>1, <2>1
<1>4. target' \in TargetRow
  BY <1>1 DEF TargetRow
<1>5. Stands(i)'
  <2>1. /\ stages[e].disk = Whole(i) /\ Whole(i) \subseteq stages[e].now
        /\ stages[e].now \subseteq Whole(i) \union {Foreign}
    BY <1>1 DEF Installed, Built, Stage
  <2> QED
    BY <1>1, <2>1 DEF Stands
<1>6. \A j \in Installer : j # i => work[j].pc \notin {"renamed", "fenced", "installed"}
  BY <1>1 DEF Installed, Home
<1>7. Home'
  BY <1>1, <1>2, <1>5, <1>6 DEF Home
<1>8. ASSUME NEW j \in Installer
      PROVE  Placed(j)' /\ Built(j)'
  <2>1. CASE j = i
    BY <1>2, <2>1 DEF Placed, Built, Stages, Staging
  <2>2. CASE j # i /\ Stages(j)
    <3>1. work[j].epoch \in Epoch /\ work[j].epoch # e
      BY <1>1, <2>2 DEF Installed, Placed, Apart
    <3> QED
      BY <1>2, <1>3, <2>2, <3>1 DEF Installed, Placed, Built, Stages, Stage
  <2>3. CASE j # i /\ ~Stages(j)
    BY <1>2, <2>3 DEF Placed, Built, Stages, Staging
  <2> QED
    BY <2>1, <2>2, <2>3
<1>9. \A j, k \in Installer : Apart(j, k)'
  BY <1>2 DEF Installed, Apart, Stages, Staging
<1> QED
  BY <1>2, <1>3, <1>4, <1>7, <1>8, <1>9 DEF Installed, Stored

\* the publication is made durable, and read back
LEMMA VerifiesKept ==
  ASSUME Installed, NEW i \in Installer, VerifyPublication(i) \/ VerifyPublished(i)
  PROVE  Installed'
<1>0. /\ stages' = stages /\ target \in TargetRow /\ work \in [Installer -> WorkRow]
      /\ work[i].pc \in {"renamed", "fenced"}
  BY DEF VerifyPublication, VerifyPublished, Installed, Stored
<1>1. CASE target' = target /\ work' = [work EXCEPT ![i] = Ended("indeterminate")]
  BY <1>0, <1>1, AsideKept DEF Pcs, Outcome, Staging
<1>2. CASE /\ work[i].pc = "renamed" /\ target' = [target EXCEPT !.durable = TRUE]
           /\ work' = [work EXCEPT ![i].pc = "fenced"]
  <2>1. /\ work' \in [Installer -> WorkRow] /\ work'[i].pc = "fenced"
        /\ \A j \in Installer : j # i => work'[j] = work[j]
    BY <1>0, <1>2 DEF WorkRow, Pcs
  <2>2. target' \in TargetRow /\ target'.dir = target.dir /\ target'.durable
    BY <1>0, <1>2 DEF TargetRow
  <2>3. Home'
    BY <1>2, <2>1, <2>2 DEF Installed, Home, Stands
  <2>4. \A j \in Installer : Placed(j)' /\ Built(j)'
    BY <1>0, <2>1 DEF Installed, Placed, Built, Stages, Stage, Staging
  <2>5. \A j, k \in Installer : Apart(j, k)'
    BY <2>1 DEF Installed, Apart, Stages, Staging
  <2> QED
    BY <1>0, <2>1, <2>2, <2>3, <2>4, <2>5 DEF Installed, Stored
<1>3. CASE /\ work[i].pc = "fenced" /\ target' = target /\ ReadBack(i, {})
           /\ work' = [work EXCEPT ![i] = Ended("installed")]
  <2>1. /\ work' \in [Installer -> WorkRow] /\ work'[i].pc = "installed"
        /\ \A j \in Installer : j # i => work'[j] = work[j]
    BY <1>0, <1>3, Endings DEF Pcs, Outcome
  <2>2. Home'
    BY <1>3, <2>1 DEF Installed, Home, Stands, ReadBack
  <2>3. \A j \in Installer : Placed(j)' /\ Built(j)'
    BY <1>0, <2>1 DEF Installed, Placed, Built, Stages, Stage, Staging
  <2>4. \A j, k \in Installer : Apart(j, k)'
    BY <2>1 DEF Installed, Apart, Stages, Staging
  <2> QED
    BY <1>0, <1>3, <2>1, <2>2, <2>3, <2>4 DEF Installed, Stored
<1> QED
  BY <1>1, <1>2, <1>3 DEF VerifyPublication, VerifyPublished

\* a failure, a death: the stage is removed, or left under a name that is taken for good
LEMMA FailuresKept ==
  ASSUME Installed, NEW i \in Installer, PhaseFails(i) \/ InstallerDies(i)
  PROVE  Installed'
<1>0. /\ stages \in [Epoch -> Directory] /\ work \in [Installer -> WorkRow] /\ target' = target
      /\ Absent \in Directory /\ Abandoned \in Directory
  BY DEF PhaseFails, InstallerDies, Installed, Stored, Absent, Abandoned, Directory
<1>1. CASE InstallerDies(i) /\ ~Stages(i)
  <2>1. stages' = stages
    BY <1>0, <1>1 DEF InstallerDies, Stages
  <2> QED
    BY <1>0, <1>1, <2>1, AsideKept DEF InstallerDies, Pcs, Staging
<1>2. CASE Stages(i)
  <2> DEFINE e == work[i].epoch
  <2>1. e \in Epoch
    BY <1>2 DEF Installed, Placed
  <2>2. PICK pc \in {"failed", "residue", "dead"}, dir \in {Absent, Abandoned} :
          stages' = [stages EXCEPT ![e] = dir] /\ work' = [work EXCEPT ![i] = Ended(pc)]
    <3>1. CASE PhaseFails(i)
      BY <3>1 DEF PhaseFails, CleanupStage
    <3>2. CASE InstallerDies(i)
      <4>1. stages' = [stages EXCEPT ![e] = Abandoned]
        BY <1>0, <1>2, <2>1, <3>2 DEF InstallerDies, Stages
      <4> QED
        BY <3>2, <4>1 DEF InstallerDies
    <3> QED
      BY <3>1, <3>2
  <2>3. pc \in Pcs \ (Staging \union {"renamed", "fenced", "installed"})
    BY DEF Pcs, Outcome, Staging
  <2>4. /\ work' \in [Installer -> WorkRow] /\ work'[i].pc = pc
        /\ \A j \in Installer : j # i => work'[j] = work[j]
    BY <1>0, <2>2, <2>3, Endings
  <2>5. /\ stages' \in [Epoch -> Directory] /\ \A f \in Epoch : f # e => stages'[f] = stages[f]
    <3> HIDE DEF e
    <3> QED
      BY <1>0, <2>1, <2>2
  <2> QED
    BY <1>0, <1>2, <2>3, <2>4, <2>5, StageKept DEF Stages
<1> QED
  BY <1>1, <1>2 DEF PhaseFails, Stages

LEMMA IntrudeKept ==
  ASSUME Installed, NEW e \in Epoch, Intrude(e)
  PROVE  Installed'
<1>1. /\ target' = target /\ work' = work /\ stages \in [Epoch -> Directory]
      /\ stages' = [stages EXCEPT ![e].now = stages[e].now \union {Foreign}]
  BY DEF Intrude, Installed, Stored
<1> DEFINE now == stages[e].now \union {Foreign}
<1>2. now \in SUBSET Entry
  BY <1>1 DEF Directory, Entry
<1>3. /\ stages' \in [Epoch -> Directory]
      /\ \A f \in Epoch : /\ stages'[f].exists = stages[f].exists /\ stages'[f].disk = stages[f].disk
                          /\ stages[f].now \subseteq stages'[f].now
                          /\ stages'[f].now \subseteq stages[f].now \union {Foreign}
  <2>1. stages' = [stages EXCEPT ![e].now = now]
    BY <1>1
  <2>2. stages[e].now \subseteq now /\ now \subseteq stages[e].now \union {Foreign}
    OBVIOUS
  <2> HIDE DEF now
  <2> QED
    BY <1>1, <1>2, <2>1, <2>2 DEF Directory
<1>4. Stored' /\ Home'
  BY <1>1, <1>3 DEF Installed, Stored, Home, Stands
<1>5. ASSUME NEW j \in Installer, Stages(j)
      PROVE  Placed(j)' /\ Built(j)'
  <2>1. work[j].epoch \in Epoch /\ Stage(j).exists /\ Built(j)
    BY <1>5 DEF Installed, Placed
  <2>2. /\ Stage(j)'.exists = Stage(j).exists /\ Stage(j)'.disk = Stage(j).disk
        /\ Stage(j).now \subseteq Stage(j)'.now
        /\ Stage(j)'.now \subseteq Stage(j).now \union {Foreign}
    BY <1>1, <1>3, <2>1 DEF Stage
  <2>3. <<"v5", j>> # Foreign
    BY DEF Foreign
  <2>4. Placed(j)'
    BY <1>1, <2>1, <2>2 DEF Placed
  <2>5. Built(j)'
    BY <1>1, <2>1, <2>2, <2>3 DEF Built
  <2> QED
    BY <2>4, <2>5
<1>6. ASSUME NEW j \in Installer, ~Stages(j)
      PROVE  Placed(j)' /\ Built(j)'
  BY <1>1, <1>6 DEF Placed, Built, Stages, Staging
<1>7. \A j, k \in Installer : Apart(j, k)'
  BY <1>1 DEF Installed, Apart, Stages
<1> QED
  BY <1>4, <1>5, <1>6, <1>7 DEF Installed

\* power loss: every installer that was at work is dead, and what stands at the home is what
\* was synced before the rename and perhaps more
LEMMA PowerLossKept ==
  ASSUME Installed, PowerLoss
  PROVE  Installed'
<1>0. /\ stages \in [Epoch -> Directory] /\ work \in [Installer -> WorkRow]
      /\ target \in TargetRow /\ Home
      /\ Absent \in Directory /\ Abandoned \in Directory /\ NoTarget \in TargetRow
  BY DEF Installed, Stored, Absent, Abandoned, Directory, NoTarget, TargetRow
<1>1. /\ work' \in [Installer -> WorkRow]
      /\ \A i \in Installer : \/ work'[i] = work[i] /\ work[i].pc \in Outcome \union {"idle"}
                              \/ work'[i].pc = "dead"
  <2>1. Ended("dead") \in WorkRow /\ Ended("dead").pc = "dead"
    BY Endings DEF Pcs
  <2> QED
    BY <1>0, <2>1 DEF PowerLoss, InstallersDie
<1>2. stages' \in [Epoch -> Directory]
  BY <1>0 DEF PowerLoss, LoseStages
<1>3. \A i \in Installer : ~Stages(i)' /\ work'[i].pc \notin {"renamed", "fenced"}
  BY <1>1 DEF Stages, Staging, Outcome
<1>4. /\ \A i \in Installer : Placed(i)' /\ Built(i)'
      /\ \A i, j \in Installer : Apart(i, j)'
  BY <1>3 DEF Placed, Built, Apart, Stages, Staging
<1>5. target' \in TargetRow /\ Home'
  <2>1. CASE ~target.durable /\ target' = NoTarget
    <3>1. \A i \in Installer : work'[i].pc # "installed"
      BY <1>0, <1>1, <2>1 DEF Home
    <3> QED
      BY <1>0, <1>3, <2>1, <3>1 DEF Home, NoTarget, Absent
  <2>2. ASSUME target.dir.exists, NEW after \in SUBSET (target.dir.now \union target.dir.disk),
               Survives(target.dir, after),
               target' = [target EXCEPT !.dir = Rebooted(target.dir, after), !.durable = TRUE]
        PROVE  target' \in TargetRow /\ Home'
    <3>1. PICK i \in Installer : Stands(i)
      BY <1>0, <2>2 DEF Home
    <3>2. /\ after \in SUBSET Entry
          /\ Whole(i) \subseteq after /\ after \subseteq Whole(i) \union {Foreign, Runtime}
      BY <1>0, <2>2, <3>1 DEF TargetRow, Directory, Survives, Stands
    <3>3. /\ target' \in TargetRow /\ target'.durable
          /\ target'.dir = [now |-> after, disk |-> after, exists |-> TRUE]
      BY <1>0, <2>2, <3>2 DEF TargetRow, Directory, Rebooted
    <3>4. Stands(i)'
      BY <3>2, <3>3 DEF Stands
    <3>5. ASSUME NEW j \in Installer, work'[j].pc = "installed"
          PROVE  Whole(j) \subseteq after
      <4>1. work[j].pc = "installed"
        BY <1>1, <3>5
      <4>2. Whole(j) \subseteq target.dir.now
        BY <1>0, <4>1 DEF Home
      <4>3. <<"v6", j>> \in Whole(i) \union {Foreign, Runtime}
        BY <3>1, <4>2 DEF Stands, Whole
      <4>4. i = j
        BY <4>3, OwnEntries
      <4> QED
        BY <3>2, <4>4
    <3> QED
      BY <1>3, <3>3, <3>4, <3>5 DEF Home
  <2> QED
    BY <2>1, <2>2 DEF PowerLoss
<1> QED
  BY <1>1, <1>2, <1>4, <1>5 DEF Installed, Stored

\* a host adds its own files to the home
LEMMA StartRuntimeKept ==
  ASSUME Installed, NEW h \in Host, StartRuntime(h)
  PROVE  Installed'
<1>1. /\ stages' = stages /\ work' = work /\ target \in TargetRow
      /\ target' = [target EXCEPT !.dir.now = target.dir.now \union {Runtime}]
  BY DEF StartRuntime, Installed, Stored
<1> DEFINE now == target.dir.now \union {Runtime}
<1>2. now \in SUBSET Entry
  BY <1>1 DEF TargetRow, Directory, Entry
<1>3. /\ target' \in TargetRow /\ target'.dir.now = now /\ target'.dir.disk = target.dir.disk
      /\ target'.dir.exists = target.dir.exists /\ target'.durable = target.durable
  <2>1. target' = [target EXCEPT !.dir.now = now]
    BY <1>1
  <2> HIDE DEF now
  <2> QED
    BY <1>1, <1>2, <2>1 DEF TargetRow, Directory
<1>4. Home'
  BY <1>1, <1>3 DEF Installed, Home, Stands
<1>5. /\ \A i \in Installer : Placed(i)' /\ Built(i)'
      /\ \A i, j \in Installer : Apart(i, j)'
  BY <1>1 DEF Installed, Placed, Built, Apart, Stages, Stage
<1> QED
  BY <1>1, <1>3, <1>4, <1>5 DEF Installed, Stored

\* what hosts and clients do beside the installation
LEMMA InstallUntouched ==
  ASSUME [Next]_vars, ~InstallNext, ~LosePower, ~(\E h \in Host : StartRuntime(h))
  PROVE  UNCHANGED installVars
<1>1. ASSUME NEW h \in Host,
             \/ Preflight(h) \/ ScanGenerations(h) \/ MakeGeneration(h)
             \/ WriteTemp(h) \/ LinkGrantSet(h) \/ UnlinkTemp(h) \/ SyncGeneration(h)
             \/ SetCurrent(h) \/ Activate(h) \/ ActivationFails(h) \/ HostEnds(h)
             \/ \E x \in Grant : Expire(h, x) \/ Admit(h, x) \/ Deny(h, x)
             \/ \E c \in Client : Control(h, c)
      PROVE  UNCHANGED installVars
  BY <1>1 DEF Preflight, ScanGenerations, MakeGeneration, WriteTemp, LinkGrantSet, UnlinkTemp,
              SyncGeneration, Write, SetCurrent, Activate, ActivationFails, HostEnds, Expire,
              Admit, Deny, Control
<1>2. ASSUME NEW c \in Client, LoadGrantSet(c) \/ Send(c) \/ Unanswered(c) \/ Conclude(c)
      PROVE  UNCHANGED installVars
  BY <1>2 DEF LoadGrantSet, Send, Unanswered, Conclude
<1> QED
  BY <1>1, <1>2 DEF Next, vars

LEMMA InstalledStep == Installed /\ [Next]_vars => Installed'
<1> SUFFICES ASSUME Installed, [Next]_vars PROVE Installed'
  OBVIOUS
<1>1. CASE UNCHANGED installVars
  BY <1>1 DEF installVars, Installed, Stored, Home, Stands, Placed, Built, Apart, Stages, Stage
<1>2. CASE InstallNext
  <2>1. ASSUME NEW i \in Installer, PreflightTarget(i) \/ BindInputs(i)
        PROVE  Installed'
    <3>1. PICK pc \in {"checked", "bound", "refused"} :
            work' = [work EXCEPT ![i] = Ended(pc)] /\ target' = target /\ stages' = stages
      BY <2>1 DEF PreflightTarget, BindInputs
    <3> QED
      BY <3>1, AsideKept DEF Pcs, Outcome, Staging
  <2> QED
    BY <1>2, <2>1, CreateKept, ChecksKept, PhasesKept, PublishKept, VerifiesKept, FailuresKept,
       IntrudeKept DEF InstallNext
<1>3. CASE LosePower
  BY <1>3, PowerLossKept DEF LosePower
<1>4. ASSUME NEW h \in Host, StartRuntime(h)
      PROVE  Installed'
  BY <1>4, StartRuntimeKept
<1> QED
  BY <1>1, <1>2, <1>3, <1>4, InstallUntouched

\* Whatever stands at the runtime home is the whole installation of one installer, apart from a
\* stranger's file and what a host has added, and an installation reported as successful stands
\* there for good: the rename publishes a stage that was looked at whole and synced whole, and a
\* reported success has made the name durable.
THEOREM HomeIsWhole == Spec => []PublishedIsWhole
<1>1. Installed => PublishedIsWhole
  <2> SUFFICES ASSUME Installed PROVE PublishedIsWhole
    OBVIOUS
  <2>1. ASSUME NEW i \in Installer, Stands(i)
        PROVE  target.dir.now \ {Foreign, Runtime} = Whole(i)
    <3>1. Foreign \notin Whole(i) /\ Runtime \notin Whole(i)
      BY DEF Foreign, Runtime, Whole, Evidence
    <3> QED
      BY <2>1, <3>1 DEF Stands
  <2> QED
    BY <2>1 DEF Installed, Home, PublishedIsWhole
<1> QED
  BY <1>1, InstalledInit, InstalledStep, PTL DEF Spec

-----------------------------------------------------------------------------
(* Hosts and the durable history.                                          *)
(*                                                                         *)
(* A generation belongs to one host, so its directory goes through the     *)
(* steps of that host alone: once it holds the grant-set file and nothing  *)
(* else it does so for good, and a fence that a host has seen never goes   *)
(* back.  A grant is marked with the fence, and the memory of a host is    *)
(* emptied when the fence moves on.                                        *)

HostPcs == {"off", "checked", "started", "fenced", "made", "written", "linked", "unlinked", "synced",
            "current", "active"}
GrantRow == [status : {"none", "live", "revoked", "expired"}, gen : Nat]
HostRow == [pc : HostPcs, gen : Nat, current : Nat, observed : Nat, grants : [Grant -> GrantRow]]
GenRow == [now : SUBSET {"temp", "file"}, disk : SUBSET {"temp", "file"}, exists : BOOLEAN]

Hosted ==
  /\ generation \in 0..MaxGenerations /\ gens \in [Generation -> GenRow]
  /\ host \in [Host -> HostRow]

Holds(g, content) == gens[g].exists /\ gens[g].now = content

\* every host that has started has a generation of its own
Owner(h) == host[h].pc \notin {"off", "checked"}
Owned(h) == IF Owner(h) THEN host[h].gen \in 1..generation ELSE host[h].gen = 0
Sole(h, k) == Owner(h) /\ Owner(k) /\ h # k => host[h].gen # host[k].gen

\* how far its directory has come
Filed(h) ==
  /\ host[h].pc = "made" => Holds(host[h].gen, {})
  /\ host[h].pc = "written" => Holds(host[h].gen, {"temp"})
  /\ host[h].pc = "linked" => Holds(host[h].gen, {"temp", "file"})
  /\ host[h].pc \in {"unlinked", "synced", "current", "active"} => Holds(host[h].gen, {"file"})

\* a fence was published, and the memory belongs to it
FenceHolds(h) ==
  /\ host[h].current # 0 => host[h].current \in Generation /\ Holds(host[h].current, {"file"})
  /\ host[h].pc \in {"current", "active"} =>
       host[h].current >= host[h].gen /\ host[h].observed = host[h].current
  /\ host[h].pc # "active" => host[h].grants = NoGrants

Hosting ==
  /\ Hosted
  /\ \A h \in Host : Owned(h) /\ Filed(h) /\ FenceHolds(h)
  /\ \A h, k \in Host : Sole(h, k)

\* a set of numbers below n has a highest one
LEMMA HighestExists ==
  ASSUME NEW n \in Nat, NEW T, T \subseteq 0..n, T # {}
  PROVE  \E k \in T : \A j \in T : j <= k
<1> DEFINE R == OpToRel(<, Nat)
           Below == {n - k : k \in T}
<1>1. IsWellFoundedOn(R, Nat)
  BY NatLessThanWellFounded
<1>2. Below \subseteq Nat /\ Below # {}
  <2>1. \A k \in T : n - k \in Nat
    OBVIOUS
  <2>2. PICK k \in T : TRUE
    OBVIOUS
  <2>3. n - k \in Below
    BY <2>2
  <2> QED
    BY <2>1, <2>3
<1>3. \A x, y \in Nat : <<y, x>> \in R <=> y < x
  BY DEF OpToRel
<1> HIDE DEF R
<1>4. PICK x \in Below : \A y \in Below : ~(<<y, x>> \in R)
  <2> HIDE DEF Below
  <2> QED
    BY <1>1, <1>2, WFMin
<1>5. PICK k \in T : x = n - k
  OBVIOUS
<1>6. \A j \in T : ~(n - j < n - k)
  BY <1>2, <1>3, <1>4, <1>5
<1> QED
  BY <1>5, <1>6

LEMMA HighestIs ==
  /\ Highest \in Nat /\ Highest \in {0} \union Present
  /\ \A g \in Present : g <= Highest
<1> DEFINE T == {0} \union Present
<1>1. T \subseteq 0..MaxGenerations /\ T # {} /\ MaxGenerations \in Nat
  BY ActivationAssumption DEF Present, Generation
<1>2. \E k \in T : \A j \in T : j <= k
  <2> HIDE DEF T
  <2> QED
    BY <1>1, HighestExists
<1>3. PICK k \in T : k = Highest /\ \A j \in T : k >= j
  <2>1. Highest = CHOOSE x \in T : \A y \in T : x >= y
    BY DEF Highest, Max
  <2>2. \E x \in T : \A y \in T : x >= y
    <3> HIDE DEF T
    <3> QED
      BY <1>1, <1>2
  <2> HIDE DEF T
  <2> QED
    BY <2>1, <2>2
<1>4. k \in Nat
  BY <1>1, <1>3
<1> QED
  BY <1>3, <1>4 DEF Generation, Present

LEMMA FenceIs ==
  ASSUME NEW current \in Nat
  PROVE  /\ Fence(current) \in Nat /\ Fence(current) \in {current, Highest}
         /\ Fence(current) >= current /\ Fence(current) >= Highest
<1> DEFINE T == {current, Highest}
<1>1. Highest \in Nat
  BY HighestIs
<1>2. \E x \in T : \A y \in T : x >= y
  BY <1>1
<1>3. Fence(current) = CHOOSE x \in T : \A y \in T : x >= y
  BY DEF Fence, Max
<1>4. Fence(current) \in T /\ \A y \in T : Fence(current) >= y
  <2> HIDE DEF T
  <2> QED
    BY <1>2, <1>3
<1> QED
  BY <1>1, <1>4

\* a fence that a scan finds was published
LEMMA FenceIsPublished ==
  ASSUME Hosting, NEW h \in Host, Scannable
  PROVE  /\ Fence(host[h].current) \in Nat /\ Fence(host[h].current) >= host[h].current
         /\ Fence(host[h].current) # 0 =>
              /\ Fence(host[h].current) \in Generation
              /\ Holds(Fence(host[h].current), {"file"})
<1>1. host[h].current \in Nat /\ FenceHolds(h)
  BY DEF Hosting, Hosted, HostRow
<1> DEFINE f == Fence(host[h].current)
<1>2. f \in Nat /\ f \in {host[h].current, Highest} /\ f >= host[h].current
  BY <1>1, FenceIs
<1>3. CASE f = host[h].current
  BY <1>1, <1>2, <1>3 DEF FenceHolds
<1>4. CASE f = Highest
  <2>1. Highest # 0 => Highest \in Present
    BY HighestIs
  <2> QED
    BY <1>2, <1>4, <2>1 DEF Present, Scannable, Inspected, Holds
<1> QED
  BY <1>2, <1>3, <1>4

LEMMA NoRows == NoHost \in HostRow /\ NoGrants \in [Grant -> GrantRow] /\ Absent \in GenRow
BY DEF NoHost, NoGrants, HostRow, HostPcs, GrantRow, Absent, GenRow

\* a host does something with its own directory
LEMMA HostKept ==
  ASSUME Hosting, NEW h \in Host, generation' = generation, host' \in [Host -> HostRow],
         \A k \in Host : k # h => host'[k] = host[k],
         gens' \in [Generation -> GenRow],
         \A g \in Generation : ~(Owner(h) /\ g = host[h].gen) => gens'[g] = gens[g],
         Owner(h) /\ Holds(host[h].gen, {"file"}) =>
           gens'[host[h].gen].exists /\ gens'[host[h].gen].now = {"file"},
         Owner(h)' => Owner(h) /\ host'[h].gen = host[h].gen,
         ~Owner(h)' => host'[h].gen = 0,
         Filed(h)', FenceHolds(h)'
  PROVE  Hosting'
<1>1. \A g \in Generation : Holds(g, {"file"}) => gens'[g].exists /\ gens'[g].now = {"file"}
  BY DEF Holds
<1>2. ASSUME NEW k \in Host
      PROVE  Owned(k)' /\ Filed(k)' /\ FenceHolds(k)'
  <2>1. CASE k = h
    BY <2>1 DEF Hosting, Owned, Owner
  <2>2. CASE k # h
    <3>1. Owned(k)'
      BY <2>2 DEF Hosting, Owned, Owner
    <3>2. Owner(k) => host[k].gen \in Generation /\ gens'[host[k].gen] = gens[host[k].gen]
      <4>1. Owner(k) => host[k].gen \in Generation
        BY ActivationAssumption DEF Hosting, Hosted, Owned, Generation
      <4>2. Owner(k) => ~(Owner(h) /\ host[k].gen = host[h].gen)
        BY <2>2 DEF Hosting, Sole
      <4> QED
        BY <4>1, <4>2
    <3>3. Filed(k)'
      <4>1. host'[k] = host[k] /\ Filed(k)
        BY <2>2 DEF Hosting
      <4>2. CASE Owner(k)
        BY <3>2, <4>1, <4>2 DEF Filed, Holds
      <4>3. CASE ~Owner(k)
        BY <4>1, <4>3 DEF Filed, Owner
      <4> QED
        BY <4>2, <4>3
    <3>4. FenceHolds(k)'
      BY <1>1, <2>2 DEF Hosting, FenceHolds, Holds
    <3> QED
      BY <3>1, <3>3, <3>4
  <2> QED
    BY <2>1, <2>2
<1>3. \A k, l \in Host : Sole(k, l)'
  BY DEF Hosting, Sole, Owner
<1> QED
  BY <1>2, <1>3 DEF Hosting, Hosted

-----------------------------------------------------------------------------
(* The steps of a host.                                                    *)

\* the row of a host after its memory was compared with the fence
LEMMA FencedRow ==
  ASSUME Hosting, NEW h \in Host, Serving(h)
  PROVE  /\ Fenced(h) \in HostRow /\ Fenced(h).pc = "active" /\ Fenced(h).gen = host[h].gen
         /\ Fenced(h).observed = Fenced(h).current /\ Fenced(h).current >= host[h].current
         /\ Fenced(h).current \in Generation /\ Holds(Fenced(h).current, {"file"})
         /\ \/ Fenced(h).current = host[h].current /\ Fenced(h).grants = host[h].grants
            \/ Fenced(h).current > host[h].current /\ Fenced(h).grants = NoGrants
<1> DEFINE f == IF Scannable THEN Fence(host[h].current) ELSE host[h].current
<1>1. /\ host[h] \in HostRow /\ FenceHolds(h) /\ host[h].pc = "active" /\ Owned(h)
  BY DEF Hosting, Hosted, Serving
<1>2. /\ host[h].current \in Nat /\ host[h].gen \in Nat /\ host[h].gen # 0
      /\ host[h].current >= host[h].gen
      /\ host[h].observed = host[h].current
  <2>1. host[h].gen \in 1..generation
    BY <1>1 DEF Owned, Owner
  <2> QED
    BY <1>1, <2>1 DEF FenceHolds, HostRow
<1>3. f \in Nat /\ f >= host[h].current /\ f \in Generation /\ Holds(f, {"file"})
  <2>1. CASE Scannable
    BY <1>2, <2>1, FenceIsPublished
  <2>2. CASE ~Scannable
    BY <1>1, <1>2, <2>2 DEF FenceHolds
  <2> QED
    BY <2>1, <2>2
<1>4. Fenced(h) = [host[h] EXCEPT !.current = f, !.observed = f,
                     !.grants = IF host[h].observed = f THEN host[h].grants ELSE NoGrants]
  BY DEF Fenced
<1> HIDE DEF f
<1>5. CASE f = host[h].current
  <2>1. Fenced(h) = [host[h] EXCEPT !.current = f, !.observed = f, !.grants = host[h].grants]
    BY <1>2, <1>4, <1>5
  <2> QED
    BY <1>1, <1>2, <1>3, <1>5, <2>1 DEF HostRow
<1>6. CASE f # host[h].current
  <2>1. Fenced(h) = [host[h] EXCEPT !.current = f, !.observed = f, !.grants = NoGrants]
    BY <1>2, <1>4, <1>6
  <2> QED
    <3>1. f > host[h].current
      BY <1>2, <1>3, <1>6
    <3>2. NoGrants \in [Grant -> GrantRow]
      BY NoRows
    <3>3. /\ Fenced(h) \in HostRow /\ Fenced(h).pc = host[h].pc /\ Fenced(h).gen = host[h].gen
          /\ Fenced(h).current = f /\ Fenced(h).observed = f /\ Fenced(h).grants = NoGrants
      <4> DEFINE none == NoGrants
      <4>1. Fenced(h) = [host[h] EXCEPT !.current = f, !.observed = f, !.grants = none]
        BY <2>1
      <4>2. none \in [Grant -> GrantRow]
        BY <3>2
      <4> HIDE DEF none
      <4>3. /\ Fenced(h) \in HostRow /\ Fenced(h).pc = host[h].pc
            /\ Fenced(h).gen = host[h].gen /\ Fenced(h).current = f
            /\ Fenced(h).observed = f /\ Fenced(h).grants = none
        BY <1>1, <1>3, <4>1, <4>2 DEF HostRow
      <4> QED
        BY <4>3 DEF none
    <3> QED
      BY <1>1, <1>3, <3>1, <3>3
<1> QED
  BY <1>5, <1>6

\* what becomes of the grants a host holds: each one stays, and a revoked one stays revoked,
\* or the fence has moved past the generation of the host
GrantsStay(h, row) ==
  /\ row.pc = "active" /\ row.gen = host[h].gen /\ row.current >= host[h].current
  /\ \/ row.current > row.gen
     \/ \A x \in Grant :
          /\ host[h].grants[x].status # "none" =>
               row.grants[x].status # "none" /\ row.grants[x].gen = host[h].grants[x].gen
          /\ host[h].grants[x].status = "revoked" => row.grants[x].status = "revoked"

\* the rows a host that serves may take on
Serves(h, row) ==
  /\ row \in HostRow /\ row.observed = row.current
  /\ row.current \in Generation /\ Holds(row.current, {"file"})
  /\ GrantsStay(h, row)

LEMMA ServingRow ==
  ASSUME Hosting, NEW h \in Host, Serving(h)
  PROVE  /\ Serves(h, host[h]) /\ Serves(h, Fenced(h))
         /\ host[h].gen \in Nat /\ host[h].current \in Nat /\ host[h].current >= host[h].gen
         /\ host[h].current \in Generation /\ Holds(host[h].current, {"file"})
<1>1. /\ host[h] \in HostRow /\ FenceHolds(h) /\ host[h].pc = "active" /\ host[h].gen # 0
      /\ host[h].gen \in Nat /\ host[h].current \in Nat /\ host[h].current >= host[h].gen
  BY DEF Hosting, Hosted, Serving, HostRow, FenceHolds, Owned, Owner
<1>2. host[h].current \in Generation /\ Holds(host[h].current, {"file"})
  BY <1>1 DEF FenceHolds
<1>3. Serves(h, host[h])
  BY <1>1, <1>2 DEF Serves, GrantsStay, FenceHolds
<1>4. Serves(h, Fenced(h))
  <2>1. /\ Fenced(h) \in HostRow /\ Fenced(h).pc = "active" /\ Fenced(h).gen = host[h].gen
        /\ Fenced(h).observed = Fenced(h).current /\ Fenced(h).current >= host[h].current
        /\ Fenced(h).current \in Generation /\ Holds(Fenced(h).current, {"file"})
        /\ \/ Fenced(h).current = host[h].current /\ Fenced(h).grants = host[h].grants
           \/ Fenced(h).current > host[h].current
    BY FencedRow
  <2>2. Fenced(h).current \in Nat
    BY <2>1 DEF HostRow
  <2> QED
    BY <1>1, <2>1, <2>2 DEF Serves, GrantsStay
<1> QED
  BY <1>1, <1>2, <1>3, <1>4

LEMMA StampRow ==
  ASSUME Hosting, NEW h \in Host, Serving(h), NEW x \in Grant, NEW kind \in {"issue", "revoke"},
         IF kind = "issue" THEN Issuable(h, x) ELSE Revocable(h, x)
  PROVE  /\ Serves(h, Stamp(h, x, kind))
         /\ \/ Stamp(h, x, kind).current > host[h].gen
            \/ kind = "issue" /\ Stamp(h, x, kind).grants[x].status = "live"
                              /\ Stamp(h, x, kind).grants[x].gen = host[h].gen
            \/ kind = "revoke" /\ Stamp(h, x, kind).grants[x].status = "revoked"
<1>0. /\ Serves(h, host[h]) /\ Serves(h, Fenced(h))
      /\ host[h].gen \in Nat /\ host[h].current \in Nat /\ host[h].current >= host[h].gen
  BY ServingRow
<1>1. CASE kind = "issue"
  <2> DEFINE row == Fenced(h)
             now == Stamp(h, x, kind)
  <2>1. /\ row \in HostRow /\ row.pc = "active" /\ row.gen = host[h].gen
        /\ row.observed = row.current /\ row.current >= host[h].current
        /\ row.current \in Generation /\ Holds(row.current, {"file"})
        /\ \/ row.current = host[h].current /\ row.grants = host[h].grants
           \/ row.current > host[h].current
    BY FencedRow
  <2>2. row.grants[x].status = "none"
    BY <1>1 DEF Issuable
  <2>3. now = [row EXCEPT !.grants[x] = [status |-> "live", gen |-> row.current]]
    BY <1>1 DEF Stamp
  <2> HIDE DEF row, now
  <2>4. /\ now \in HostRow /\ now.pc = row.pc /\ now.gen = row.gen /\ now.current = row.current
        /\ now.observed = row.observed /\ now.grants[x] = [status |-> "live", gen |-> row.current]
        /\ \A y \in Grant : y # x => now.grants[y] = row.grants[y]
        /\ row.current \in Nat
    BY <2>1, <2>3 DEF HostRow, GrantRow
  <2>5. now.current > now.gen \/ (row.grants = host[h].grants /\ now.current = now.gen)
    <3>1. now.gen \in Nat /\ now.current \in Nat /\ host[h].current >= now.gen
      BY <1>0, <2>1, <2>4
    <3>2. CASE row.current = host[h].current /\ row.grants = host[h].grants
      BY <1>0, <2>4, <3>1, <3>2
    <3>3. CASE row.current > host[h].current
      BY <1>0, <2>4, <3>1, <3>3
    <3> QED
      BY <2>1, <3>2, <3>3
  <2>6. GrantsStay(h, now)
    BY <1>0, <2>1, <2>2, <2>4, <2>5 DEF GrantsStay
  <2>7. Serves(h, now)
    BY <2>1, <2>4, <2>6 DEF Serves
  <2> QED
    BY <1>1, <2>1, <2>4, <2>5, <2>7 DEF now
<1>2. CASE kind = "revoke"
  <2> DEFINE row == host[h]
             now == Stamp(h, x, kind)
  <2>1. /\ row \in HostRow /\ row.pc = "active" /\ row.observed = row.current
        /\ row.current \in Generation /\ Holds(row.current, {"file"})
    BY <1>0 DEF Serves, GrantsStay
  <2>2. row.grants[x].status # "none"
    BY <1>2 DEF Revocable
  <2>3. now = [row EXCEPT !.grants[x].status = "revoked"]
    BY <1>2 DEF Stamp
  <2> HIDE DEF now
  <2>4. /\ now \in HostRow /\ now.pc = row.pc /\ now.gen = row.gen /\ now.current = row.current
        /\ now.observed = row.observed
        /\ now.grants[x].status = "revoked" /\ now.grants[x].gen = row.grants[x].gen
        /\ \A y \in Grant : y # x => now.grants[y] = row.grants[y]
    <3> HIDE DEF row
    <3> QED
      BY <2>1, <2>3 DEF HostRow, GrantRow
  <2>5. GrantsStay(h, now)
    BY <1>0, <2>1, <2>2, <2>4 DEF GrantsStay
  <2>6. Serves(h, now)
    BY <2>1, <2>4, <2>5 DEF Serves
  <2> QED
    BY <1>2, <2>4, <2>6 DEF now
<1> QED
  BY <1>1, <1>2

LEMMA ExpiredRow ==
  ASSUME Hosting, NEW h \in Host, NEW x \in Grant, Expire(h, x)
  PROVE  Serves(h, [host[h] EXCEPT !.grants[x].status = "expired"])
<1> DEFINE row == host[h]
           now == [host[h] EXCEPT !.grants[x].status = "expired"]
<1>0. /\ row.grants[x].status = "live" /\ Serves(h, row) /\ row.current \in Nat
  BY ServingRow DEF Expire
<1>1. /\ row \in HostRow /\ row.pc = "active" /\ row.observed = row.current
      /\ row.current \in Generation /\ Holds(row.current, {"file"})
  BY <1>0 DEF Serves, GrantsStay
<1>2. now = [row EXCEPT !.grants[x].status = "expired"]
  OBVIOUS
<1> HIDE DEF now
<1>3. /\ now \in HostRow /\ now.pc = row.pc /\ now.gen = row.gen /\ now.current = row.current
      /\ now.observed = row.observed
      /\ now.grants[x].status = "expired" /\ now.grants[x].gen = row.grants[x].gen
      /\ \A y \in Grant : y # x => now.grants[y] = row.grants[y]
  <2> HIDE DEF row
  <2> QED
    BY <1>1, <1>2 DEF HostRow, GrantRow
<1>4. GrantsStay(h, now)
  BY <1>0, <1>1, <1>3 DEF GrantsStay
<1>5. Serves(h, now)
  BY <1>1, <1>3, <1>4 DEF Serves
<1> QED
  BY <1>5 DEF now

\* a step of a host that serves
LEMMA ServingKept ==
  ASSUME Hosting, NEW h \in Host, Serving(h), NEW row, Serves(h, row),
         generation' = generation, gens' = gens, host' = [host EXCEPT ![h] = row]
  PROVE  Hosting'
<1>1. /\ host' \in [Host -> HostRow] /\ host'[h] = row
      /\ \A k \in Host : k # h => host'[k] = host[k]
  BY DEF Hosting, Hosted, Serves
<1>2. Owner(h) /\ Owner(h)' /\ host'[h].gen = host[h].gen /\ host'[h].pc = "active"
      /\ host[h].pc = "active"
  BY <1>1 DEF Owner, Serving, Serves, GrantsStay
<1>3. Filed(h)'
  BY <1>2 DEF Hosting, Filed, Holds
<1>4. FenceHolds(h)'
  <2>1. host[h].current >= host[h].gen /\ host[h].current \in Nat /\ host[h].gen \in Nat
    BY ServingRow
  <2>2. row.current >= host[h].current /\ row.current \in Nat
    BY DEF Serves, GrantsStay, HostRow
  <2> QED
    BY <1>1, <1>2, <2>1, <2>2 DEF Serves, GrantsStay, FenceHolds, Holds
<1>5. gens' \in [Generation -> GenRow]
  BY DEF Hosting, Hosted
<1> QED
  BY <1>1, <1>2, <1>3, <1>4, <1>5, HostKept DEF Holds

\* a host goes on without touching the disk
LEMMA PcRow ==
  ASSUME host \in [Host -> HostRow], NEW h \in Host, NEW pc \in HostPcs,
         host' = [host EXCEPT ![h].pc = pc]
  PROVE  /\ host' \in [Host -> HostRow] /\ host'[h].pc = pc /\ host'[h].gen = host[h].gen
         /\ host'[h].current = host[h].current /\ host'[h].observed = host[h].observed
         /\ host'[h].grants = host[h].grants
         /\ \A k \in Host : k # h => host'[k] = host[k]
BY DEF HostRow

\* what the steps before a host serves, and its end, do to its grants: there are none
Unserved(h) ==
  /\ host'[h].grants = NoGrants /\ \A k \in Host : k # h => host'[k] = host[k]
  /\ host'[h].gen = 0 \/ (host'[h].gen = host[h].gen /\ host[h].pc # "active")

\* one step of the publication of a grant set
LEMMA WriteKept ==
  ASSUME Hosting, NEW h \in Host, NEW from \in {"fenced", "made", "written", "linked", "unlinked"},
         NEW to, NEW content, NEW synced \in BOOLEAN, Write(h, from, to, content, synced),
         \/ to = "made" /\ content = {}
         \/ to = "written" /\ content = {"temp"}
         \/ to = "linked" /\ content = {"temp", "file"}
         \/ to \in {"unlinked", "synced"} /\ content = {"file"},
         Holds(host[h].gen, {"file"}) => content = {"file"}
  PROVE  Hosting' /\ Unserved(h)
<1> DEFINE g == host[h].gen
           disk == IF synced THEN content ELSE gens[g].disk
<1>0. /\ host \in [Host -> HostRow] /\ gens \in [Generation -> GenRow] /\ host[h].pc = from
      /\ FenceHolds(h) /\ host' = [host EXCEPT ![h].pc = to] /\ generation' = generation
  BY DEF Hosting, Hosted, Write
<1>1. g \in Generation /\ Owner(h)
  <2>1. Owner(h)
    BY <1>0 DEF Owner
  <2> QED
    BY <2>1, ActivationAssumption DEF Hosting, Hosted, Owned, Generation
<1>2. /\ content \in SUBSET {"temp", "file"} /\ disk \in SUBSET {"temp", "file"}
      /\ to \in HostPcs /\ to \notin {"off", "checked", "current", "active"}
  BY <1>0, <1>1 DEF GenRow, HostPcs
<1>3. gens' = [gens EXCEPT ![g] = [exists |-> TRUE, now |-> content, disk |-> disk]]
  BY DEF Write
<1> HIDE DEF disk
<1>4. /\ gens' \in [Generation -> GenRow] /\ gens'[g].exists /\ gens'[g].now = content
      /\ \A f \in Generation : f # g => gens'[f] = gens[f]
  <2>1. [exists |-> TRUE, now |-> content, disk |-> disk] \in GenRow
    BY <1>2 DEF GenRow
  <2> HIDE DEF g
  <2> QED
    BY <1>0, <1>1, <1>3, <2>1
<1>5. /\ host' \in [Host -> HostRow] /\ host'[h].pc = to /\ host'[h].gen = g
      /\ host'[h].current = host[h].current /\ host'[h].observed = host[h].observed
      /\ host'[h].grants = host[h].grants
      /\ \A k \in Host : k # h => host'[k] = host[k]
  BY <1>0, <1>2, PcRow
<1>6. Filed(h)'
  BY <1>4, <1>5 DEF Filed, Holds
<1>7. Holds(g, {"file"}) => gens'[g].exists /\ gens'[g].now = {"file"}
  BY <1>4
<1>8. FenceHolds(h)'
  <2>1. \A f \in Generation : Holds(f, {"file"}) => gens'[f].exists /\ gens'[f].now = {"file"}
    BY <1>4, <1>7 DEF Holds
  <2>2. host'[h].grants = NoGrants
    BY <1>0, <1>5 DEF FenceHolds
  <2> QED
    BY <1>0, <1>2, <1>5, <2>1, <2>2 DEF FenceHolds, Holds
<1>9. Owner(h)'
  BY <1>2, <1>5 DEF Owner
<1>10. Hosting'
  BY <1>0, <1>1, <1>4, <1>5, <1>6, <1>7, <1>8, <1>9, HostKept
<1> QED
  BY <1>0, <1>5, <1>10 DEF Unserved, FenceHolds

LEMMA PublishStepsKept ==
  ASSUME Hosting, NEW h \in Host,
         MakeGeneration(h) \/ WriteTemp(h) \/ LinkGrantSet(h) \/ UnlinkTemp(h) \/ SyncGeneration(h)
  PROVE  Hosting' /\ Unserved(h)
<1>0. Filed(h)
  BY DEF Hosting
<1>1. CASE MakeGeneration(h)
  <2>1. ~Holds(host[h].gen, {"file"}) /\ Write(h, "fenced", "made", {}, FALSE)
    BY <1>1 DEF MakeGeneration, Holds
  <2> QED
    BY <2>1, WriteKept
<1>2. CASE WriteTemp(h)
  <2>1. ~Holds(host[h].gen, {"file"})
    BY <1>0, <1>2 DEF WriteTemp, Write, Filed, Holds
  <2> QED
    BY <1>2, <2>1, WriteKept DEF WriteTemp
<1>3. CASE LinkGrantSet(h)
  <2>1. ~Holds(host[h].gen, {"file"})
    BY <1>0, <1>3 DEF LinkGrantSet, Write, Filed, Holds
  <2> QED
    BY <1>3, <2>1, WriteKept DEF LinkGrantSet
<1>4. CASE UnlinkTemp(h)
  BY <1>4, WriteKept DEF UnlinkTemp
<1>5. CASE SyncGeneration(h)
  BY <1>5, WriteKept DEF SyncGeneration
<1> QED
  BY <1>1, <1>2, <1>3, <1>4, <1>5

\* the other steps before a host serves
LEMMA StartsKept ==
  ASSUME Hosting, NEW h \in Host, Preflight(h) \/ ScanGenerations(h) \/ SetCurrent(h) \/ Activate(h)
  PROVE  Hosting' /\ Unserved(h)
<1>0. /\ host \in [Host -> HostRow] /\ gens \in [Generation -> GenRow] /\ host[h] \in HostRow
      /\ Owned(h) /\ Filed(h) /\ FenceHolds(h) /\ generation \in Nat
  BY ActivationAssumption DEF Hosting, Hosted
<1>1. UNCHANGED <<generation, gens>>
  BY DEF Preflight, ScanGenerations, SetCurrent, Activate
<1>2. CASE Preflight(h)
  <2>1. host[h].pc = "off" /\ host' = [host EXCEPT ![h] = [NoHost EXCEPT !.pc = "checked"]]
    BY <1>2 DEF Preflight
  <2>2. /\ [NoHost EXCEPT !.pc = "checked"] \in HostRow
        /\ [NoHost EXCEPT !.pc = "checked"].pc = "checked"
        /\ [NoHost EXCEPT !.pc = "checked"].gen = 0
        /\ [NoHost EXCEPT !.pc = "checked"].current = 0
        /\ [NoHost EXCEPT !.pc = "checked"].grants = NoGrants
    BY NoRows DEF NoHost, HostRow, HostPcs
  <2> DEFINE row == [NoHost EXCEPT !.pc = "checked"]
  <2>3. /\ row \in HostRow /\ row.pc = "checked" /\ row.gen = 0 /\ row.current = 0
        /\ row.grants = NoGrants /\ host' = [host EXCEPT ![h] = row]
    BY <2>1, <2>2
  <2> HIDE DEF row
  <2>4. /\ host' \in [Host -> HostRow] /\ host'[h] = row
        /\ \A k \in Host : k # h => host'[k] = host[k]
    BY <1>0, <2>3
  <2>5. Filed(h)' /\ FenceHolds(h)' /\ ~Owner(h)' /\ ~Owner(h)
    BY <2>1, <2>3, <2>4 DEF Filed, FenceHolds, Owner
  <2>6. Hosting'
    BY <1>0, <1>1, <2>3, <2>4, <2>5, HostKept
  <2> QED
    BY <2>3, <2>4, <2>6 DEF Unserved
<1>3. CASE ScanGenerations(h)
  <2> DEFINE f == Fence(host[h].current)
  <2>1. /\ host[h].pc = "started" /\ Scannable
        /\ host' = [host EXCEPT ![h].pc = "fenced", ![h].current = f]
    BY <1>3 DEF ScanGenerations
  <2>2. f \in Nat /\ (f # 0 => f \in Generation /\ Holds(f, {"file"}))
    BY <2>1, FenceIsPublished
  <2> HIDE DEF f
  <2>3. /\ host' \in [Host -> HostRow] /\ host'[h].pc = "fenced" /\ host'[h].gen = host[h].gen
        /\ host'[h].current = f /\ host'[h].grants = host[h].grants
        /\ \A k \in Host : k # h => host'[k] = host[k]
    BY <1>0, <2>1, <2>2 DEF HostRow, HostPcs
  <2>4. Filed(h)' /\ FenceHolds(h)' /\ Owner(h)' /\ Owner(h)
    BY <1>0, <1>1, <2>1, <2>2, <2>3 DEF Filed, FenceHolds, Owner, Holds
  <2>5. Hosting'
    BY <1>0, <1>1, <2>3, <2>4, HostKept DEF Holds
  <2> QED
    BY <1>0, <2>1, <2>3, <2>5 DEF Unserved, FenceHolds
<1>4. CASE SetCurrent(h)
  <2> DEFINE g == host[h].gen
             none == NoGrants
             row == [host[h] EXCEPT !.pc = "current", !.current = g, !.observed = g, !.grants = none]
  <2>1. host[h].pc = "synced" /\ host' = [host EXCEPT ![h] = row]
    BY <1>4 DEF SetCurrent
  <2>2. g \in Generation /\ g \in Nat /\ Holds(g, {"file"}) /\ none \in [Grant -> GrantRow]
    BY <1>0, <2>1, NoRows, ActivationAssumption
    DEF Owned, Owner, Filed, HostRow, Generation, Hosting, Hosted
  <2>3. /\ row \in HostRow /\ row.pc = "current" /\ row.gen = g /\ row.current = g
        /\ row.observed = g /\ row.grants = none
    <3> HIDE DEF g, none
    <3>1. host[h].gen = g
      BY DEF g
    <3> QED
      BY <1>0, <2>2, <3>1 DEF HostRow, HostPcs
  <2> HIDE DEF row
  <2>4. /\ host' \in [Host -> HostRow] /\ host'[h] = row
        /\ \A k \in Host : k # h => host'[k] = host[k]
    BY <1>0, <2>1, <2>3
  <2>5. Filed(h)' /\ FenceHolds(h)' /\ Owner(h)' /\ Owner(h)
    BY <1>0, <1>1, <2>1, <2>2, <2>3, <2>4 DEF Filed, FenceHolds, Owner, Holds
  <2>6. Hosting'
    BY <1>0, <1>1, <2>3, <2>4, <2>5, HostKept DEF Holds
  <2> QED
    BY <2>1, <2>3, <2>4, <2>6 DEF Unserved
<1>5. CASE Activate(h)
  <2>1. host[h].pc = "current" /\ host' = [host EXCEPT ![h].pc = "active"]
    BY <1>5 DEF Activate
  <2>2. /\ host' \in [Host -> HostRow] /\ host'[h].pc = "active" /\ host'[h].gen = host[h].gen
        /\ host'[h].current = host[h].current /\ host'[h].observed = host[h].observed
        /\ host'[h].grants = host[h].grants
        /\ \A k \in Host : k # h => host'[k] = host[k]
    BY <1>0, <2>1, PcRow DEF HostPcs
  <2>3. Filed(h)' /\ FenceHolds(h)' /\ Owner(h)' /\ Owner(h)
    BY <1>0, <1>1, <2>1, <2>2 DEF Filed, FenceHolds, Owner, Holds
  <2>4. Hosting'
    BY <1>0, <1>1, <2>2, <2>3, HostKept DEF Holds
  <2> QED
    BY <1>0, <2>1, <2>2, <2>4 DEF Unserved, FenceHolds
<1> QED
  BY <1>2, <1>3, <1>4, <1>5

\* a host ends, with or without undoing what it has written
LEMMA EndsKept ==
  ASSUME Hosting, NEW h \in Host, ActivationFails(h) \/ HostEnds(h)
  PROVE  Hosting' /\ Unserved(h)
<1> DEFINE g == host[h].gen
<1>0. /\ host \in [Host -> HostRow] /\ gens \in [Generation -> GenRow]
      /\ Owned(h) /\ Filed(h) /\ generation' = generation
      /\ host' = [host EXCEPT ![h] = NoHost]
  BY DEF Hosting, Hosted, ActivationFails, HostEnds
<1>1. /\ host' \in [Host -> HostRow] /\ host'[h] = NoHost
      /\ \A k \in Host : k # h => host'[k] = host[k]
  BY <1>0, NoRows
<1>2. Filed(h)' /\ FenceHolds(h)' /\ ~Owner(h)' /\ host'[h].gen = 0 /\ host'[h].grants = NoGrants
  BY <1>1 DEF Filed, FenceHolds, Owner, NoHost
<1>3. Hosting'
  <2>1. CASE gens' = gens
    BY <1>0, <1>1, <1>2, <2>1, HostKept DEF Holds
  <2>2. CASE ActivationFails(h)
    <3>1. PICK dir \in Undone(h) : gens' = [gens EXCEPT ![g] = dir]
      BY <2>2 DEF ActivationFails
    <3>2. Owner(h) /\ g \in Generation
      <4>1. Owner(h)
        BY <2>2 DEF ActivationFails, Owner
      <4> QED
        BY <4>1, ActivationAssumption DEF Hosting, Hosted, Owned, Generation
    <3>3. gens[g] \in GenRow
      BY <1>0, <3>2
    <3>4. dir \in GenRow /\ (Holds(g, {"file"}) => dir.exists /\ dir.now = {"file"})
      <4>1. CASE dir = gens[g]
        BY <3>3, <4>1 DEF Holds
      <4>2. CASE host[h].pc \in {"made", "written"} /\ dir = Absent
        BY <1>0, <4>2, NoRows DEF Filed, Holds
      <4>3. CASE dir = [gens[g] EXCEPT !.now = {"file"}]
        BY <3>3, <4>3 DEF Holds, GenRow
      <4>4. \/ dir = gens[g] \/ (host[h].pc \in {"made", "written"} /\ dir = Absent)
            \/ dir = [gens[g] EXCEPT !.now = {"file"}]
        <5>1. CASE host[h].pc \in {"made", "written"}
          <6>1. Undone(h) = {Absent, gens[g]}
            BY <5>1 DEF Undone
          <6> QED
            BY <3>1, <5>1, <6>1
        <5>2. CASE host[h].pc = "linked"
          <6>1. Undone(h) = {[gens[g] EXCEPT !.now = {"file"}], gens[g]}
            BY <5>2 DEF Undone
          <6> QED
            BY <3>1, <6>1
        <5>3. CASE host[h].pc \notin {"made", "written", "linked"}
          <6>1. Undone(h) = {gens[g]}
            BY <5>3 DEF Undone
          <6> QED
            BY <3>1, <6>1
        <5> QED
          BY <5>1, <5>2, <5>3
      <4> QED
        BY <4>1, <4>2, <4>3, <4>4
    <3>5. /\ gens' \in [Generation -> GenRow] /\ gens'[g] = dir
          /\ \A f \in Generation : f # g => gens'[f] = gens[f]
      <4> HIDE DEF g
      <4> QED
        BY <1>0, <3>1, <3>2, <3>4
    <3> QED
      BY <1>0, <1>1, <1>2, <3>2, <3>4, <3>5, HostKept
  <2> QED
    BY <2>1, <2>2 DEF HostEnds
<1> QED
  BY <1>1, <1>2, <1>3 DEF Unserved

\* a host gets the next generation
LEMMA GenerationsKept ==
  ASSUME Hosting, NEW h \in Host, StartRuntime(h)
  PROVE  /\ Hosting' /\ host'[h].gen = generation + 1 /\ host'[h].grants = NoGrants
         /\ generation' = generation + 1 /\ \A k \in Host : k # h => host'[k] = host[k]
<1> DEFINE g == generation + 1
<1>0. /\ host \in [Host -> HostRow] /\ gens \in [Generation -> GenRow] /\ FenceHolds(h)
      /\ generation \in Nat /\ g \in Nat /\ g \in 1..MaxGenerations /\ gens' = gens
      /\ generation' = g /\ host' = [host EXCEPT ![h].pc = "started", ![h].gen = g]
      /\ host[h].pc = "checked"
  BY ActivationAssumption DEF Hosting, Hosted, StartRuntime
<1>1. /\ host' \in [Host -> HostRow] /\ host'[h].pc = "started" /\ host'[h].gen = g
      /\ host'[h].current = host[h].current /\ host'[h].grants = host[h].grants
      /\ \A k \in Host : k # h => host'[k] = host[k]
  <2> HIDE DEF g
  <2> QED
    BY <1>0 DEF HostRow, HostPcs
<1>2. \A k \in Host : k # h => (Owner(k) => host[k].gen # g)
  BY <1>0 DEF Hosting, Owned
<1>3. ASSUME NEW k \in Host
      PROVE  Owned(k)' /\ Filed(k)' /\ FenceHolds(k)'
  <2>1. CASE k = h
    BY <1>0, <1>1, <2>1 DEF Owned, Owner, Filed, FenceHolds, Holds
  <2>2. CASE k # h
    <3>1. host'[k] = host[k] /\ Owned(k) /\ Filed(k) /\ FenceHolds(k)
      BY <1>1, <2>2 DEF Hosting
    <3> QED
      BY <1>0, <3>1 DEF Owned, Owner, Filed, FenceHolds, Holds
  <2> QED
    BY <2>1, <2>2
<1>4. \A k, l \in Host : Sole(k, l)'
  BY <1>1, <1>2 DEF Hosting, Sole, Owner
<1>5. Hosting'
  BY <1>0, <1>1, <1>3, <1>4 DEF Hosting, Hosted
<1> QED
  BY <1>0, <1>1, <1>5 DEF FenceHolds

\* a host that serves looks at the fence, and perhaps changes a grant
LEMMA ServesKept ==
  ASSUME Hosting, NEW h \in Host,
         \/ \E x \in Grant : Expire(h, x) \/ Admit(h, x) \/ Deny(h, x)
         \/ \E c \in Client : Control(h, c) /\ client[c].grant \in Grant
                              /\ client[c].kind \in {"issue", "revoke"}
  PROVE  /\ Hosting' /\ Serving(h) /\ GrantsStay(h, host'[h])
         /\ \A k \in Host : k # h => host'[k] = host[k]
<1>0. host \in [Host -> HostRow]
  BY DEF Hosting, Hosted
<1>1. ASSUME Serving(h), NEW row, Serves(h, row), UNCHANGED <<generation, gens>>,
             host' = [host EXCEPT ![h] = row]
      PROVE  /\ Hosting' /\ Serving(h) /\ GrantsStay(h, host'[h])
             /\ \A k \in Host : k # h => host'[k] = host[k]
  <2>1. host'[h] = row /\ \A k \in Host : k # h => host'[k] = host[k]
    BY <1>0, <1>1
  <2> QED
    BY <1>1, <2>1, ServingKept DEF Serves
<1>2. ASSUME NEW x \in Grant, Expire(h, x)
      PROVE  /\ Hosting' /\ Serving(h) /\ GrantsStay(h, host'[h])
             /\ \A k \in Host : k # h => host'[k] = host[k]
  <2>1. host' = [host EXCEPT ![h] = [host[h] EXCEPT !.grants[x].status = "expired"]]
    BY <1>2 DEF Expire
  <2>2. Serving(h) /\ UNCHANGED <<generation, gens>>
    BY <1>2 DEF Expire
  <2> QED
    BY <1>1, <1>2, <2>1, <2>2, ExpiredRow
<1>3. ASSUME NEW x \in Grant, Admit(h, x) \/ Deny(h, x)
      PROVE  /\ Hosting' /\ Serving(h) /\ GrantsStay(h, host'[h])
             /\ \A k \in Host : k # h => host'[k] = host[k]
  <2>1. PICK row \in {host[h], Fenced(h)} : host' = [host EXCEPT ![h] = row]
    BY <1>3 DEF Admit, Deny
  <2>2. Serving(h) /\ UNCHANGED <<generation, gens>>
    BY <1>3 DEF Admit, Deny
  <2>3. Serves(h, row)
    BY <2>2, ServingRow
  <2> QED
    BY <1>1, <2>1, <2>2, <2>3
<1>4. ASSUME NEW c \in Client, Control(h, c), client[c].grant \in Grant,
             client[c].kind \in {"issue", "revoke"}
      PROVE  /\ Hosting' /\ Serving(h) /\ GrantsStay(h, host'[h])
             /\ \A k \in Host : k # h => host'[k] = host[k]
  <2> DEFINE x == client[c].grant
             kind == client[c].kind
             done == IF kind = "issue" THEN Issuable(h, x) ELSE Revocable(h, x)
  <2>1. /\ Serving(h) /\ UNCHANGED <<generation, gens>>
        /\ host' = [host EXCEPT ![h] = IF done THEN Stamp(h, x, kind)
                                       ELSE IF kind = "issue" THEN Fenced(h) ELSE @]
    BY <1>4 DEF Control, Reaches
  <2>2. CASE done
    <3>1. Serves(h, Stamp(h, x, kind))
      BY <1>4, <2>1, <2>2, StampRow
    <3>2. host' = [host EXCEPT ![h] = Stamp(h, x, kind)]
      BY <2>1, <2>2
    <3> QED
      BY <1>1, <2>1, <3>1, <3>2
  <2>3. CASE ~done
    <3> HIDE DEF done
    <3>1. PICK row \in {host[h], Fenced(h)} : host' = [host EXCEPT ![h] = row]
      BY <2>1, <2>3
    <3>2. Serves(h, row)
      BY <2>1, ServingRow
    <3> QED
      BY <1>1, <2>1, <3>1, <3>2
  <2> QED
    BY <2>2, <2>3
<1> QED
  BY <1>2, <1>3, <1>4

\* power loss: no host is left, and a home that is lost takes its generations along
LEMMA LosesKept ==
  ASSUME Hosting, LosePower
  PROVE  Hosting' /\ host' = [h \in Host |-> NoHost] /\ client' = [c \in Client |-> NoClient]
<1>1. host' = [h \in Host |-> NoHost] /\ client' = [c \in Client |-> NoClient]
  BY DEF LosePower
<1>2. generation' \in 0..MaxGenerations
  BY ActivationAssumption DEF Hosting, Hosted, LosePower
<1>3. gens' \in [Generation -> GenRow]
  <2>1. Absent \in GenRow /\ \A now \in SUBSET {"temp", "file"} : Rebooted(Absent, now) \in GenRow
    BY DEF Absent, GenRow, Rebooted
  <2>2. \/ gens' \in [Generation -> {Absent} \union
                        {Rebooted(Absent, now) : now \in SUBSET {"temp", "file"}}]
        \/ gens' = [g \in Generation |-> Absent]
    BY DEF LosePower
  <2> QED
    BY <2>1, <2>2
<1>4. host' \in [Host -> HostRow]
  BY <1>1, NoRows
<1>5. \A h \in Host : host'[h].pc = "off" /\ host'[h].gen = 0 /\ host'[h].current = 0
                      /\ host'[h].grants = NoGrants
  BY <1>1 DEF NoHost
<1> QED
  BY <1>1, <1>2, <1>3, <1>4, <1>5 DEF Hosting, Hosted, Owned, Owner, Filed, FenceHolds, Sole

LEMMA HostingInit == Init => Hosting
<1> SUFFICES ASSUME Init PROVE Hosting
  OBVIOUS
<1>1. generation \in 0..MaxGenerations
  BY ActivationAssumption DEF Init
<1>2. gens \in [Generation -> GenRow] /\ host \in [Host -> HostRow]
  BY NoRows DEF Init
<1>3. \A h \in Host : host[h].pc = "off" /\ host[h].gen = 0 /\ host[h].current = 0
                      /\ host[h].grants = NoGrants
  BY DEF Init, NoHost
<1> QED
  BY <1>1, <1>2, <1>3 DEF Hosting, Hosted, Owned, Owner, Filed, FenceHolds, Sole

-----------------------------------------------------------------------------
(* Requests.                                                               *)
(*                                                                         *)
(* A request is bound to a host and its generation.  That generation never *)
(* gets another host, so whatever the host does while it has it can only   *)
(* lose what the request has done by moving on to a later fence.           *)

Kinds == {"issue", "revoke"}
ClientRow == [pc : {"idle", "loaded", "sent", "unsent", "answered", "told"},
              kind : Kinds \union {"none"}, grant : Grant \union {"none"},
              host : Host \union {"none"}, gen : Nat,
              reply : {"none", "done", "error", "lost", "rejected", "indeterminate"},
              applied : BOOLEAN]

\* the request names a host that serves under its generation, as long as it has it
Bound(c) ==
  client[c].pc # "idle" =>
    /\ client[c].host \in Host /\ client[c].grant \in Grant /\ client[c].kind \in Kinds
    /\ client[c].gen \in 1..generation
    /\ host[client[c].host].gen = client[c].gen => Serving(client[c].host)

\* what a request was answered, and whether it was carried out
Answered(c) ==
  /\ client[c].pc \in {"idle", "loaded", "sent", "unsent"} =>
       ~client[c].applied /\ client[c].reply = "none"
  /\ client[c].reply = "done" => client[c].applied
  /\ client[c].reply \in {"error", "rejected"} => ~client[c].applied

\* the grant bears the mark of the request, unless the fence has moved past the host
Bears(row, kind, x) ==
  \/ row.current > row.gen
  \/ kind = "issue" /\ row.grants[x].status # "none" /\ row.grants[x].gen = row.gen
  \/ kind = "revoke" /\ row.grants[x].status = "revoked"

Marked(c) ==
  client[c].pc # "idle" /\ client[c].applied /\ host[client[c].host].gen = client[c].gen =>
    Bears(host[client[c].host], client[c].kind, client[c].grant)

Requested(c) == Bound(c) /\ Answered(c) /\ Marked(c)
Requests == client \in [Client -> ClientRow] /\ \A c \in Client : Requested(c)

\* how a host may change under a request
Moves(h) ==
  /\ generation \in Nat /\ generation' \in Nat /\ generation' >= generation
  /\ \A k \in Host : k # h => host'[k] = host[k]
  /\ \/ Unserved(h)
     \/ host'[h].gen = generation + 1
     \/ Serving(h) /\ GrantsStay(h, host'[h])

LEMMA RequestKept ==
  ASSUME Hosting, Hosting', NEW h \in Host, Moves(h), NEW c \in Client, Requested(c),
         client'[c] = client[c]
  PROVE  Requested(c)'
<1>1. CASE client[c].pc = "idle"
  BY <1>1 DEF Requested, Bound, Answered, Marked
<1>2. CASE client[c].pc # "idle"
  <2> DEFINE k == client[c].host
             x == client[c].grant
  <2>1. /\ k \in Host /\ x \in Grant /\ client[c].kind \in Kinds /\ client[c].gen \in 1..generation
        /\ host[k].gen = client[c].gen => host[k].pc = "active"
    BY <1>2 DEF Requested, Bound, Serving
  <2>2. client[c].gen \in 1..generation' /\ client[c].gen # 0 /\ client[c].gen # generation + 1
    BY <2>1 DEF Moves
  <2>3. CASE host'[k] = host[k]
    BY <1>2, <2>1, <2>2, <2>3 DEF Requested, Bound, Answered, Marked, Serving
  <2>4. CASE k = h /\ host'[h].gen # client[c].gen
    BY <1>2, <2>1, <2>2, <2>4 DEF Requested, Bound, Answered, Marked
  <2>5. CASE k = h /\ Serving(h) /\ GrantsStay(h, host'[h])
    <3> DEFINE row == host[h]
               now == host'[h]
    <3>1. /\ now.pc = "active" /\ now.gen = row.gen /\ now.current >= row.current
          /\ \/ now.current > now.gen
             \/ /\ row.grants[x].status # "none" =>
                     now.grants[x].status # "none" /\ now.grants[x].gen = row.grants[x].gen
                /\ row.grants[x].status = "revoked" => now.grants[x].status = "revoked"
      BY <2>1, <2>5 DEF GrantsStay
    <3>2. row.current \in Nat /\ now.current \in Nat /\ row.gen \in Nat
      BY DEF Hosting, Hosted, HostRow
    <3>3. Bears(row, client[c].kind, x) => Bears(now, client[c].kind, x)
      BY <3>1, <3>2 DEF Bears
    <3>4. Bound(c)' /\ Answered(c)'
      BY <1>2, <2>1, <2>2, <2>5, <3>1 DEF Requested, Bound, Answered, Serving
    <3>5. Marked(c)'
      BY <1>2, <2>5, <3>1, <3>3 DEF Requested, Marked
    <3> QED
      BY <3>4, <3>5 DEF Requested
  <2>6. k = h => (\/ host'[h].gen # client[c].gen
                  \/ Serving(h) /\ GrantsStay(h, host'[h]))
    BY <2>1, <2>2 DEF Moves, Unserved
  <2> QED
    BY <2>1, <2>3, <2>4, <2>5, <2>6 DEF Moves
<1> QED
  BY <1>1, <1>2

\* the steps of a host that are not for a request
LEMMA HostMoves ==
  ASSUME Hosting, NEW h \in Host,
         \/ Preflight(h) \/ StartRuntime(h) \/ ScanGenerations(h) \/ MakeGeneration(h)
         \/ WriteTemp(h) \/ LinkGrantSet(h) \/ UnlinkTemp(h) \/ SyncGeneration(h)
         \/ SetCurrent(h) \/ Activate(h) \/ ActivationFails(h) \/ HostEnds(h)
         \/ \E x \in Grant : Expire(h, x) \/ Admit(h, x) \/ Deny(h, x)
  PROVE  Hosting' /\ Moves(h) /\ client' = client
<1>0. generation \in Nat
  BY ActivationAssumption DEF Hosting, Hosted
<1>1. client' = client
  BY DEF Preflight, StartRuntime, ScanGenerations, MakeGeneration, WriteTemp, LinkGrantSet,
         UnlinkTemp, SyncGeneration, Write, SetCurrent, Activate, ActivationFails, HostEnds,
         Expire, Admit, Deny
<1>2. CASE StartRuntime(h)
  BY <1>0, <1>1, <1>2, GenerationsKept DEF Moves
<1>3. CASE \/ Preflight(h) \/ ScanGenerations(h) \/ MakeGeneration(h)
           \/ WriteTemp(h) \/ LinkGrantSet(h) \/ UnlinkTemp(h) \/ SyncGeneration(h)
           \/ SetCurrent(h) \/ Activate(h) \/ ActivationFails(h) \/ HostEnds(h)
  <2>1. Hosting' /\ Unserved(h)
    BY <1>3, StartsKept, PublishStepsKept, EndsKept
  <2>2. generation' = generation
    BY <1>3 DEF Preflight, ScanGenerations, MakeGeneration, WriteTemp, LinkGrantSet, UnlinkTemp,
                SyncGeneration, Write, SetCurrent, Activate, ActivationFails, HostEnds
  <2> QED
    BY <1>0, <1>1, <2>1, <2>2 DEF Moves, Unserved
<1>4. CASE \E x \in Grant : Expire(h, x) \/ Admit(h, x) \/ Deny(h, x)
  <2>1. generation' = generation
    BY <1>4 DEF Expire, Admit, Deny
  <2> QED
    BY <1>0, <1>1, <1>4, <2>1, ServesKept DEF Moves
<1> QED
  BY <1>2, <1>3, <1>4

\* the steps of a client leave the hosts alone
LEMMA ClientSteps ==
  ASSUME NEW c \in Client, LoadGrantSet(c) \/ Send(c) \/ Unanswered(c) \/ Conclude(c)
  PROVE  UNCHANGED <<generation, gens, host>>
BY DEF LoadGrantSet, Send, Unanswered, Conclude

LEMMA HostingStep == Hosting /\ Requests /\ [Next]_vars => Hosting'
<1> SUFFICES ASSUME Hosting, Requests, [Next]_vars PROVE Hosting'
  OBVIOUS
<1>1. CASE UNCHANGED <<generation, gens, host>>
  BY <1>1 DEF Hosting, Hosted, Owned, Owner, Filed, FenceHolds, Sole, Holds
<1>2. CASE InstallNext /\ UNCHANGED activeVars
  BY <1>1, <1>2 DEF activeVars
<1>3. CASE UNCHANGED vars
  BY <1>1, <1>3 DEF vars, activeVars
<1>4. ASSUME NEW h \in Host, NEW c \in Client, Control(h, c)
      PROVE  Hosting'
  <2>1. client[c].grant \in Grant /\ client[c].kind \in {"issue", "revoke"}
    BY <1>4 DEF Requests, Requested, Bound, Control, Kinds
  <2> QED
    BY <1>4, <2>1, ServesKept
<1> QED
  BY <1>1, <1>2, <1>3, <1>4, HostMoves, ClientSteps, LosesKept DEF Next

\* a request is made, or ends, without a host
LEMMA ClientKept ==
  ASSUME Hosting, Requests, NEW c \in Client,
         LoadGrantSet(c) \/ Send(c) \/ Unanswered(c) \/ Conclude(c)
  PROVE  Requests'
<1>0. /\ client \in [Client -> ClientRow] /\ client[c] \in ClientRow /\ Requested(c)
      /\ UNCHANGED <<generation, gens, host>>
  BY ClientSteps DEF Requests
<1>1. ASSUME NEW row \in ClientRow, client' = [client EXCEPT ![c] = row], Requested(c)'
      PROVE  Requests'
  <2>1. client' \in [Client -> ClientRow] /\ \A d \in Client : d # c => client'[d] = client[d]
    BY <1>0, <1>1
  <2>2. ASSUME NEW d \in Client, d # c
        PROVE  Requested(d)'
    BY <1>0, <2>1, <2>2 DEF Requests, Requested, Bound, Answered, Marked, Serving
  <2> QED
    BY <1>1, <2>1, <2>2 DEF Requests
<1>2. CASE LoadGrantSet(c)
  <2>1. PICK h \in Host, x \in Grant, kind \in Kinds :
          /\ Serving(h)
          /\ client' = [client EXCEPT ![c] = [NoClient EXCEPT !.pc = "loaded", !.kind = kind,
                                        !.grant = x, !.host = h, !.gen = host[h].gen]]
    BY <1>2 DEF LoadGrantSet, Kinds
  <2> DEFINE g == host[h].gen
             row == [NoClient EXCEPT !.pc = "loaded", !.kind = kind,
                                     !.grant = x, !.host = h, !.gen = g]
  <2>2. g \in Nat /\ g \in 1..generation
    BY <2>1 DEF Hosting, Hosted, HostRow, Owned, Owner, Serving
  <2>3. /\ row.pc = "loaded" /\ row.kind = kind /\ row.grant = x /\ row.host = h /\ row.gen = g
        /\ row.reply = "none" /\ row.applied = FALSE /\ row \in ClientRow
    BY <2>2 DEF NoClient, ClientRow
  <2>4. client' = [client EXCEPT ![c] = row]
    BY <2>1
  <2> HIDE DEF row
  <2>5. client'[c] = row
    BY <1>0, <2>4
  <2>6. Requested(c)'
    BY <1>0, <2>1, <2>2, <2>3, <2>5 DEF Requested, Bound, Answered, Marked, Serving
  <2> QED
    BY <1>1, <2>3, <2>4, <2>6
<1>3. ASSUME NEW pc \in {"sent", "unsent", "answered", "told"},
             NEW reply \in {"none", "done", "error", "lost", "rejected", "indeterminate"},
             client' = [client EXCEPT ![c] = [client[c] EXCEPT !.pc = pc, !.reply = reply]],
             client[c].pc # "idle",
             pc \in {"sent", "unsent"} => ~client[c].applied /\ reply = "none",
             reply = "done" => client[c].applied,
             reply \in {"error", "rejected"} => ~client[c].applied
      PROVE  Requests'
  <2> DEFINE row == [client[c] EXCEPT !.pc = pc, !.reply = reply]
  <2>1. /\ row \in ClientRow /\ row.pc = pc /\ row.reply = reply /\ row.kind = client[c].kind
        /\ row.grant = client[c].grant /\ row.host = client[c].host /\ row.gen = client[c].gen
        /\ row.applied = client[c].applied
    BY <1>0 DEF ClientRow
  <2>2. client' = [client EXCEPT ![c] = row]
    BY <1>3
  <2> HIDE DEF row
  <2>3. client'[c] = row
    BY <1>0, <2>2
  <2>4. Requested(c)'
    BY <1>0, <1>3, <2>1, <2>3 DEF Requested, Bound, Answered, Marked, Serving
  <2> QED
    BY <1>1, <2>1, <2>2, <2>4
<1>4. CASE Send(c)
  <2>1. PICK pc \in {"sent", "unsent"} : client' = [client EXCEPT ![c].pc = pc]
    BY <1>4 DEF Send
  <2>2. client[c].pc = "loaded" /\ ~client[c].applied /\ client[c].reply = "none"
    BY <1>0, <1>4 DEF Send, Requested, Answered
  <2>3. client' = [client EXCEPT ![c] = [client[c] EXCEPT !.pc = pc, !.reply = "none"]]
    BY <1>0, <2>1, <2>2 DEF ClientRow
  <2> QED
    BY <1>3, <2>2, <2>3
<1>5. CASE Unanswered(c)
  <2>1. client' = [client EXCEPT ![c] = [client[c] EXCEPT !.pc = "answered", !.reply = "lost"]]
    BY <1>0, <1>5 DEF Unanswered, ClientRow
  <2> QED
    BY <1>3, <1>5, <2>1 DEF Unanswered
<1>6. CASE Conclude(c)
  <2> DEFINE told == CASE client[c].reply = "error" -> "rejected"
                       [] client[c].reply = "done" /\ CurrentlyPublished(client[c].gen) -> "done"
                       [] OTHER -> "indeterminate"
  <2>1. /\ client[c].pc = "answered"
        /\ client' = [client EXCEPT ![c].pc = "told", ![c].reply = told]
    BY <1>6 DEF Conclude
  <2>2. /\ told \in {"done", "rejected", "indeterminate"}
        /\ told = "rejected" => client[c].reply = "error"
        /\ told = "done" => client[c].reply = "done"
    <3>1. CASE client[c].reply = "error"
      BY <3>1
    <3>2. CASE client[c].reply = "done" /\ CurrentlyPublished(client[c].gen)
      BY <3>2
    <3>3. CASE ~(client[c].reply = "error")
               /\ ~(client[c].reply = "done" /\ CurrentlyPublished(client[c].gen))
      BY <3>3
    <3> QED
      BY <3>1, <3>2, <3>3
  <2> HIDE DEF told
  <2>3. client' = [client EXCEPT ![c] = [client[c] EXCEPT !.pc = "told", !.reply = told]]
    BY <1>0, <2>1 DEF ClientRow
  <2> QED
    BY <1>0, <1>3, <2>1, <2>2, <2>3 DEF Requested, Answered
<1> QED
  BY <1>2, <1>4, <1>5, <1>6

\* a host carries out a request, or raises
LEMMA ControlKept ==
  ASSUME Hosting, Requests, NEW h \in Host, NEW c \in Client, Control(h, c)
  PROVE  Requests' /\ Hosting' /\ Moves(h)
<1> DEFINE x == client[c].grant
           kind == client[c].kind
           done == IF kind = "issue" THEN Issuable(h, x) ELSE Revocable(h, x)
<1>0. /\ client \in [Client -> ClientRow] /\ client[c] \in ClientRow /\ Requested(c)
      /\ x \in Grant /\ kind \in Kinds /\ client[c].pc = "sent" /\ client[c].host = h
      /\ Serving(h) /\ host[h].gen = client[c].gen /\ UNCHANGED <<generation, gens>>
      /\ host \in [Host -> HostRow] /\ generation \in Nat
  BY ActivationAssumption
  DEF Requests, Requested, Bound, Control, Reaches, Hosting, Hosted
<1>1. /\ Hosting' /\ GrantsStay(h, host'[h])
      /\ \A k \in Host : k # h => host'[k] = host[k]
  BY <1>0, ServesKept DEF Kinds
<1>2. Moves(h)
  BY <1>0, <1>1 DEF Moves
<1>3. done => Bears(host'[h], kind, x)
  <2> SUFFICES ASSUME done PROVE Bears(host'[h], kind, x)
    OBVIOUS
  <2>1. host' = [host EXCEPT ![h] = Stamp(h, x, kind)]
    BY <1>0 DEF Control
  <2>2. host'[h] = Stamp(h, x, kind)
    BY <1>0, <2>1
  <2>3. /\ Serves(h, Stamp(h, x, kind))
        /\ \/ Stamp(h, x, kind).current > host[h].gen
           \/ kind = "issue" /\ Stamp(h, x, kind).grants[x].status = "live"
                             /\ Stamp(h, x, kind).grants[x].gen = host[h].gen
           \/ kind = "revoke" /\ Stamp(h, x, kind).grants[x].status = "revoked"
    BY <1>0, StampRow DEF Kinds
  <2> QED
    BY <2>2, <2>3 DEF Bears, Serves, GrantsStay
<1>4. PICK reply \in {IF done THEN "done" ELSE "error", "lost"} :
        client' = [client EXCEPT ![c].pc = "answered", ![c].reply = reply, ![c].applied = done]
  BY DEF Control
<1>5. done \in BOOLEAN /\ (reply = "done" => done) /\ (reply = "error" => ~done)
      /\ reply \in {"done", "error", "lost"}
  <2>1. (Issuable(h, x) \in BOOLEAN) /\ (Revocable(h, x) \in BOOLEAN)
    BY DEF Issuable, Revocable
  <2> QED
    BY <1>4, <2>1
<1>6. /\ client'[c].pc = "answered" /\ client'[c].reply = reply /\ client'[c].applied = done
      /\ client'[c].kind = kind /\ client'[c].grant = x /\ client'[c].host = h
      /\ client'[c].gen = client[c].gen /\ client' \in [Client -> ClientRow]
      /\ \A d \in Client : d # c => client'[d] = client[d]
  <2> HIDE DEF done
  <2> QED
    BY <1>0, <1>4, <1>5 DEF ClientRow
<1> HIDE DEF done
<1>7. Requested(c)'
  <2>1. Bound(c)'
    BY <1>0, <1>1, <1>6 DEF Requested, Bound, Serving, GrantsStay
  <2>2. Answered(c)'
    BY <1>5, <1>6 DEF Answered
  <2>3. Marked(c)'
    BY <1>3, <1>6 DEF Marked
  <2> QED
    BY <2>1, <2>2, <2>3 DEF Requested
<1>8. ASSUME NEW d \in Client, d # c
      PROVE  Requested(d)'
  BY <1>1, <1>2, <1>6, <1>8, RequestKept DEF Requests
<1> QED
  BY <1>1, <1>2, <1>6, <1>7, <1>8 DEF Requests

LEMMA NobodyAsks ==
  /\ NoClient \in ClientRow /\ NoClient.pc = "idle" /\ NoClient.reply = "none"
  /\ NoClient.applied = FALSE
BY DEF NoClient, ClientRow, Kinds

LEMMA RequestsStep == Hosting /\ Requests /\ [Next]_vars => Requests'
<1> SUFFICES ASSUME Hosting, Requests, [Next]_vars PROVE Requests'
  OBVIOUS
<1>1. CASE UNCHANGED <<generation, gens, host, client>>
  BY <1>1 DEF Requests, Requested, Bound, Answered, Marked, Serving
<1>2. ASSUME NEW h \in Host, Moves(h), Hosting', client' = client
      PROVE  Requests'
  BY <1>2, RequestKept DEF Requests
<1>3. CASE LosePower
  <2>1. client' = [c \in Client |-> NoClient]
    BY <1>3, LosesKept
  <2> QED
    BY <2>1, NobodyAsks DEF Requests, Requested, Bound, Answered, Marked
<1>4. CASE InstallNext /\ UNCHANGED activeVars
  BY <1>1, <1>4 DEF activeVars
<1>5. CASE UNCHANGED vars
  BY <1>1, <1>5 DEF vars, activeVars
<1> QED
  BY <1>2, <1>3, <1>4, <1>5, HostMoves, ControlKept, ClientKept DEF Next

-----------------------------------------------------------------------------
(* The home under the grants: grant control begins at a home that is       *)
(* settled and that no stranger has touched, and it stays so until the     *)
(* power goes, which leaves no grant and no request behind.                *)

Tidy == Foreign \notin target.dir.now /\ \A e \in Epoch : Foreign \notin stages[e].now
Counted == intrusions \in Nat /\ losses \in Nat
Clean == intrusions = 0 /\ losses = 0 => Tidy
Settled ==
  /\ \A i \in Installer : work[i].pc \in {"refused", "installed"}
  /\ Foreign \notin target.dir.now
Active ==
  \/ \E c \in Client : client[c].pc # "idle"
  \/ \E h \in Host, x \in Grant : host[h].grants[x].status # "none"
AtHome == Counted /\ Clean /\ (Active => Settled)

LEMMA NotForeign == \A name, i : name \in SqliteName \union Evidence => <<name, i>> # Foreign
BY DEF SqliteName, Evidence, Foreign

LEMMA PhaseTidy ==
  ASSUME Installed, Tidy, NEW i \in Installer, Stages(i), NEW pc, NEW gone, NEW new, NEW synced,
         Phase(i, pc, gone, new, synced), Foreign \notin new
  PROVE  Tidy'
<1> DEFINE now == (Stage(i).now \ gone) \union new
           e == work[i].epoch
           disk == IF synced THEN now ELSE stages[e].disk
<1>1. /\ stages \in [Epoch -> Directory] /\ e \in Epoch
      /\ Stage(i) = stages[e] /\ target' = target
      /\ stages' = [stages EXCEPT ![e].now = now, ![e].disk = IF synced THEN now ELSE @]
  BY DEF Installed, Stored, Placed, Stage, Phase
<1>2. Foreign \notin now
  BY <1>1 DEF Tidy
<1> HIDE DEF now, e, disk
<1>3. stages'[e].now = now /\ \A f \in Epoch : f # e => stages'[f] = stages[f]
  BY <1>1 DEF Directory
<1> QED
  BY <1>1, <1>2, <1>3 DEF Tidy

LEMMA PhasesTidy ==
  ASSUME Installed, Tidy, NEW i \in Installer,
         \/ ConstructEmptyV5(i) \/ VerifyEmptyV5(i) \/ CreateBackup(i) \/ VerifyBackup(i)
         \/ PrepareSidecars(i) \/ ApplyV6(i) \/ VerifyV6(i) \/ QuiesceDatabase(i)
         \/ WriteEvidence(i) \/ RemoveBackup(i)
  PROVE  Tidy'
<1>1. Stages(i)
  BY DEF ConstructEmptyV5, VerifyEmptyV5, CreateBackup, VerifyBackup, PrepareSidecars, ApplyV6,
         VerifyV6, QuiesceDatabase, WriteEvidence, RemoveBackup, Ready, Stages, Staging
<1>2. /\ Foreign \notin {<<"v5", i>>} /\ Foreign \notin {<<"v6", i>>}
      /\ Foreign \notin {<<"backup", i>>} /\ Foreign \notin {<<"wal", i>>}
      /\ Foreign \notin {<<"pending", i>>} /\ Foreign \notin {}
      /\ Foreign \notin {<<name, i>> : name \in Evidence}
  BY NotForeign DEF SqliteName
<1>3. ASSUME NEW pc, NEW gone, NEW new, NEW synced, Phase(i, pc, gone, new, synced),
             Foreign \notin new
      PROVE  Tidy'
  BY <1>1, <1>3, PhaseTidy
<1>4. CASE ConstructEmptyV5(i)
  BY <1>2, <1>3, <1>4 DEF ConstructEmptyV5
<1>5. CASE VerifyEmptyV5(i)
  BY <1>2, <1>3, <1>5 DEF VerifyEmptyV5
<1>6. CASE CreateBackup(i)
  BY <1>2, <1>3, <1>6 DEF CreateBackup
<1>7. CASE VerifyBackup(i)
  BY <1>2, <1>3, <1>7 DEF VerifyBackup
<1>8. CASE PrepareSidecars(i)
  BY <1>2, <1>3, <1>8 DEF PrepareSidecars
<1>9. CASE ApplyV6(i)
  BY <1>2, <1>3, <1>9 DEF ApplyV6
<1>10. CASE VerifyV6(i)
  BY <1>2, <1>3, <1>10 DEF VerifyV6
<1>11. CASE QuiesceDatabase(i)
  BY <1>2, <1>3, <1>11 DEF QuiesceDatabase
<1>12. CASE WriteEvidence(i)
  BY <1>2, <1>3, <1>12 DEF WriteEvidence
<1>13. CASE RemoveBackup(i)
  BY <1>2, <1>3, <1>13 DEF RemoveBackup
<1> QED
  BY <1>4, <1>5, <1>6, <1>7, <1>8, <1>9, <1>10, <1>11, <1>12, <1>13

LEMMA InstallTidy ==
  ASSUME Installed, Tidy, InstallNext
  PROVE  Tidy' \/ intrusions' = intrusions + 1
<1>0. /\ stages \in [Epoch -> Directory] /\ Absent.now = {} /\ Abandoned.now = {}
  BY DEF Installed, Stored, Absent, Abandoned
<1>1. ASSUME UNCHANGED <<target, stages>>
      PROVE  Tidy'
  BY <1>1 DEF Tidy
<1>2. ASSUME NEW i \in Installer, PreflightTarget(i) \/ BindInputs(i) \/ Record(i)
                                  \/ VerifyStagedEvidence(i) \/ VerifyPublished(i)
      PROVE  Tidy'
  BY <1>1, <1>2 DEF PreflightTarget, BindInputs, Record, VerifyStagedEvidence, VerifyPublished
<1>3. ASSUME target' = target, NEW e \in Epoch, NEW dir, Foreign \notin dir.now,
             stages' = [stages EXCEPT ![e] = dir]
      PROVE  Tidy'
  BY <1>0, <1>3 DEF Tidy
<1>4. ASSUME NEW i \in Installer, CreateStage(i)
      PROVE  Tidy'
  <2>1. target' = target /\ [Absent EXCEPT !.exists = TRUE].now = {}
    BY <1>4 DEF CreateStage, Absent
  <2>2. CASE stages' = stages
    BY <1>1, <2>1, <2>2
  <2>3. ASSUME NEW e \in Epoch, stages' = [stages EXCEPT ![e] = [Absent EXCEPT !.exists = TRUE]]
        PROVE  Tidy'
    BY <1>3, <2>1, <2>3
  <2> QED
    BY <1>4, <2>2, <2>3 DEF CreateStage
<1>5. ASSUME NEW i \in Installer, SyncStage(i)
      PROVE  Tidy'
  <2> DEFINE e == work[i].epoch
             now == Stage(i).now
  <2>1. e \in Epoch /\ target' = target /\ stages' = [stages EXCEPT ![e].disk = now]
    BY <1>5 DEF SyncStage, Ready, Installed, Placed, Stages, Staging
  <2> HIDE DEF e, now
  <2>2. \A f \in Epoch : stages'[f].now = stages[f].now
    BY <1>0, <2>1 DEF Directory
  <2> QED
    BY <2>1, <2>2 DEF Tidy
<1>6. ASSUME NEW i \in Installer, Publish(i)
      PROVE  Tidy'
  <2> DEFINE e == work[i].epoch
  <2>1. e \in Epoch /\ target'.dir = stages[e] /\ stages' = [stages EXCEPT ![e] = Absent]
    BY <1>6 DEF Publish, Installed, Placed, Stages, Staging, Stage
  <2> HIDE DEF e
  <2>2. \A f \in Epoch : Foreign \notin stages'[f].now
    BY <1>0, <2>1 DEF Tidy
  <2> QED
    BY <2>1, <2>2 DEF Tidy
<1>7. ASSUME NEW i \in Installer, VerifyPublication(i)
      PROVE  Tidy'
  <2>1. stages' = stages /\ target'.dir = target.dir
    BY <1>7 DEF VerifyPublication, Installed, Stored, TargetRow
  <2> QED
    BY <2>1 DEF Tidy
<1>8. ASSUME NEW i \in Installer, PhaseFails(i)
      PROVE  Tidy'
  <2>1. target' = target /\ work[i].epoch \in Epoch
    BY <1>8 DEF PhaseFails, Installed, Placed, Stages
  <2>2. PICK dir \in {Absent, Abandoned} : stages' = [stages EXCEPT ![work[i].epoch] = dir]
    BY <1>8 DEF PhaseFails, CleanupStage
  <2> QED
    BY <1>0, <1>3, <2>1, <2>2
<1>9. ASSUME NEW i \in Installer, InstallerDies(i)
      PROVE  Tidy'
  <2>1. /\ target' = target
        /\ \A e \in Epoch : stages'[e] = Abandoned \/ stages'[e] = stages[e]
    BY <1>9 DEF InstallerDies
  <2> QED
    BY <1>0, <2>1 DEF Tidy
<1> QED
  BY <1>2, <1>4, <1>5, <1>6, <1>7, <1>8, <1>9, PhasesTidy DEF InstallNext, Intrude

\* nothing is installed at a home where every installer is done
LEMMA SettledKept ==
  ASSUME Installed, Settled, [Next]_vars, ~LosePower
  PROVE  Settled'
<1>1. CASE UNCHANGED installVars
  BY <1>1 DEF installVars, Settled
<1>2. ~InstallNext
  BY DEF Settled, InstallNext, PreflightTarget, BindInputs, CreateStage, Record, Ready,
         ConstructEmptyV5, VerifyEmptyV5, CreateBackup, VerifyBackup, PrepareSidecars, ApplyV6,
         VerifyV6, QuiesceDatabase, WriteEvidence, RemoveBackup, VerifyStagedEvidence, SyncStage,
         Publish, VerifyPublication, VerifyPublished, PhaseFails, InstallerDies, Intrude,
         Staging, Outcome
<1>3. ASSUME NEW h \in Host, StartRuntime(h)
      PROVE  Settled'
  <2>1. work' = work /\ target'.dir.now = target.dir.now \union {Runtime}
    BY <1>3 DEF StartRuntime, Installed, Stored, TargetRow, Directory
  <2>2. Runtime # Foreign
    BY DEF Runtime, Foreign
  <2> QED
    BY <2>1, <2>2 DEF Settled
<1> QED
  BY <1>1, <1>2, <1>3, InstallUntouched DEF vars

LEMMA CleanStep == Installed /\ Counted /\ Clean /\ [Next]_vars => Counted' /\ Clean'
<1> SUFFICES ASSUME Installed, Counted, Clean, [Next]_vars PROVE Counted' /\ Clean'
  OBVIOUS
<1>1. CASE UNCHANGED installVars
  BY <1>1 DEF installVars, Counted, Clean, Tidy
<1>2. CASE InstallNext
  <2>1. losses' = losses /\ (intrusions' = intrusions \/ intrusions' = intrusions + 1)
    BY <1>2 DEF InstallNext, PreflightTarget, BindInputs, CreateStage, Record, Phase,
                ConstructEmptyV5, VerifyEmptyV5, CreateBackup, VerifyBackup, PrepareSidecars,
                ApplyV6, VerifyV6, QuiesceDatabase, WriteEvidence, RemoveBackup,
                VerifyStagedEvidence, SyncStage, Publish, VerifyPublication, VerifyPublished,
                PhaseFails, InstallerDies, Intrude
  <2>2. Counted' /\ (intrusions' = intrusions + 1 => intrusions' # 0)
    BY <2>1 DEF Counted
  <2>3. CASE intrusions' = intrusions + 1
    BY <2>2, <2>3 DEF Clean
  <2>4. CASE intrusions' # intrusions + 1
    <3>1. Tidy => Tidy'
      BY <1>2, <2>4, InstallTidy
    <3> QED
      BY <2>1, <2>2, <2>4, <3>1 DEF Clean
  <2> QED
    BY <2>3, <2>4
<1>3. CASE LosePower
  <2>1. losses' = losses + 1 /\ intrusions' = intrusions
    BY <1>3 DEF LosePower, PowerLoss
  <2> QED
    BY <2>1 DEF Counted, Clean
<1>4. ASSUME NEW h \in Host, StartRuntime(h)
      PROVE  Counted' /\ Clean'
  <2>1. UNCHANGED <<stages, intrusions, losses>> /\ target'.dir.now = target.dir.now \union {Runtime}
    BY <1>4 DEF StartRuntime, Installed, Stored, TargetRow, Directory
  <2>2. Runtime # Foreign
    BY DEF Runtime, Foreign
  <2> QED
    BY <2>1, <2>2 DEF Counted, Clean, Tidy
<1> QED
  BY <1>1, <1>2, <1>3, <1>4, InstallUntouched

\* a grant comes into being only for a request
LEMMA GrantsCome ==
  ASSUME Hosting, NEW h \in Host,
         \/ Preflight(h) \/ StartRuntime(h) \/ ScanGenerations(h) \/ MakeGeneration(h)
         \/ WriteTemp(h) \/ LinkGrantSet(h) \/ UnlinkTemp(h) \/ SyncGeneration(h)
         \/ SetCurrent(h) \/ Activate(h) \/ ActivationFails(h) \/ HostEnds(h)
         \/ \E x \in Grant : Expire(h, x) \/ Admit(h, x) \/ Deny(h, x),
         NEW k \in Host, NEW y \in Grant, host'[k].grants[y].status # "none"
  PROVE  host[k].grants[y].status # "none"
<1>0. host \in [Host -> HostRow] /\ NoGrants[y].status = "none"
  BY DEF Hosting, Hosted, NoGrants
<1>1. CASE StartRuntime(h)
  <2>1. host'[h].grants = NoGrants /\ \A l \in Host : l # h => host'[l] = host[l]
    BY <1>1, GenerationsKept
  <2> QED
    BY <1>0, <2>1
<1>2. CASE \/ Preflight(h) \/ ScanGenerations(h) \/ MakeGeneration(h)
           \/ WriteTemp(h) \/ LinkGrantSet(h) \/ UnlinkTemp(h) \/ SyncGeneration(h)
           \/ SetCurrent(h) \/ Activate(h) \/ ActivationFails(h) \/ HostEnds(h)
  <2>1. Unserved(h)
    BY <1>2, StartsKept, PublishStepsKept, EndsKept
  <2> QED
    BY <1>0, <2>1 DEF Unserved
<1>3. ASSUME NEW x \in Grant, Expire(h, x)
      PROVE  host[k].grants[y].status # "none"
  <2> DEFINE row == host[h]
  <2>1. host' = [host EXCEPT ![h] = [row EXCEPT !.grants[x].status = "expired"]]
    BY <1>3 DEF Expire
  <2>2. row.grants[x].status # "none" /\ row \in HostRow
    BY <1>0, <1>3 DEF Expire
  <2> HIDE DEF row
  <2>3. \/ host'[k] = host[k]
        \/ k = h /\ host'[k].grants[y] = row.grants[y]
        \/ k = h /\ y = x
    BY <1>0, <2>1, <2>2 DEF HostRow
  <2> QED
    BY <2>2, <2>3 DEF row
<1>4. ASSUME NEW x \in Grant, Admit(h, x) \/ Deny(h, x)
      PROVE  host[k].grants[y].status # "none"
  <2>1. PICK row \in {host[h], Fenced(h)} : host' = [host EXCEPT ![h] = row]
    BY <1>4 DEF Admit, Deny
  <2>2. row.grants = host[h].grants \/ row.grants = NoGrants
    BY <1>4, <2>1, FencedRow DEF Admit, Deny
  <2> QED
    BY <1>0, <2>1, <2>2
<1> QED
  BY <1>1, <1>2, <1>3, <1>4

LEMMA ActiveStep ==
  ASSUME Hosting, [Next]_vars, Active'
  PROVE  Active \/ \E c \in Client : LoadGrantSet(c)
<1>1. CASE UNCHANGED <<host, client>>
  BY <1>1 DEF Active
<1>2. ASSUME NEW h \in Host,
             \/ Preflight(h) \/ StartRuntime(h) \/ ScanGenerations(h) \/ MakeGeneration(h)
             \/ WriteTemp(h) \/ LinkGrantSet(h) \/ UnlinkTemp(h) \/ SyncGeneration(h)
             \/ SetCurrent(h) \/ Activate(h) \/ ActivationFails(h) \/ HostEnds(h)
             \/ \E x \in Grant : Expire(h, x) \/ Admit(h, x) \/ Deny(h, x)
      PROVE  Active
  <2>1. client' = client
    BY <1>2, HostMoves
  <2> QED
    BY <1>2, <2>1, GrantsCome DEF Active
<1>3. ASSUME NEW h \in Host, NEW c \in Client, Control(h, c)
      PROVE  Active
  BY <1>3 DEF Control, Active
<1>4. ASSUME NEW c \in Client, Send(c) \/ Unanswered(c) \/ Conclude(c)
      PROVE  Active
  BY <1>4 DEF Send, Unanswered, Conclude, Active
<1>5. CASE LosePower
  BY <1>5, LosesKept DEF Active, NoHost, NoGrants, NoClient
<1> QED
  BY <1>1, <1>2, <1>3, <1>4, <1>5 DEF Next, vars, activeVars

LEMMA AtHomeStep == Installed /\ Hosting /\ AtHome /\ [Next]_vars => AtHome'
<1> SUFFICES ASSUME Installed, Hosting, AtHome, [Next]_vars PROVE AtHome'
  OBVIOUS
<1>1. Counted' /\ Clean'
  BY CleanStep DEF AtHome
<1>2. ASSUME Active'
      PROVE  Settled'
  <2>1. CASE LosePower
    BY <1>2, <2>1, LosesKept DEF Active, NoHost, NoGrants, NoClient
  <2>2. CASE Active /\ ~LosePower
    BY <2>2, SettledKept DEF AtHome
  <2>3. ASSUME NEW c \in Client, LoadGrantSet(c)
        PROVE  Settled'
    BY <2>3 DEF LoadGrantSet, Undisturbed, AtHome, Clean, Tidy, Settled, installVars
  <2> QED
    BY <1>2, <2>1, <2>2, <2>3, ActiveStep
<1> QED
  BY <1>1, <1>2 DEF AtHome

-----------------------------------------------------------------------------
(* Admissions.                                                             *)

Accepted == \A a \in admissions : ~a.behind /\ ~a.revoked /\ ~a.foreign

Granted == Installed /\ Hosting /\ Requests /\ AtHome /\ Accepted

\* the fence a host has seen is not ahead of what is published
LEMMA FenceIsPresent ==
  ASSUME Hosting, NEW h \in Host
  PROVE  host[h].current \in Nat /\ host[h].current <= Highest /\ Highest \in Nat
<1>1. host[h].current \in Nat /\ FenceHolds(h) /\ Highest \in Nat
  BY HighestIs DEF Hosting, Hosted, HostRow
<1>2. host[h].current # 0 => host[h].current \in Present
  BY <1>1 DEF FenceHolds, Holds, Present
<1> QED
  BY <1>1, <1>2, HighestIs

LEMMA AdmitsCurrent ==
  ASSUME Granted, NEW h \in Host, NEW x \in Grant, Serving(h), Acceptable(h, x)
  PROVE  Highest = host[h].gen /\ ~Told("revoke", h, x) /\ Foreign \notin target.dir.now
<1>0. Hosting /\ host[h].current \in Nat /\ host[h].gen = host[h].current
  BY FenceIsPresent DEF Granted, Acceptable
<1>1. Highest = host[h].gen
  <2>1. Fence(host[h].current) = host[h].current
    BY DEF Acceptable, Verified
  <2> QED
    BY <1>0, <2>1, FenceIs, FenceIsPresent, HighestIs
<1>2. ASSUME NEW c \in Client, client[c].pc = "told", client[c].reply = "done",
             client[c].kind = "revoke", client[c].grant = x, client[c].host = h,
             client[c].gen = host[h].gen
      PROVE  FALSE
  <2>1. Requested(c)
    BY DEF Granted, Requests
  <2>2. Bears(host[h], "revoke", x)
    BY <1>2, <2>1 DEF Requested, Answered, Marked
  <2> QED
    BY <1>0, <2>2 DEF Bears, Acceptable
<1>3. Active
  BY DEF Acceptable, Active
<1> QED
  BY <1>1, <1>2, <1>3 DEF Told, Granted, AtHome, Settled

LEMMA AcceptedStep == Granted /\ [Next]_vars => Accepted'
<1> SUFFICES ASSUME Granted, [Next]_vars PROVE Accepted'
  OBVIOUS
<1>1. CASE admissions' = admissions
  BY <1>1 DEF Granted, Accepted
<1>2. ASSUME NEW h \in Host, NEW x \in Grant, Admit(h, x)
      PROVE  Accepted'
  <2>1. Highest = host[h].gen /\ ~Told("revoke", h, x) /\ Foreign \notin target.dir.now
    BY <1>2, AdmitsCurrent DEF Admit
  <2> DEFINE now == [behind |-> Highest # host[h].gen, revoked |-> Told("revoke", h, x),
                     foreign |-> Foreign \in target.dir.now]
  <2>2. admissions' = admissions \union {now}
    BY <1>2 DEF Admit
  <2>3. ~now.behind /\ ~now.revoked /\ ~now.foreign
    BY <2>1
  <2> HIDE DEF now
  <2> QED
    BY <2>2, <2>3 DEF Granted, Accepted
<1>3. ASSUME NEW h \in Host,
             \/ Preflight(h) \/ StartRuntime(h) \/ ScanGenerations(h) \/ MakeGeneration(h)
             \/ WriteTemp(h) \/ LinkGrantSet(h) \/ UnlinkTemp(h) \/ SyncGeneration(h)
             \/ SetCurrent(h) \/ Activate(h) \/ ActivationFails(h) \/ HostEnds(h)
             \/ \E x \in Grant : Expire(h, x) \/ Deny(h, x)
             \/ \E c \in Client : Control(h, c)
      PROVE  admissions' = admissions
  BY <1>3 DEF Preflight, StartRuntime, ScanGenerations, MakeGeneration, WriteTemp, LinkGrantSet,
              UnlinkTemp, SyncGeneration, Write, SetCurrent, Activate, ActivationFails, HostEnds,
              Expire, Deny, Control
<1>4. ASSUME NEW c \in Client, LoadGrantSet(c) \/ Send(c) \/ Unanswered(c) \/ Conclude(c)
      PROVE  admissions' = admissions
  BY <1>4 DEF LoadGrantSet, Send, Unanswered, Conclude
<1> QED
  BY <1>1, <1>2, <1>3, <1>4 DEF Next, LosePower, vars, activeVars

LEMMA GrantedInit == Init => Granted
<1> SUFFICES ASSUME Init PROVE Granted
  OBVIOUS
<1>1. Requests
  BY NobodyAsks DEF Init, Requests, Requested, Bound, Answered, Marked
<1>2. AtHome
  <2>1. ~Active
    BY DEF Init, Active, NoClient, NoHost, NoGrants
  <2> QED
    BY <2>1 DEF Init, InstallInit, AtHome, Counted, Clean, Tidy, NoTarget, Absent
<1>3. Accepted
  BY DEF Init, Accepted
<1> QED
  BY <1>1, <1>2, <1>3, InstalledInit, HostingInit DEF Granted

\* Session grants mean what they say.  A session is admitted only by the host of the highest
\* published generation, never on a grant whose revocation a client has been told of, and never
\* at a home a stranger has touched: grants live in memory, and every use of one compares the
\* memory with the history on the disk.  A client that was told of a rejection changed nothing,
\* and a host whose generation is the highest published one still knows every grant that a
\* client was told of, although the answer went over a connection that may break.
THEOREM GrantsStayCurrent == Spec => []GrantsAreCurrent
<1>1. Granted /\ [Next]_vars => Granted'
  BY InstalledStep, HostingStep, RequestsStep, AtHomeStep, AcceptedStep DEF Granted
<1>2. Granted => GrantsAreCurrent
  <2> SUFFICES ASSUME Granted PROVE GrantsAreCurrent
    OBVIOUS
  <2>1. ASSUME NEW c \in Client, client[c].pc = "told", client[c].reply = "rejected"
        PROVE  ~client[c].applied
    BY <2>1 DEF Granted, Requests, Requested, Answered
  <2>2. ASSUME NEW h \in Host, NEW x \in Grant, Serving(h), Highest = host[h].gen,
               Told("issue", h, x)
        PROVE  host[h].grants[x].status # "none" /\ host[h].grants[x].gen = host[h].gen
    <3>1. PICK c \in Client : /\ client[c].pc = "told" /\ client[c].reply = "done"
                              /\ client[c].kind = "issue" /\ client[c].grant = x
                              /\ client[c].host = h /\ client[c].gen = host[h].gen
      BY <2>2 DEF Told
    <3>2. Requested(c)
      BY DEF Granted, Requests
    <3>3. Bears(host[h], "issue", x)
      BY <3>1, <3>2 DEF Requested, Answered, Marked
    <3>4. ~(host[h].current > host[h].gen)
      BY <2>2, FenceIsPresent DEF Granted
    <3> QED
      BY <3>3, <3>4 DEF Bears
  <2> QED
    BY <2>1, <2>2 DEF Granted, Accepted, GrantsAreCurrent
<1> QED
  BY <1>1, <1>2, GrantedInit, PTL DEF Spec
=============================================================================
