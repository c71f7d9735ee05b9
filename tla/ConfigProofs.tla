----------------------------- MODULE ConfigProofs -----------------------------
(***************************************************************************)
(* config.json implements ConfigFile, for any number of processes, of      *)
(* backends and of snapshots kept, and so do its commands with the         *)
(* registration of clients.                                                *)
(*                                                                         *)
(* The refinement needs to know where the contents come from (Sources):    *)
(* what is in the file, in a snapshot or in a copy under way is a document *)
(* the file has held, or unreadable; what a save is about to write is an   *)
(* edit of one it has held; and only a process that runs `config restore'  *)
(* gets to write in place.                                                 *)
(*                                                                         *)
(* That an unreadable file can be restored, and that a document is kept    *)
(* before it is overwritten, holds as long as commands do not overlap:     *)
(* then one process is at work (Solo, Sequential), some snapshot is        *)
(* complete if there are any (Kept), and what is about to be overwritten   *)
(* is in one (Preserved), which pruning cannot have removed while few      *)
(* snapshots share a second (FewServers).  That a client can be restored   *)
(* rests on Single: alone, a registration has copied to the backup what it *)
(* then overwrites.                                                        *)
(***************************************************************************)
EXTENDS ClientRegistration, FiniteSetTheorems, TLAPS

\* An edit of a document that the file has held.
Saves(d) == \E b \in past, e \in Abstract!Edits : Abstract!Accepted(e, b) /\ d = Abstract!Edited(e, b)

\* Where the contents of a process come from, and which command it runs.
ProcessOK(p) ==
    /\ proc[p].pc = "idle" <=> proc[p].cmd = "none"
    /\ proc[p].pc \in {"guard", "replace"} => proc[p].cmd = "save"
    /\ proc[p].pc \in {"restore", "restoring", "unlinked"} => proc[p].cmd = "restore"
    /\ proc[p].cmd = "save" => Saves(proc[p].doc)
    /\ proc[p].content \in past \cup {Torn}

\* Where the contents of the files come from.
Sources ==
    /\ config \in past \cup {Torn}
    /\ Abstract!EmptyDoc \in past
    /\ \A n \in DOMAIN snapshots : snapshots[n] \in past \cup {Torn}
    /\ \A p \in Procs : ProcessOK(p)

\* Types and sources.
StoreInv == ConfigTypeOK /\ Sources

------------------------------------------------------------------------------
(* Documents *)

\* The number of backends of a document, which goes into a snapshot's name.
LEMMA CountType == ASSUME NEW d PROVE Count(d) \in 0..Cardinality(Servers)
<1>1. /\ IsFiniteSet(Abstract!Listed(d))
      /\ Cardinality(Abstract!Listed(d)) <= Cardinality(Servers)
  BY ConfigAssumption, FS_Subset DEF Abstract!Listed
<1> QED
  BY <1>1, ConfigAssumption, FS_CardinalityType DEF Count

\* Every command makes a document of a document.
LEMMA EditedType ==
    ASSUME NEW d \in Doc, NEW e \in Abstract!Edits
    PROVE  Abstract!Edited(e, d) \in Doc
BY DEF Doc, Abstract!Doc, Abstract!Edited, Abstract!Edits

LEMMA EmptyType == Abstract!EmptyDoc \in Doc
BY DEF Doc, Abstract!Doc, Abstract!EmptyDoc

------------------------------------------------------------------------------
(* The inductive invariant *)

\* No command has run.
LEMMA StoreInitInv == ConfigInit => StoreInv
<1> SUFFICES ASSUME ConfigInit PROVE StoreInv
  OBVIOUS
<1>1. NoName \in SnapName
  BY ConfigAssumption, FS_CardinalityType DEF NoName, SnapName
<1>2. Idle \in Process
  BY <1>1, EmptyType DEF Idle, Process
<1>3. ConfigTypeOK
  <2>1. DOMAIN snapshots = {}
    BY DEF ConfigInit
  <2>2. now \in 0..MaxSeconds /\ commands \in 0..MaxCommands
    BY ConfigAssumption DEF ConfigInit
  <2>3. config \in Doc /\ past \subseteq Doc
    BY EmptyType DEF ConfigInit
  <2>4. proc \in [Procs -> Process] /\ overlap \in BOOLEAN
    BY <1>2 DEF ConfigInit
  <2> QED
    BY <2>1, <2>2, <2>3, <2>4 DEF ConfigTypeOK
<1>4. Sources
  BY DEF ConfigInit, Sources, ProcessOK, Idle
<1> QED
  BY <1>3, <1>4 DEF StoreInv

\* A step of one process that leaves the contents of the files alone, or adds to
\* what config.json has held, disturbs no other process.
LEMMA StepKeepsInv ==
    ASSUME StoreInv, past \subseteq past', past' \subseteq Doc,
           NEW p \in Procs, NEW s \in Process, proc' = [proc EXCEPT ![p] = s],
           config' \in past' \cup {Torn},
           DOMAIN snapshots' \subseteq SnapName,
           \A n \in DOMAIN snapshots' : snapshots'[n] \in past' \cup {Torn},
           UNCHANGED now, commands' \in 0..MaxCommands, overlap' \in BOOLEAN,
           ProcessOK(p)'
    PROVE  StoreInv'
<1>1. ConfigTypeOK'
  BY DEF StoreInv, ConfigTypeOK
<1>2. ASSUME NEW q \in Procs, q # p PROVE ProcessOK(q)'
  <2>1. proc'[q] = proc[q]
    BY <1>2 DEF StoreInv, ConfigTypeOK
  <2>2. \A d : Saves(d) => \E b \in past', e \in Abstract!Edits :
                              Abstract!Accepted(e, b) /\ d = Abstract!Edited(e, b)
    BY DEF Saves
  <2>3. ProcessOK(q)
    BY DEF StoreInv, Sources
  <2> QED
    BY <2>1, <2>2, <2>3 DEF ProcessOK, Saves
<1>3. Sources'
  BY <1>2 DEF StoreInv, Sources
<1> QED
  BY <1>1, <1>3 DEF StoreInv

\* The process ends, and the files are what they were.
LEMMA EndKeepsInv ==
    ASSUME StoreInv, NEW p \in Procs, Ends(p),
           UNCHANGED <<config, snapshots, now, commands, past, overlap>>
    PROVE  StoreInv'
<1>1. Idle \in Process
  BY EmptyType, ConfigAssumption, FS_CardinalityType DEF Idle, Process, NoName, SnapName
<1>2. proc'[p] = Idle
  BY DEF StoreInv, ConfigTypeOK, Ends
<1>3. ProcessOK(p)'
  BY <1>2 DEF ProcessOK, Idle
<1> QED
  BY <1>1, <1>3, StepKeepsInv DEF Ends, StoreInv, ConfigTypeOK, Sources

\* A command keeps the invariant.
LEMMA StartKeepsInv ==
    ASSUME StoreInv, NEW p \in Procs,
           \/ \E e \in Abstract!Edits : Command(p, e)
           \/ \E n \in DOMAIN snapshots : RestoreCommand(p, n)
    PROVE  StoreInv'
<1>1. Idle \in Process
  BY EmptyType, ConfigAssumption, FS_CardinalityType DEF Idle, Process, NoName, SnapName
<1>2. ASSUME Starts(p) PROVE commands' \in 0..MaxCommands /\ overlap' \in BOOLEAN
  BY <1>2, ConfigAssumption DEF Starts, StoreInv, ConfigTypeOK
<1>3. ASSUME NEW e \in Abstract!Edits, Command(p, e) PROVE StoreInv'
  <2> DEFINE base == IF e.op = "init" THEN Abstract!EmptyDoc ELSE config
             s == [Idle EXCEPT !.pc = "guard", !.cmd = "save", !.doc = Abstract!Edited(e, base)]
  <2>1. base \in past /\ base \in Doc
    BY <1>3, EmptyType DEF Command, StoreInv, Sources, ConfigTypeOK
  <2>2. s \in Process
    BY <1>1, <2>1, EditedType DEF Process
  <2>3. proc'[p] = s /\ proc' = [proc EXCEPT ![p] = s]
    BY <1>3 DEF Command, StoreInv, ConfigTypeOK
  <2>4. Abstract!Accepted(e, base) /\ past' = past
    BY <1>3 DEF Command
  <2>5. s.pc = "guard" /\ s.cmd = "save" /\ s.doc = Abstract!Edited(e, base) /\ s.content = Torn
    BY <1>1 DEF Idle
  <2>6. ProcessOK(p)'
    BY <2>1, <2>3, <2>4, <2>5 DEF ProcessOK, Saves
  <2> QED
    BY <1>2, <1>3, <2>2, <2>3, <2>6, StepKeepsInv DEF Command, StoreInv, ConfigTypeOK, Sources
<1>4. ASSUME NEW n \in DOMAIN snapshots, RestoreCommand(p, n) PROVE StoreInv'
  <2> DEFINE s == [Idle EXCEPT !.pc = "snapshot", !.cmd = "restore", !.from = n]
  <2>1. s \in Process
    BY <1>1 DEF Process, StoreInv, ConfigTypeOK
  <2>2. proc'[p] = s /\ proc' = [proc EXCEPT ![p] = s]
    BY <1>4 DEF RestoreCommand, StoreInv, ConfigTypeOK
  <2>3. s.pc = "snapshot" /\ s.cmd = "restore" /\ s.content = Torn
    BY DEF Idle
  <2>4. ProcessOK(p)'
    BY <2>2, <2>3 DEF ProcessOK
  <2> QED
    BY <1>2, <1>4, <2>1, <2>2, <2>4, StepKeepsInv
    DEF RestoreCommand, StoreInv, ConfigTypeOK, Sources
<1> QED
  BY <1>3, <1>4

\* So do the steps that save and restore share.
LEMMA SnapshotKeepsInv ==
    ASSUME StoreInv, NEW p \in Procs,
           Guard(p) \/ SnapshotExisting(p) \/ SnapshotOpen(p) \/ SnapshotClose(p)
    PROVE  StoreInv'
<1> proc[p] \in Process /\ ProcessOK(p) /\ proc \in [Procs -> Process]
  BY DEF StoreInv, ConfigTypeOK, Sources
<1> config \in past \cup {Torn} /\ past \subseteq Doc /\ UNCHANGED past
  BY DEF StoreInv, ConfigTypeOK, Sources, Guard, SnapshotExisting, SnapshotOpen, SnapshotClose
<1> DEFINE Moved(pc) == [proc[p] EXCEPT !.pc = pc]
<1>1. ASSUME NEW pc \in {"snapshot", "replace", "restore"}, Move(p, pc),
             pc = "snapshot" => proc[p].pc = "guard",
             pc # "snapshot" => pc = Then(p) /\ proc[p].pc \in {"snapshot", "copying"}
      PROVE  /\ proc' = [proc EXCEPT ![p] = Moved(pc)]
             /\ Moved(pc) \in Process
             /\ ProcessOK(p)'
  <2>1. proc' = [proc EXCEPT ![p] = Moved(pc)] /\ proc'[p] = Moved(pc) /\ Moved(pc) \in Process
    BY <1>1 DEF Move, Process
  <2>2. /\ Moved(pc).pc = pc /\ Moved(pc).cmd = proc[p].cmd
        /\ Moved(pc).doc = proc[p].doc /\ Moved(pc).content = proc[p].content
    BY DEF Process
  <2>3. proc[p].cmd \in {"save", "restore"}
    BY <1>1 DEF ProcessOK, Process
  <2>4. /\ pc = "snapshot" => proc[p].cmd = "save"
        /\ pc = "replace" => proc[p].cmd = "save"
        /\ pc = "restore" => proc[p].cmd = "restore"
    BY <1>1, <2>3 DEF ProcessOK, Then
  <2> QED
    BY <2>1, <2>2, <2>3, <2>4 DEF ProcessOK, Saves
<1>2. CASE Guard(p)
  BY <1>1, <1>2, EndKeepsInv, StepKeepsInv DEF Guard, StoreInv, ConfigTypeOK, Sources
<1>3. CASE SnapshotExisting(p)
  <2>1. CASE Move(p, Then(p))
    BY <1>1, <1>3, <2>1, StepKeepsInv DEF SnapshotExisting, Then, StoreInv, ConfigTypeOK, Sources
  <2>2. CASE ~Move(p, Then(p))
    <3> DEFINE s == [proc[p] EXCEPT !.pc = "copy", !.snap = [sec |-> now, count |-> Count(config)]]
    <3>1. s \in Process
      BY CountType DEF Process, SnapName, StoreInv, ConfigTypeOK
    <3>2. proc' = [proc EXCEPT ![p] = s] /\ proc'[p] = s
      BY <1>3, <2>2 DEF SnapshotExisting
    <3>3. s.pc = "copy" /\ s.cmd = proc[p].cmd /\ s.doc = proc[p].doc /\ s.content = proc[p].content
      BY DEF Process
    <3>4. ProcessOK(p)'
      BY <1>3, <3>2, <3>3 DEF ProcessOK, Saves, SnapshotExisting
    <3> QED
      BY <1>3, <3>1, <3>2, <3>4, StepKeepsInv DEF SnapshotExisting, StoreInv, ConfigTypeOK, Sources
  <2> QED
    BY <2>1, <2>2
<1>4. CASE SnapshotOpen(p)
  <2> DEFINE s == [proc[p] EXCEPT !.pc = "copying", !.content = config]
  <2>1. s \in Process
    BY DEF Process, StoreInv, ConfigTypeOK
  <2>2. proc' = [proc EXCEPT ![p] = s] /\ proc'[p] = s
    BY <1>4 DEF SnapshotOpen
  <2>3. s.pc = "copying" /\ s.cmd = proc[p].cmd /\ s.doc = proc[p].doc /\ s.content = config
    BY DEF Process
  <2>4. ProcessOK(p)'
    BY <1>4, <2>2, <2>3 DEF ProcessOK, Saves, SnapshotOpen
  <2>5. /\ DOMAIN snapshots' \subseteq SnapName
        /\ \A n \in DOMAIN snapshots' : snapshots'[n] \in past \cup {Torn}
    BY <1>4 DEF SnapshotOpen, Process, StoreInv, ConfigTypeOK, Sources
  <2> QED
    BY <1>4, <2>1, <2>2, <2>4, <2>5, StepKeepsInv DEF SnapshotOpen, StoreInv, ConfigTypeOK
<1>5. CASE SnapshotClose(p)
  <2>1. CASE proc[p].snap \in DOMAIN snapshots
    <3>1. /\ DOMAIN snapshots' \subseteq SnapName
          /\ \A n \in DOMAIN snapshots' : snapshots'[n] \in past \cup {Torn}
      BY <1>5, <2>1 DEF SnapshotClose, Retained, ProcessOK, StoreInv, ConfigTypeOK, Sources
    <3>2. Move(p, Then(p)) /\ proc[p].pc = "copying" /\ Then(p) \in {"replace", "restore"}
      BY <1>5, <2>1 DEF SnapshotClose, Then
    <3> QED
      BY <1>1, <1>5, <3>1, <3>2, StepKeepsInv DEF SnapshotClose, StoreInv, ConfigTypeOK
  <2>2. CASE proc[p].snap \notin DOMAIN snapshots
    BY <1>5, <2>2, EndKeepsInv DEF SnapshotClose
  <2> QED
    BY <2>1, <2>2
<1> QED
  BY <1>2, <1>3, <1>4, <1>5

\* os.replace takes the file from under the restores that are writing in place.
LEMMA ReplaceKeepsInv ==
    ASSUME StoreInv, NEW p \in Procs, Replace(p)
    PROVE  StoreInv'
<1> proc \in [Procs -> Process] /\ \A q \in Procs : ProcessOK(q)
  BY DEF StoreInv, ConfigTypeOK, Sources
<1>1. Idle \in Process
  BY EmptyType, ConfigAssumption, FS_CardinalityType DEF Idle, Process, NoName, SnapName
<1>2. proc[p].doc \in Doc /\ config' = proc[p].doc /\ past' = past \cup {proc[p].doc}
  BY DEF Replace, Abstract!Holds, Process
<1>3. ASSUME NEW q \in Procs
      PROVE  /\ proc'[q] \in Process
             /\ ProcessOK(q)'
  <2>1. \A d : Saves(d) => \E b \in past', e \in Abstract!Edits :
                              Abstract!Accepted(e, b) /\ d = Abstract!Edited(e, b)
    BY <1>2 DEF Saves
  <2>2. CASE q = p
    <3>1. proc'[q] = Idle
      BY <2>2 DEF Replace
    <3> QED
      BY <1>1, <3>1 DEF ProcessOK, Idle
  <2>3. CASE q # p /\ proc[q].pc = "restoring"
    <3> DEFINE s == [proc[q] EXCEPT !.pc = "unlinked"]
    <3>1. proc'[q] = s
      BY <2>3 DEF Replace
    <3>2. /\ s \in Process /\ s.pc = "unlinked" /\ s.cmd = proc[q].cmd
          /\ s.doc = proc[q].doc /\ s.content = proc[q].content
      BY DEF Process
    <3> QED
      BY <1>2, <2>1, <2>3, <3>1, <3>2 DEF ProcessOK, Saves
  <2>4. CASE q # p /\ proc[q].pc # "restoring"
    <3>1. proc'[q] = proc[q]
      BY <2>4 DEF Replace
    <3> QED
      BY <1>2, <2>1, <3>1 DEF ProcessOK, Saves
  <2> QED
    BY <2>2, <2>3, <2>4
<1>4. proc' \in [Procs -> Process]
  <2>1. DOMAIN proc' = Procs /\ proc' = [q \in Procs |-> proc'[q]]
    BY DEF Replace
  <2> QED
    BY <1>3, <2>1
<1>5. ConfigTypeOK'
  BY <1>2, <1>4 DEF Replace, StoreInv, ConfigTypeOK
<1>6. Sources'
  BY <1>2, <1>3 DEF Replace, StoreInv, Sources
<1> QED
  BY <1>5, <1>6 DEF StoreInv

\* A restore writes a document that the file has held.
LEMMA RestoreKeepsInv ==
    ASSUME StoreInv, NEW p \in Procs, RestoreOpen(p) \/ RestoreClose(p) \/ RestoreUnlinked(p) \/ Crash(p)
    PROVE  StoreInv'
<1> proc[p] \in Process /\ ProcessOK(p) /\ proc \in [Procs -> Process] /\ past \subseteq Doc
  BY DEF StoreInv, ConfigTypeOK, Sources
<1>1. Idle \in Process
  BY EmptyType, ConfigAssumption, FS_CardinalityType DEF Idle, Process, NoName, SnapName
<1>2. CASE RestoreOpen(p)
  <2>1. CASE proc[p].from \in DOMAIN snapshots
    <3> DEFINE s == [proc[p] EXCEPT !.pc = "restoring", !.content = snapshots[proc[p].from]]
    <3>1. snapshots[proc[p].from] \in past \cup {Torn}
      BY <2>1 DEF StoreInv, Sources
    <3>2. /\ s \in Process /\ s.pc = "restoring" /\ s.cmd = proc[p].cmd
          /\ s.doc = proc[p].doc /\ s.content = snapshots[proc[p].from]
      BY <3>1 DEF Process
    <3>3. proc' = [proc EXCEPT ![p] = s] /\ proc'[p] = s /\ config' = Torn /\ past' = past
      BY <1>2, <2>1 DEF RestoreOpen
    <3>4. ProcessOK(p)'
      BY <1>2, <3>1, <3>2, <3>3 DEF ProcessOK, RestoreOpen
    <3> QED
      BY <1>2, <3>2, <3>3, <3>4, StepKeepsInv DEF RestoreOpen, StoreInv, ConfigTypeOK, Sources
  <2>2. CASE proc[p].from \notin DOMAIN snapshots
    BY <1>2, <2>2, EndKeepsInv DEF RestoreOpen
  <2> QED
    BY <2>1, <2>2
<1>3. CASE RestoreClose(p)
  <2>1. config' \in past \cup {Torn} /\ past' = past
    BY <1>3, TornAssumption DEF RestoreClose, ProcessOK
  <2>2. proc' = [proc EXCEPT ![p] = Idle] /\ proc'[p] = Idle
    BY <1>3 DEF RestoreClose, Ends
  <2>3. ProcessOK(p)'
    BY <2>2 DEF ProcessOK, Idle
  <2> QED
    BY <1>1, <1>3, <2>1, <2>2, <2>3, StepKeepsInv DEF RestoreClose, StoreInv, ConfigTypeOK, Sources
<1>4. CASE RestoreUnlinked(p) \/ Crash(p)
  BY <1>4, EndKeepsInv DEF RestoreUnlinked, Crash
<1> QED
  BY <1>2, <1>3, <1>4

\* Every step keeps the invariant.
LEMMA StoreNextInv ==
    ASSUME StoreInv, [ConfigNext]_storeVars
    PROVE  StoreInv'
<1>1. ASSUME NEW p \in Procs, ConfigStep(p) PROVE StoreInv'
  BY <1>1, StartKeepsInv, SnapshotKeepsInv, ReplaceKeepsInv, RestoreKeepsInv DEF ConfigStep
<1>2. CASE Tick
  <2>1. now' \in 0..MaxSeconds
    BY <1>2, ConfigAssumption DEF Tick, StoreInv, ConfigTypeOK
  <2> QED
    BY <1>2, <2>1 DEF Tick, StoreInv, ConfigTypeOK, Sources, ProcessOK, Saves
<1>3. CASE UNCHANGED storeVars
  BY <1>3 DEF storeVars, StoreInv, ConfigTypeOK, Sources, ProcessOK, Saves
<1> QED
  BY <1>1, <1>2, <1>3 DEF ConfigNext

\* The invariant holds in every behaviour.
LEMMA StoreInvHolds == ConfigSpec => []StoreInv
<1>1. StoreInv /\ [ConfigNext]_storeVars => StoreInv'
  BY StoreNextInv
<1> QED
  BY StoreInitInv, <1>1, PTL DEF ConfigSpec

------------------------------------------------------------------------------
(* The refinement *)

\* A step that leaves config.json as it is, is a stutter, or the begin or the
\* end of a restore.
LEMMA QuietStep ==
    ASSUME UNCHANGED <<config, past>>
    PROVE  Abstract!Switch \/ UNCHANGED Abstract!fileVars
BY DEF Abstract!Switch, Abstract!fileVars, Restoring

\* os.replace is the edit: it leaves the restores as they are.
LEMMA ReplaceIsEdit ==
    ASSUME StoreInv, NEW p \in Procs, Replace(p)
    PROVE  Abstract!Edit
<1> proc \in [Procs -> Process] /\ \A q \in Procs : ProcessOK(q)
  BY DEF StoreInv, ConfigTypeOK, Sources
<1>1. proc[p].cmd = "save" /\ Saves(proc[p].doc)
  BY DEF Replace, ProcessOK
<1>2. \A q \in Procs : proc'[q].cmd = "restore" <=> proc[q].cmd = "restore"
  <2> SUFFICES ASSUME NEW q \in Procs PROVE proc'[q].cmd = "restore" <=> proc[q].cmd = "restore"
    OBVIOUS
  <2>1. CASE q = p
    BY <1>1, <2>1 DEF Replace, Idle
  <2>2. CASE q # p /\ proc[q].pc = "restoring"
    <3>1. proc'[q] = [proc[q] EXCEPT !.pc = "unlinked"]
      BY <2>2 DEF Replace
    <3> QED
      BY <3>1 DEF Process
  <2>3. CASE q # p /\ proc[q].pc # "restoring"
    BY <2>3 DEF Replace
  <2> QED
    BY <2>1, <2>2, <2>3
<1>3. Restoring' <=> Restoring
  BY <1>2 DEF Restoring
<1>4. \E d \in past, e \in Abstract!Edits :
          Abstract!Accepted(e, d) /\ Abstract!Holds(Abstract!Edited(e, d))
  BY <1>1 DEF Saves, Replace
<1> QED
  BY <1>3, <1>4 DEF Abstract!Edit

\* Opening config.json for the copy tears it; closing it restores a document, or
\* leaves it torn.
LEMMA RestoreIsRestore ==
    ASSUME StoreInv, NEW p \in Procs, RestoreOpen(p) \/ RestoreClose(p)
    PROVE  Abstract!FileNext \/ UNCHANGED Abstract!fileVars
<1> proc[p] \in Process /\ ProcessOK(p) /\ past \subseteq Doc
  BY DEF StoreInv, ConfigTypeOK, Sources
<1>1. Restoring
  BY DEF Restoring, ProcessOK, RestoreOpen, RestoreClose
<1>2. Restoring' \in BOOLEAN
  BY DEF Restoring
<1>3. CASE config' = Torn /\ UNCHANGED past
  BY <1>1, <1>2, <1>3 DEF Abstract!Tear, Abstract!FileNext
<1>4. CASE config' \in past /\ UNCHANGED past
  <2>1. \E d \in past : Abstract!Holds(d)
    BY <1>4 DEF Abstract!Holds
  <2> QED
    BY <1>1, <1>2, <2>1 DEF Abstract!Restore, Abstract!FileNext
<1>5. CASE UNCHANGED <<config, past>>
  BY <1>5, QuietStep DEF Abstract!FileNext
<1> QED
  BY <1>3, <1>4, <1>5, TornAssumption DEF RestoreOpen, RestoreClose, ProcessOK

\* Every step of the processes is a step of config.json, or none.
LEMMA StepRefines ==
    ASSUME StoreInv, [ConfigNext]_storeVars
    PROVE  Abstract!FileNext \/ UNCHANGED Abstract!fileVars
<1>1. ASSUME NEW p \in Procs, ConfigStep(p)
      PROVE  UNCHANGED <<config, past>> \/ Replace(p) \/ RestoreOpen(p) \/ RestoreClose(p)
  BY <1>1
  DEF ConfigStep, Command, Guard, SnapshotExisting, SnapshotOpen, SnapshotClose, RestoreCommand,
      RestoreUnlinked, Crash
<1>2. CASE Tick \/ UNCHANGED storeVars
  <2>1. UNCHANGED <<config, past>>
    BY <1>2 DEF Tick, storeVars
  <2> QED
    BY <2>1, QuietStep DEF Abstract!FileNext
<1>3. CASE \E p \in Procs : ConfigStep(p)
  BY <1>1, <1>3, QuietStep, ReplaceIsEdit, RestoreIsRestore DEF Abstract!FileNext
<1> QED
  BY <1>2, <1>3 DEF ConfigNext

\* config_io: the file, the snapshots and the processes are always well formed.
THEOREM ConfigTypes == ConfigSpec => []ConfigTypeOK
<1>1. StoreInv => ConfigTypeOK
  BY DEF StoreInv
<1> QED
  BY StoreInvHolds, <1>1, PTL

\* config_io: whatever the processes do and whenever they are killed, config.json
\* goes from one document to another as ConfigFile allows.
THEOREM ConfigRefines == ConfigSpec => ImplementsConfigFile
<1>1. ConfigInit => Abstract!FileInit
  BY DEF ConfigInit, Abstract!FileInit, Restoring, Idle
<1>2. StoreInv /\ [ConfigNext]_storeVars => [Abstract!FileNext]_(Abstract!fileVars)
  BY StepRefines
<1> QED
  BY StoreInvHolds, <1>1, <1>2, PTL DEF ConfigSpec, ImplementsConfigFile, Abstract!FileSpec

------------------------------------------------------------------------------
(* One command at a time *)

\* No document is so large that one second can name more than MaxSnapshots
\* snapshots after it.
FewServers == Cardinality(Servers) < SnapshotMin + MaxSnapshots

\* The newest snapshot is not pruned by the command that takes it: only the
\* snapshots of larger documents in the same second have newer names.
LEMMA NewestRetained ==
    ASSUME FewServers, NEW names \in SUBSET SnapName, NEW s \in names,
           s.count >= SnapshotMin, \A n \in names : n.sec <= s.sec
    PROVE  s \in Retained(names)
<1> DEFINE newer == {m \in names : Older(s, m)}
           size  == Cardinality(Servers)
           above == (s.count + 1)..size
           f     == [m \in newer |-> m.count]
<1>0. size \in Nat /\ SnapshotMin \in Nat /\ MaxSnapshots \in Nat /\ MaxSnapshots > 0 /\ MaxSeconds \in Nat
  BY ConfigAssumption, FS_CardinalityType
<1>1. s.count \in 0..size /\ s.sec \in Nat
  BY <1>0 DEF SnapName
<1>2. ASSUME NEW m \in newer PROVE m = [sec |-> s.sec, count |-> m.count] /\ m.count \in above
  <2>1. m \in SnapName /\ m.sec \in Nat /\ m.count \in 0..size /\ m.sec <= s.sec /\ Older(s, m)
    BY <1>0 DEF SnapName
  <2>2. m.sec = s.sec /\ s.count < m.count
    BY <1>1, <2>1 DEF Older
  <2>3. m = [sec |-> m.sec, count |-> m.count]
    BY <2>1 DEF SnapName
  <2> QED
    BY <1>0, <1>1, <2>1, <2>2, <2>3
<1>3. f \in Injection(newer, above)
  <2>1. f \in [newer -> above]
    BY <1>2
  <2>2. IsInjective(f)
    BY <1>2 DEF IsInjective
  <2> QED
    BY <2>1, <2>2 DEF Injection
<1>4. IsFiniteSet(above) /\ Cardinality(above) = IF s.count + 1 > size THEN 0 ELSE size - (s.count + 1) + 1
  <2>1. s.count + 1 \in Int /\ size \in Int
    BY <1>0, <1>1
  <2> HIDE DEF size
  <2> QED
    BY <2>1, FS_Interval
<1>5. IsFiniteSet(newer) /\ Cardinality(newer) <= Cardinality(above)
  <2> HIDE DEF newer, above, f
  <2> QED
    BY <1>3, <1>4, FS_Injection
<1>6. Cardinality(newer) \in Nat
  BY <1>5, FS_CardinalityType
<1>7. Cardinality(newer) < MaxSnapshots
  <2> HIDE DEF newer, above
  <2> QED
    BY <1>0, <1>1, <1>4, <1>5, <1>6 DEF FewServers
<1> QED
  BY <1>7 DEF Retained

\* A snapshot that can be restored.
Complete(n) == n \in DOMAIN snapshots /\ snapshots[n] # Torn

\* A restore that finds a snapshot leaves one that is complete.
Kept == FewServers => DOMAIN snapshots = {} \/ \E n \in SnapName : Complete(n)

\* A process that is alone finds the files as it left them: the file it copies
\* is the one it counted, and the snapshot it writes has the newest name and is
\* still there.  Before it writes, a snapshot is complete if there are any.
Solo(p) ==
    /\ proc[p].pc \in {"copy", "copying"} =>
          /\ config # Torn /\ Count(config) >= SnapshotMin
          /\ proc[p].snap.count = Count(config)
          /\ proc[p].snap.sec <= now
          /\ \A n \in DOMAIN snapshots : n.sec <= proc[p].snap.sec
    /\ proc[p].pc = "copying" => proc[p].snap \in DOMAIN snapshots /\ proc[p].content = config
    /\ proc[p].pc \in {"replace", "restore"} => Kept
    /\ proc[p].pc = "restoring" => config = Torn

\* A document that is snapshotted before it is overwritten.
Guarded == config # Torn /\ Count(config) >= SnapshotMin

\* As long as no two commands have run at the same time.
Sequential ==
    ~overlap =>
        /\ \A p, q \in Procs : Busy(p) /\ Busy(q) => p = q
        /\ \A n \in DOMAIN snapshots : n.sec <= now
        /\ FewServers /\ config = Torn => \E n \in SnapName : Complete(n)
        /\ Guarded \/ Kept
        /\ \A p \in Procs : Solo(p)

\* An idle process has nothing to find.
LEMMA IdleSolo ==
    ASSUME NEW p \in Procs, proc[p].pc = "idle"
    PROVE  Solo(p)
BY DEF Solo

\* A step of process p, when all others are idle.
LEMMA SoloStep ==
    ASSUME NEW p \in Procs, \A q \in Procs \ {p} : proc'[q].pc = "idle", Solo(p)',
           \A n \in DOMAIN snapshots' : n.sec <= now',
           FewServers /\ config' = Torn => \E n \in SnapName : Complete(n)', Guarded' \/ Kept'
    PROVE  Sequential'
<1>1. \A q \in Procs \ {p} : Solo(q)'
  BY DEF Solo
<1> QED
  BY <1>1 DEF Sequential, Busy

\* The same, when it leaves the files alone.
LEMMA SoloMove ==
    ASSUME StoreInv, Sequential, ~overlap, NEW p \in Procs, NEW s \in Process, proc' = [proc EXCEPT ![p] = s],
           \A q \in Procs \ {p} : proc[q].pc = "idle",
           UNCHANGED <<config, snapshots, now>>, Solo(p)'
    PROVE  Sequential'
<1>1. \A q \in Procs \ {p} : proc'[q].pc = "idle"
  BY DEF StoreInv, ConfigTypeOK
<1>2. FewServers /\ config' = Torn => \E n \in SnapName : Complete(n)'
  BY DEF Sequential, Complete
<1>3. (\A n \in DOMAIN snapshots' : n.sec <= now') /\ (Guarded' \/ Kept')
  BY DEF Sequential, Guarded, Kept, Complete, Count
<1> QED
  BY <1>1, <1>2, <1>3, SoloStep

\* The end of a command.
LEMMA SoloEnds ==
    ASSUME StoreInv, Sequential, ~overlap, NEW p \in Procs, Ends(p),
           \A q \in Procs \ {p} : proc[q].pc = "idle", UNCHANGED <<config, snapshots, now>>
    PROVE  Sequential'
<1>1. Idle \in Process
  BY EmptyType, ConfigAssumption, FS_CardinalityType DEF Idle, Process, NoName, SnapName
<1>2. proc'[p].pc = "idle"
  BY DEF Ends, StoreInv, ConfigTypeOK, Idle
<1>3. Solo(p)'
  BY <1>2 DEF Solo
<1> QED
  BY <1>1, <1>3, SoloMove DEF Ends

\* A command that is started alone.
LEMMA SequentialStart ==
    ASSUME StoreInv, Sequential, ~overlap', NEW p \in Procs,
           \/ \E e \in Abstract!Edits : Command(p, e)
           \/ \E n \in DOMAIN snapshots : RestoreCommand(p, n)
    PROVE  Sequential'
<1>0. Idle \in Process
  BY EmptyType, ConfigAssumption, FS_CardinalityType DEF Idle, Process, NoName, SnapName
<1>s. Starts(p) /\ UNCHANGED <<config, snapshots, now>> /\ proc \in [Procs -> Process] /\ overlap \in BOOLEAN
  BY DEF Command, RestoreCommand, StoreInv, ConfigTypeOK
<1>1. /\ ~overlap /\ Idle \in Process /\ (\A q \in Procs : proc[q].pc = "idle")
      /\ UNCHANGED <<config, snapshots, now>> /\ proc \in [Procs -> Process]
  BY <1>0, <1>s DEF Starts, Busy
<1>2. ASSUME NEW e \in Abstract!Edits, Command(p, e) PROVE Sequential'
  <2> DEFINE base == IF e.op = "init" THEN Abstract!EmptyDoc ELSE config
             s == [Idle EXCEPT !.pc = "guard", !.cmd = "save", !.doc = Abstract!Edited(e, base)]
  <2>1. base \in Doc
    BY <1>2, EmptyType DEF Command, StoreInv, Sources, ConfigTypeOK
  <2>2. s \in Process
    BY <1>1, <2>1, EditedType DEF Process
  <2>3. s.pc = "guard" /\ s.cmd = "save" /\ proc'[p] = s /\ proc' = [proc EXCEPT ![p] = s]
    BY <1>1, <1>2 DEF Command, Idle
  <2> HIDE DEF s
  <2>4. Solo(p)'
    BY <2>3 DEF Solo
  <2> QED
    BY <1>1, <2>2, <2>3, <2>4, SoloMove
<1>3. ASSUME NEW n \in DOMAIN snapshots, RestoreCommand(p, n) PROVE Sequential'
  <2> DEFINE s == [Idle EXCEPT !.pc = "snapshot", !.cmd = "restore", !.from = n]
  <2>1. s \in Process
    BY <1>1 DEF Process, StoreInv, ConfigTypeOK
  <2>2. s.pc = "snapshot" /\ s.cmd = "restore" /\ s.from = n /\ proc'[p] = s /\ proc' = [proc EXCEPT ![p] = s]
    BY <1>1, <1>3 DEF RestoreCommand, Idle
  <2> HIDE DEF s
  <2>3. Solo(p)'
    BY <2>2 DEF Solo
  <2> QED
    BY <1>1, <2>1, <2>2, <2>3, SoloMove
<1> QED
  BY <1>2, <1>3

\* A process that saves or restores, alone, up to the end of its snapshot.
LEMMA SequentialSnapshot ==
    ASSUME StoreInv, Sequential, ~overlap, NEW p \in Procs, \A q \in Procs \ {p} : proc[q].pc = "idle",
           Guard(p) \/ SnapshotExisting(p) \/ SnapshotOpen(p) \/ SnapshotClose(p)
    PROVE  Sequential'
<1>0. /\ proc[p] \in Process /\ ProcessOK(p) /\ proc \in [Procs -> Process] /\ Solo(p) /\ UNCHANGED <<config, now>>
      /\ proc[p].snap \in SnapName /\ now \in Nat /\ config \in Doc \cup {Torn}
      /\ DOMAIN snapshots \subseteq SnapName /\ \A n \in DOMAIN snapshots : n.sec <= now
  BY ConfigAssumption
  DEF StoreInv, ConfigTypeOK, Sources, Sequential, Process, Guard, SnapshotExisting, SnapshotOpen, SnapshotClose
<1> DEFINE Moved(pc) == [proc[p] EXCEPT !.pc = pc]
<1>m. ASSUME NEW pc \in {"snapshot", "replace", "restore"}, Move(p, pc)
      PROVE  /\ Moved(pc) \in Process /\ proc' = [proc EXCEPT ![p] = Moved(pc)] /\ proc'[p] = Moved(pc)
             /\ Moved(pc).pc = pc /\ Moved(pc).cmd = proc[p].cmd /\ Moved(pc).from = proc[p].from
  BY <1>0, <1>m DEF Move, Process
<1> HIDE DEF Moved
<1>1. CASE Guard(p)
  <2>1. CASE Move(p, "snapshot")
    <3>1. proc[p].cmd = "save"
      BY <1>0, <1>1 DEF Guard, ProcessOK
    <3>2. Solo(p)'
      BY <1>m, <2>1, <3>1 DEF Solo
    <3> QED
      BY <1>0, <1>1, <1>m, <2>1, <3>2, SoloMove DEF Guard
  <2> QED
    BY <1>0, <1>1, <2>1, SoloEnds DEF Guard
<1>2. CASE SnapshotExisting(p)
  <2>1. CASE Move(p, Then(p))
    <3>1. Then(p) \in {"replace", "restore"} /\ (Then(p) = "restore" => proc[p].cmd = "restore")
      BY <1>0, <1>2 DEF Then, ProcessOK, Process, SnapshotExisting
    <3>2. proc'[p].pc = Then(p) /\ UNCHANGED snapshots
      BY <1>2, <1>m, <2>1, <3>1 DEF SnapshotExisting
    <3>g. ~Guarded
      <4>1. proc'[p].pc # "copy"
        BY <3>1, <3>2
      <4>2. config = Torn \/ Count(config) < SnapshotMin
        BY <1>0, <1>2, <4>1 DEF SnapshotExisting, Process
      <4> QED
        BY <4>2, CountType, ConfigAssumption, FS_CardinalityType DEF Guarded
    <3>k. Kept'
      BY <3>2, <3>g DEF Sequential, Kept, Complete
    <3>3. Solo(p)'
      BY <3>1, <3>2, <3>k DEF Solo
    <3> QED
      BY <1>0, <1>m, <2>1, <3>1, <3>2, <3>3, SoloMove
  <2>2. CASE ~Move(p, Then(p))
    <3> DEFINE s == [proc[p] EXCEPT !.pc = "copy", !.snap = [sec |-> now, count |-> Count(config)]]
    <3>1. config # Torn /\ ~(Count(config) < SnapshotMin) /\ proc' = [proc EXCEPT ![p] = s] /\ UNCHANGED snapshots
      BY <1>2, <2>2 DEF SnapshotExisting
    <3>2. s \in Process
      BY <1>0, CountType DEF Process, SnapName, StoreInv, ConfigTypeOK
    <3>3. /\ s.pc = "copy" /\ s.cmd = proc[p].cmd /\ s.from = proc[p].from
          /\ s.snap.sec = now /\ s.snap.count = Count(config)
      BY <1>0 DEF Process
    <3>4. Count(config) >= SnapshotMin
      BY <3>1, CountType, ConfigAssumption, FS_CardinalityType
    <3> HIDE DEF s
    <3>5. proc'[p] = s
      BY <1>0, <3>1
    <3>6. Solo(p)'
      BY <1>0, <1>2, <3>1, <3>3, <3>4, <3>5 DEF Solo, Complete, SnapshotExisting
    <3> QED
      BY <1>0, <3>1, <3>2, <3>6, SoloMove
  <2> QED
    BY <2>1, <2>2
<1>3. CASE SnapshotOpen(p)
  <2> DEFINE s == [proc[p] EXCEPT !.pc = "copying", !.content = config]
  <2>1. /\ proc'[p] = s /\ \A q \in Procs \ {p} : proc'[q] = proc[q]
    BY <1>0, <1>3 DEF SnapshotOpen
  <2>2. s.pc = "copying" /\ s.content = config /\ s.cmd = proc[p].cmd /\ s.from = proc[p].from /\ s.snap = proc[p].snap
    BY <1>0 DEF Process
  <2> HIDE DEF s
  <2>3. /\ DOMAIN snapshots' = DOMAIN snapshots \cup {proc[p].snap} /\ proc[p].pc = "copy"
        /\ \A n \in DOMAIN snapshots : n # proc[p].snap => snapshots'[n] = snapshots[n]
    BY <1>3 DEF SnapshotOpen
  <2>4. config # Torn /\ (\A n \in DOMAIN snapshots' : n.sec <= proc[p].snap.sec /\ n.sec <= now)
    BY <1>0, <2>3 DEF Solo, SnapName
  <2>5. Solo(p)'
    BY <1>0, <2>1, <2>2, <2>3, <2>4 DEF Solo, Complete
  <2>6. Guarded'
    BY <1>0, <2>3 DEF Solo, Guarded, Count
  <2> QED
    BY <1>0, <2>1, <2>4, <2>5, <2>6, SoloStep
<1>4. CASE SnapshotClose(p)
  <2>1. proc[p].pc = "copying" /\ config # Torn /\ proc[p].snap \in DOMAIN snapshots /\ proc[p].content = config
    BY <1>0, <1>4 DEF SnapshotClose, Solo
  <2>2. /\ Move(p, Then(p)) /\ DOMAIN snapshots' \subseteq DOMAIN snapshots
        /\ \A n \in DOMAIN snapshots' : snapshots'[n] = IF n = proc[p].snap THEN config ELSE snapshots[n]
    BY <1>4, <2>1 DEF SnapshotClose, Retained
  <2>3. Then(p) \in {"replace", "restore"} /\ (Then(p) = "restore" => proc[p].cmd = "restore")
    BY <1>0, <2>1 DEF Then, ProcessOK, Process
  <2>4. proc'[p].pc = Then(p)
    BY <1>m, <2>2, <2>3
  <2>r. FewServers => proc[p].snap \in Retained(DOMAIN snapshots)
    <3>1. proc[p].snap.count >= SnapshotMin /\ \A n \in DOMAIN snapshots : n.sec <= proc[p].snap.sec
      BY <1>0, <2>1 DEF Solo
    <3> QED
      BY <1>0, <2>1, <3>1, NewestRetained
  <2>k. Kept'
    <3>1. FewServers => proc[p].snap \in DOMAIN snapshots' /\ snapshots'[proc[p].snap] = config
      BY <1>4, <2>1, <2>r DEF SnapshotClose
    <3> QED
      BY <1>0, <2>1, <3>1 DEF Kept, Complete
  <2>5. Solo(p)'
    BY <2>3, <2>4, <2>k DEF Solo
  <2>6. \A q \in Procs \ {p} : proc'[q].pc = "idle"
    BY <1>0, <2>2 DEF Move
  <2>7. (\A n \in DOMAIN snapshots' : n.sec <= now') /\ config' # Torn
    BY <1>0, <2>1, <2>2
  <2> QED
    BY <2>5, <2>6, <2>7, <2>k, SoloStep
<1> QED
  BY <1>1, <1>2, <1>3, <1>4

\* A process that writes config.json, alone, or ends.
LEMMA SequentialWrite ==
    ASSUME StoreInv, Sequential, ~overlap, NEW p \in Procs, \A q \in Procs \ {p} : proc[q].pc = "idle",
           Replace(p) \/ RestoreOpen(p) \/ RestoreClose(p) \/ RestoreUnlinked(p) \/ Crash(p)
    PROVE  Sequential'
<1>0. /\ proc[p] \in Process /\ ProcessOK(p) /\ proc \in [Procs -> Process] /\ Solo(p) /\ UNCHANGED <<snapshots, now>>
      /\ DOMAIN snapshots \subseteq SnapName /\ \A n \in DOMAIN snapshots : n.sec <= now
      /\ FewServers /\ config = Torn => \E n \in SnapName : Complete(n)
  BY DEF StoreInv, ConfigTypeOK, Sources, Sequential, Replace, RestoreOpen, RestoreClose, RestoreUnlinked, Crash
<1>1. CASE Replace(p)
  <2>1. config' \in Doc /\ proc'[p].pc = "idle" /\ \A q \in Procs \ {p} : proc'[q].pc = "idle"
    BY <1>0, <1>1 DEF Replace, Abstract!Holds, Idle, Process
  <2>2. Solo(p)'
    BY <2>1 DEF Solo
  <2>3. Kept'
    BY <1>0, <1>1 DEF Replace, Solo, Kept, Complete
  <2> QED
    BY <1>0, <2>1, <2>2, <2>3, SoloStep, TornAssumption
<1>2. CASE RestoreOpen(p) /\ proc[p].from \in DOMAIN snapshots
  <2> DEFINE s == [proc[p] EXCEPT !.pc = "restoring", !.content = snapshots[proc[p].from]]
  <2>1. proc'[p] = s /\ config' = Torn /\ \A q \in Procs \ {p} : proc'[q] = proc[q]
    BY <1>0, <1>2 DEF RestoreOpen
  <2>2. s.pc = "restoring"
    BY <1>0 DEF Process
  <2>3. FewServers => \E n \in SnapName : Complete(n)
    <3>1. Kept
      BY <1>0, <1>2 DEF RestoreOpen, Solo
    <3> QED
      BY <1>2, <3>1 DEF Kept
  <2>4. (FewServers => \E n \in SnapName : Complete(n)') /\ Kept'
    BY <1>0, <2>3 DEF Complete, Kept
  <2> HIDE DEF s
  <2>5. Solo(p)'
    BY <2>1, <2>2 DEF Solo
  <2> QED
    BY <1>0, <2>1, <2>4, <2>5, SoloStep
<1>3. CASE RestoreClose(p)
  <2>1. proc'[p].pc = "idle" /\ (\A q \in Procs \ {p} : proc'[q].pc = "idle") /\ config = Torn
    BY <1>0, <1>3 DEF RestoreClose, Ends, Idle, Solo
  <2>2. Solo(p)'
    BY <2>1 DEF Solo
  <2>3. (FewServers => \E n \in SnapName : Complete(n)') /\ Kept'
    BY <1>0, <2>1 DEF Complete, Kept
  <2> QED
    BY <1>0, <2>1, <2>2, <2>3, SoloStep
<1>4. CASE Ends(p) /\ UNCHANGED config
  BY <1>0, <1>4, SoloEnds
<1> QED
  BY <1>1, <1>2, <1>3, <1>4 DEF RestoreOpen, RestoreUnlinked, Crash

\* Every step of the processes.
LEMMA SequentialStep ==
    ASSUME StoreInv, Sequential, [ConfigNext]_storeVars
    PROVE  Sequential'
<1> SUFFICES ASSUME ~overlap' PROVE Sequential'
  BY DEF Sequential
<1>1. ASSUME NEW p \in Procs, ConfigStep(p) PROVE Sequential'
  <2>1. CASE \/ \E e \in Abstract!Edits : Command(p, e)
             \/ \E n \in DOMAIN snapshots : RestoreCommand(p, n)
    BY <2>1, SequentialStart
  <2>2. CASE \/ Guard(p) \/ SnapshotExisting(p) \/ SnapshotOpen(p) \/ SnapshotClose(p)
             \/ Replace(p) \/ RestoreOpen(p) \/ RestoreClose(p) \/ RestoreUnlinked(p) \/ Crash(p)
    <3>1. UNCHANGED overlap /\ Busy(p)
      BY <2>2
      DEF Guard, SnapshotExisting, SnapshotOpen, SnapshotClose, Replace, RestoreOpen, RestoreClose,
          RestoreUnlinked, Crash, Busy
    <3>2. ~overlap /\ \A q \in Procs \ {p} : proc[q].pc = "idle"
      BY <3>1 DEF Sequential, Busy
    <3> QED
      BY <2>2, <3>2, SequentialSnapshot, SequentialWrite
  <2> QED
    BY <1>1, <2>1, <2>2 DEF ConfigStep
<1>2. CASE Tick
  <2>1. now \in Nat /\ now' = now + 1 /\ UNCHANGED <<config, snapshots, proc, overlap>>
    BY <1>2, ConfigAssumption DEF Tick, StoreInv, ConfigTypeOK
  <2>2. \A n \in DOMAIN snapshots : n.sec \in Nat
    BY ConfigAssumption DEF StoreInv, ConfigTypeOK, SnapName
  <2>3. \A p \in Procs : proc[p].snap.sec \in Nat
    BY ConfigAssumption DEF StoreInv, ConfigTypeOK, Process, SnapName
  <2>4. ~overlap /\ \A n \in DOMAIN snapshots' : n.sec <= now'
    BY <2>1, <2>2 DEF Sequential
  <2>5. \A p \in Procs : Solo(p)'
    BY <2>1, <2>3 DEF Sequential, Solo, Kept, Complete, Count
  <2> QED
    BY <2>1, <2>4, <2>5 DEF Sequential, Busy, Guarded, Kept, Complete, Count
<1>3. CASE UNCHANGED storeVars
  BY <1>3 DEF storeVars, Sequential, Solo, Busy, Guarded, Kept, Complete, Count
<1> QED
  BY <1>1, <1>2, <1>3 DEF ConfigNext

\* A process that is about to write has a snapshot of what it overwrites.
Preserved ==
    ~overlap =>
        \A p \in Procs : proc[p].pc \in {"replace", "restore"} /\ config # Torn /\ Count(config) >= SnapshotMin
            => \E n \in DOMAIN snapshots : snapshots[n] = config

\* Alone, it keeps the snapshot until it writes.
LEMMA PreservedStep ==
    ASSUME FewServers, StoreInv, Sequential, Preserved, [ConfigNext]_storeVars
    PROVE  Preserved'
<1> SUFFICES ASSUME ~overlap', NEW q \in Procs, proc'[q].pc \in {"replace", "restore"},
                    config' # Torn, Count(config') >= SnapshotMin
             PROVE  \E n \in DOMAIN snapshots' : snapshots'[n] = config'
  BY DEF Preserved, Count
<1>0. proc \in [Procs -> Process] /\ DOMAIN snapshots \subseteq SnapName /\ overlap \in BOOLEAN
  BY DEF StoreInv, ConfigTypeOK
<1>1. CASE Tick \/ UNCHANGED storeVars
  BY <1>1 DEF Tick, storeVars, Preserved
<1>2. ASSUME NEW p \in Procs, ConfigStep(p) PROVE \E n \in DOMAIN snapshots' : snapshots'[n] = config'
  <2>1. ~overlap
    BY <1>0, <1>2
    DEF ConfigStep, Command, RestoreCommand, Starts, Guard, SnapshotExisting, SnapshotOpen, SnapshotClose, Replace,
        RestoreOpen, RestoreClose, RestoreUnlinked, Crash
  <2>2. CASE \E e \in Abstract!Edits : Command(p, e)
    BY <1>0, <2>1, <2>2 DEF Command, Idle, Starts, Preserved
  <2>3. CASE \E n \in DOMAIN snapshots : RestoreCommand(p, n)
    BY <1>0, <2>1, <2>3 DEF RestoreCommand, Idle, Starts, Preserved
  <2>4. CASE proc[p].pc # "idle" /\ q # p
    BY <1>0, <1>2, <2>1, <2>4
    DEF ConfigStep, Command, RestoreCommand, Starts, Guard, SnapshotExisting, SnapshotOpen, SnapshotClose, Replace,
        RestoreOpen, RestoreClose, RestoreUnlinked, Crash, Move, Ends, Sequential, Busy
  <2>5. CASE q = p /\ Guard(p)
    <3>1. proc'[p].pc \in {"idle", "snapshot"}
      BY <1>0, <2>5 DEF Guard, Move, Ends, Idle, Process
    <3> QED
      BY <2>5, <3>1
  <2>6. CASE q = p /\ SnapshotExisting(p)
    <3>1. config' = config /\ ~(Count(config) < SnapshotMin)
      BY <2>6, CountType, ConfigAssumption, FS_CardinalityType DEF SnapshotExisting
    <3>2. proc'[p].pc = "copy"
      BY <1>0, <2>6, <3>1 DEF SnapshotExisting, Process
    <3> QED
      BY <2>6, <3>2
  <2>7. CASE q = p /\ SnapshotOpen(p)
    BY <1>0, <2>7 DEF SnapshotOpen
  <2>8. CASE SnapshotClose(p)
    <3>1. /\ proc[p].snap \in DOMAIN snapshots /\ proc[p].content = config /\ proc[p].snap.count >= SnapshotMin
          /\ \A n \in DOMAIN snapshots : n.sec <= proc[p].snap.sec
      BY <2>1, <2>8 DEF SnapshotClose, Sequential, Solo
    <3>2. proc[p].snap \in Retained(DOMAIN snapshots)
      BY <1>0, <3>1, NewestRetained
    <3> QED
      BY <2>8, <3>1, <3>2 DEF SnapshotClose
  <2>9. CASE q = p /\ (Replace(p) \/ RestoreOpen(p) \/ RestoreClose(p) \/ RestoreUnlinked(p) \/ Crash(p))
    BY <1>0, <2>9 DEF Replace, RestoreOpen, RestoreClose, RestoreUnlinked, Crash, Ends, Idle
  <2> QED
    BY <1>2, <2>2, <2>3, <2>4, <2>5, <2>6, <2>7, <2>8, <2>9
    DEF ConfigStep, Guard, SnapshotExisting, SnapshotOpen, SnapshotClose, Replace, RestoreOpen, RestoreClose,
        RestoreUnlinked, Crash, Busy
<1> QED
  BY <1>1, <1>2 DEF ConfigNext

------------------------------------------------------------------------------
(* The commands that work on the client's file *)

\* A backup has been made before a register writes the client's file.
ClientOK ==
    /\ ClientTypeOK
    /\ \A p \in Procs :
          \/ reg[p].pc \in {"copying", "recover"}
          \/ reg[p].pc \in {"write", "writing"} /\ reg[p].cmd = "register"
          => backup # NoBackup

\* `setup' and the edits of the client are commands that leave config.json alone.
Outside ==
    /\ UNCHANGED <<config, snapshots, now, proc, past>>
    /\ commands' \in 0..MaxCommands
    /\ overlap' \in BOOLEAN
    /\ overlap => overlap'

\* What the system does to config.json is done by the processes of ConfigStore.
LEMMA FilesAreConfig ==
    ASSUME StoreInv, ClientOK, [FilesNext]_<<storeVars, clientVars>>
    PROVE  [ConfigNext]_storeVars \/ Outside
<1>0. commands \in 0..MaxCommands /\ MaxCommands \in Nat /\ overlap \in BOOLEAN
  BY ConfigAssumption DEF StoreInv, ConfigTypeOK
<1>1. CASE ClientEdits
  BY <1>0, <1>1 DEF ClientEdits, Outside
<1>2. ASSUME NEW p \in Procs, SetupStarts(p) PROVE Outside
  BY <1>0, <1>2 DEF SetupStarts, Outside
<1>3. ASSUME NEW p \in Procs, Import(p) PROVE ConfigNext
  <2>1. client.entries \in SUBSET Servers
    BY <1>3 DEF Import, ClientOK, ClientTypeOK, ClientDoc
  <2>2. [op |-> "import", who |-> client.entries] \in Abstract!Edits
    BY <2>1 DEF Abstract!Edits
  <2> QED
    BY <1>3, <2>2 DEF Import, ConfigNext, ConfigStep
<1>4. ASSUME NEW p \in Procs, ClientStep(p) PROVE ConfigNext \/ Outside \/ UNCHANGED storeVars
  BY <1>2, <1>3, <1>4
  DEF ClientStep, Register, Unregister, Read, BackupOpen, BackupClose, WriteOpen, WriteClose, WriteFails,
      Recover, SetupCrash
<1>5. ASSUME NEW p \in Procs, ConfigStep(p) PROVE ConfigNext
  BY <1>5 DEF ConfigNext
<1> QED
  BY <1>1, <1>4, <1>5 DEF FilesNext, ConfigNext

\* The other commands leave the invariants of config.json alone.
LEMMA OutsideKeeps ==
    ASSUME Outside
    PROVE  /\ StoreInv => StoreInv'
           /\ Sequential => Sequential'
           /\ Preserved => Preserved'
           /\ UNCHANGED Abstract!fileVars
<1>1. StoreInv => StoreInv'
  BY DEF Outside, StoreInv, ConfigTypeOK, Sources, ProcessOK, Saves
<1>2. Sequential => Sequential'
  BY DEF Outside, Sequential, Solo, Guarded, Kept, Complete, Busy, Count
<1>3. Preserved => Preserved'
  BY DEF Outside, Preserved, Count
<1>4. UNCHANGED Abstract!fileVars
  BY DEF Outside, Abstract!fileVars, Restoring
<1> QED
  BY <1>1, <1>2, <1>3, <1>4

\* A step of one process on the client's file.
LEMMA ClientMove ==
    ASSUME ClientOK, NEW p \in Procs, NEW r \in Registration, reg' = [reg EXCEPT ![p] = r],
           client' \in ClientDoc \cup {Torn}, backup' \in ClientDoc \cup {Torn, NoBackup}, good' \in ClientDoc,
           tornBy' \in {"none", "register", "unregister"},
           backup # NoBackup => backup' # NoBackup,
           \/ r.pc \in {"copying", "recover"}
           \/ r.pc \in {"write", "writing"} /\ r.cmd = "register"
           => backup' # NoBackup
    PROVE  ClientOK'
<1>1. reg \in [Procs -> Registration]
  BY DEF ClientOK, ClientTypeOK
<1>2. ClientTypeOK'
  BY <1>1 DEF ClientTypeOK
<1>3. reg'[p] = r /\ \A q \in Procs \ {p} : reg'[q] = reg[q]
  BY <1>1
<1> QED
  BY <1>2, <1>3 DEF ClientOK

\* Every step keeps the types of the client's file.
LEMMA ClientOKStep ==
    ASSUME ClientOK, [FilesNext]_<<storeVars, clientVars>>
    PROVE  ClientOK'
<1>0. /\ client \in ClientDoc \cup {Torn} /\ backup \in ClientDoc \cup {Torn, NoBackup} /\ good \in ClientDoc
      /\ tornBy \in {"none", "register", "unregister"} /\ reg \in [Procs -> Registration]
  BY DEF ClientOK, ClientTypeOK
<1>1. Unoccupied \in Registration /\ Unoccupied.pc = "idle"
  BY DEF Unoccupied, Registration, ClientDoc
<1>2. CASE UNCHANGED clientVars
  BY <1>2 DEF clientVars, ClientOK, ClientTypeOK
<1>3. CASE ClientEdits
  <2>1. PICK s \in Servers : client # Torn /\ client' = [client EXCEPT !.entries =
               IF s \in client.entries THEN client.entries \ {s} ELSE client.entries \cup {s}]
    BY <1>3 DEF ClientEdits
  <2>2. client' \in ClientDoc
    BY <1>0, <2>1 DEF ClientDoc
  <2> QED
    BY <1>0, <1>3, <2>2 DEF ClientEdits, ClientOK, ClientTypeOK
<1>4. ASSUME NEW p \in Procs, ClientStep(p) PROVE ClientOK'
  <2>0. reg[p] \in Registration
    BY <1>0
  <2>1. CASE Register(p)
    <3> DEFINE r == [reg[p] EXCEPT !.pc = "read", !.cmd = "register"]
    <3>1. r \in Registration /\ r.pc = "read" /\ reg' = [reg EXCEPT ![p] = r]
      BY <1>0, <2>0, <2>1 DEF Register, Registration
    <3> HIDE DEF r
    <3> QED
      BY <1>0, <2>1, <3>1, ClientMove DEF Register
  <2>2. CASE Unregister(p)
    <3> DEFINE r == [reg[p] EXCEPT !.pc = "read", !.cmd = "unregister"]
    <3>1. r \in Registration /\ r.pc = "read" /\ reg' = [reg EXCEPT ![p] = r]
      BY <1>0, <2>0, <2>2 DEF Unregister, Registration
    <3> HIDE DEF r
    <3> QED
      BY <1>0, <2>2, <3>1, ClientMove DEF Unregister
  <2>e. CASE Returns(p) /\ UNCHANGED <<client, backup, good, tornBy>>
    BY <1>0, <1>1, <2>e, ClientMove DEF Returns
  <2>3. CASE Read(p) /\ ~Returns(p)
    <3> DEFINE r == [reg[p] EXCEPT !.pc = IF reg[p].cmd = "register" THEN "backup" ELSE "write", !.data = client]
    <3>1. client \in ClientDoc /\ reg' = [reg EXCEPT ![p] = r] /\ UNCHANGED <<client, backup, good, tornBy>>
      BY <1>0, <2>3 DEF Read
    <3>2. r \in Registration /\ (r.pc = "backup" \/ (r.pc = "write" /\ r.cmd # "register"))
      BY <2>0, <3>1 DEF Registration
    <3> HIDE DEF r
    <3> QED
      BY <1>0, <3>1, <3>2, ClientMove
  <2>4. CASE BackupOpen(p)
    <3> DEFINE r == [reg[p] EXCEPT !.pc = "copying", !.content = client]
    <3>1. r \in Registration /\ reg' = [reg EXCEPT ![p] = r]
      BY <1>0, <2>0, <2>4 DEF BackupOpen, Registration
    <3> HIDE DEF r
    <3> QED
      BY <1>0, <2>4, <3>1, ClientMove, ClientAssumption DEF BackupOpen
  <2> DEFINE At(pc) == [reg[p] EXCEPT !.pc = pc]
  <2>5. ASSUME NEW pc \in {"write", "writing", "recover"}, Step(p, pc)
        PROVE  At(pc) \in Registration /\ At(pc).pc = pc /\ At(pc).cmd = reg[p].cmd /\ reg' = [reg EXCEPT ![p] = At(pc)]
    BY <1>0, <2>0, <2>5 DEF Step, Registration
  <2> HIDE DEF At
  <2>6. CASE BackupClose(p)
    <3>1. backup' \in ClientDoc \cup {Torn}
      BY <2>0, <2>6 DEF BackupClose, Registration
    <3> QED
      BY <1>0, <2>5, <2>6, <3>1, ClientMove, ClientAssumption DEF BackupClose
  <2>7. CASE WriteOpen(p)
    <3>1. (reg[p].cmd = "register" => backup # NoBackup) /\ reg[p].cmd \in {"none", "register", "unregister"}
      BY <2>0, <2>7 DEF WriteOpen, ClientOK, Registration
    <3> QED
      BY <1>0, <2>5, <2>7, <3>1, ClientMove DEF WriteOpen
  <2>8. CASE WriteClose(p)
    <3>1. Updated(reg[p]) \in ClientDoc
      BY <2>0 DEF Updated, Registration, ClientDoc
    <3> QED
      BY <1>0, <1>1, <2>8, <3>1, ClientMove DEF WriteClose, Returns
  <2>9. CASE WriteFails(p) /\ ~Returns(p)
    <3>1. backup # NoBackup /\ Step(p, "recover")
      BY <2>9 DEF WriteFails, ClientOK
    <3> QED
      BY <1>0, <2>5, <2>9, <3>1, ClientMove DEF WriteFails
  <2>10. CASE Recover(p)
    <3>1. backup # NoBackup
      BY <2>10 DEF Recover, ClientOK
    <3> QED
      BY <1>0, <1>1, <2>10, <3>1, ClientMove DEF Recover, Returns
  <2> QED
    BY <1>2, <1>4, <2>1, <2>2, <2>e, <2>3, <2>4, <2>6, <2>7, <2>8, <2>9, <2>10
    DEF ClientStep, Read, WriteFails, SetupCrash, Import
<1> QED
  BY <1>2, <1>3, <1>4 DEF FilesNext

\* A process that works on the client's file alone: what it read is what the
\* file last held, the backup of a register is that too, and the file is
\* unreadable only while it is written.
Working(p) ==
    /\ reg[p].pc \in {"read", "backup", "copying", "write"} => client # Torn
    /\ reg[p].pc \in {"writing", "recover"} => client = Torn
    /\ reg[p].pc \in {"backup", "copying", "write", "writing"} => reg[p].data = good
    /\ reg[p].pc = "copying" => reg[p].content = good
    /\ reg[p].pc \in {"write", "writing"} /\ reg[p].cmd = "register" => backup = good
    /\ reg[p].pc = "writing" => tornBy = reg[p].cmd
    /\ reg[p].pc = "recover" => tornBy = "register"

\* As long as no two commands, and no edit of the client's, have overlapped.
Single ==
    ~overlap =>
        /\ \A p, q \in Procs : Occupied(p) /\ Occupied(q) => p = q
        /\ client # Torn => client = good
        /\ client = Torn /\ tornBy = "register" => backup = good
        /\ \A p \in Procs : Working(p)

\* A step of process p, when no other is at work on the client's file.
LEMMA SingleMove ==
    ASSUME ClientOK, NEW p \in Procs, NEW r, reg' = [reg EXCEPT ![p] = r],
           \A q \in Procs \ {p} : reg[q].pc = "idle", Working(p)',
           client' # Torn => client' = good',
           client' = Torn /\ tornBy' = "register" => backup' = good'
    PROVE  Single'
<1>1. \A q \in Procs \ {p} : reg'[q].pc = "idle"
  BY DEF ClientOK, ClientTypeOK
<1>2. \A q \in Procs \ {p} : Working(q)'
  BY <1>1 DEF Working
<1> QED
  BY <1>1, <1>2 DEF Single, Occupied

\* The end of a command.
LEMMA SingleEnds ==
    ASSUME ClientOK, NEW p \in Procs, Returns(p), \A q \in Procs \ {p} : reg[q].pc = "idle",
           client' # Torn => client' = good',
           client' = Torn /\ tornBy' = "register" => backup' = good'
    PROVE  Single'
<1>1. reg'[p].pc = "idle"
  BY DEF Returns, ClientOK, ClientTypeOK, Unoccupied
<1>2. Working(p)'
  BY <1>1 DEF Working
<1> QED
  BY <1>2, SingleMove DEF Returns

\* Every step.
LEMMA SingleStep ==
    ASSUME StoreInv, ClientOK, Single, [FilesNext]_<<storeVars, clientVars>>
    PROVE  Single'
<1> SUFFICES ASSUME ~overlap' PROVE Single'
  BY DEF Single
<1>0. /\ reg \in [Procs -> Registration] /\ ~overlap
      /\ client # Torn => client = good
      /\ client = Torn /\ tornBy = "register" => backup = good
      /\ \A p \in Procs : Working(p)
      /\ \A p, q \in Procs : reg[p].pc # "idle" /\ reg[q].pc # "idle" => p = q
  <2>1. ~overlap
    BY FilesAreConfig
    DEF ConfigNext, ConfigStep, Command, RestoreCommand, Starts, Guard, SnapshotExisting, SnapshotOpen, SnapshotClose,
        Replace, RestoreOpen, RestoreClose, RestoreUnlinked, Crash, Tick, Outside, storeVars, StoreInv, ConfigTypeOK
  <2> QED
    BY <2>1 DEF ClientOK, ClientTypeOK, Single, Occupied
<1>1. CASE UNCHANGED clientVars
  BY <1>0, <1>1 DEF clientVars, Single, Working, Occupied
<1>2. CASE ClientEdits
  <2>1. \A p \in Procs : reg'[p].pc = "idle"
    BY <1>2 DEF ClientEdits, Occupied
  <2>2. \A p \in Procs : Working(p)'
    BY <2>1 DEF Working
  <2>3. client' = good' /\ client' # Torn
    <3>1. client' \in ClientDoc
      BY <1>2, ClientOKStep DEF ClientEdits, ClientOK, ClientTypeOK
    <3> QED
      BY <1>2, <3>1, ClientAssumption DEF ClientEdits
  <2> QED
    BY <2>1, <2>2, <2>3 DEF Single, Occupied
<1>3. ASSUME NEW p \in Procs, ClientStep(p), ~UNCHANGED clientVars PROVE Single'
  <2>0. reg[p] \in Registration /\ Working(p) /\ \A q \in Procs \ {p} : reg[q].pc = "idle"
    BY <1>0, <1>3
    DEF ClientStep, Register, Unregister, SetupStarts, Read, BackupOpen, BackupClose, WriteOpen, WriteClose, WriteFails,
        Recover, SetupCrash, Import, Occupied
  <2>1. CASE Register(p) \/ Unregister(p)
    <3>1. PICK cmd \in {"register", "unregister"} : reg' = [reg EXCEPT ![p] = [reg[p] EXCEPT !.pc = "read", !.cmd = cmd]]
      BY <1>0, <2>1 DEF Register, Unregister
    <3> DEFINE r == [reg[p] EXCEPT !.pc = "read", !.cmd = cmd]
    <3>2. r.pc = "read" /\ reg'[p] = r
      BY <1>0, <2>0, <3>1 DEF Registration
    <3> HIDE DEF r
    <3>3. client # Torn /\ UNCHANGED <<client, backup, good, tornBy>>
      BY <2>1 DEF Register, Unregister
    <3>4. Working(p)'
      BY <3>2, <3>3 DEF Working
    <3> QED
      BY <1>0, <2>0, <3>1, <3>3, <3>4, SingleMove
  <2>2. CASE Returns(p) /\ UNCHANGED <<client, backup, good, tornBy>>
    BY <1>0, <2>0, <2>2, SingleEnds
  <2>3. CASE Read(p) /\ ~Returns(p)
    <3> DEFINE r == [reg[p] EXCEPT !.pc = IF reg[p].cmd = "register" THEN "backup" ELSE "write", !.data = client]
    <3>1. client # Torn /\ reg' = [reg EXCEPT ![p] = r] /\ UNCHANGED <<client, backup, good, tornBy>>
      BY <1>0, <2>3 DEF Read
    <3>2. /\ r.pc \in {"backup", "write"} /\ (r.pc = "write" => r.cmd # "register") /\ r.data = client
          /\ reg'[p] = r
      BY <1>0, <2>0, <3>1 DEF Registration
    <3> HIDE DEF r
    <3>3. Working(p)'
      BY <1>0, <3>1, <3>2 DEF Working
    <3> QED
      BY <1>0, <2>0, <3>1, <3>3, SingleMove
  <2>4. CASE BackupOpen(p)
    <3> DEFINE r == [reg[p] EXCEPT !.pc = "copying", !.content = client]
    <3>1. client # Torn /\ client = good /\ reg[p].data = good /\ reg' = [reg EXCEPT ![p] = r]
          /\ UNCHANGED <<client, good, tornBy>>
      BY <1>0, <2>0, <2>4 DEF BackupOpen, Working
    <3>2. r.pc = "copying" /\ r.data = good /\ r.content = good /\ reg'[p] = r
      BY <1>0, <2>0, <3>1 DEF Registration
    <3> HIDE DEF r
    <3>3. Working(p)'
      BY <3>1, <3>2 DEF Working
    <3> QED
      BY <1>0, <2>0, <3>1, <3>3, SingleMove
  <2> DEFINE Now(pc) == [reg[p] EXCEPT !.pc = pc]
  <2>5. ASSUME NEW pc \in {"write", "writing", "recover"}, Step(p, pc)
        PROVE  /\ reg' = [reg EXCEPT ![p] = Now(pc)] /\ reg'[p] = Now(pc)
               /\ Now(pc).pc = pc /\ Now(pc).cmd = reg[p].cmd /\ Now(pc).data = reg[p].data
    BY <1>0, <2>0, <2>5 DEF Step, Registration
  <2> HIDE DEF Now
  <2>6. CASE BackupClose(p)
    <3>1. backup' = reg[p].content
      BY <2>0, <2>6 DEF BackupClose
    <3>2. /\ client # Torn /\ backup' = good /\ reg[p].data = good /\ Step(p, "write")
          /\ UNCHANGED <<client, good, tornBy>>
      BY <2>0, <2>6, <3>1 DEF BackupClose, Working
    <3>3. Working(p)'
      BY <2>5, <3>2 DEF Working
    <3> QED
      BY <1>0, <2>0, <2>5, <3>2, <3>3, SingleMove
  <2>7. CASE WriteOpen(p)
    <3>1. /\ reg[p].data = good /\ (reg[p].cmd = "register" => backup = good) /\ Step(p, "writing")
          /\ client' = Torn /\ tornBy' = reg[p].cmd /\ UNCHANGED <<backup, good>>
      BY <2>0, <2>7 DEF WriteOpen, Working
    <3>2. Working(p)'
      BY <2>5, <3>1 DEF Working
    <3> QED
      BY <1>0, <2>0, <2>5, <3>1, <3>2, SingleMove
  <2>8. CASE WriteClose(p)
    <3>1. client' = good' /\ client' \in ClientDoc
      BY <2>0, <2>8 DEF WriteClose, Updated, Registration, ClientDoc
    <3> QED
      BY <2>0, <2>8, <3>1, SingleEnds, ClientAssumption DEF WriteClose
  <2>9. CASE WriteFails(p) /\ ~Returns(p)
    <3>1. /\ client = Torn /\ tornBy = "register" /\ Step(p, "recover") /\ backup = good
          /\ UNCHANGED <<client, backup, good, tornBy>>
      BY <2>0, <2>9 DEF WriteFails, Working
    <3>2. Working(p)'
      BY <2>5, <3>1 DEF Working
    <3> QED
      BY <1>0, <2>0, <2>5, <3>1, <3>2, SingleMove
  <2>10. CASE Recover(p)
    <3>1. backup = good /\ client' = good /\ good \in ClientDoc /\ good' = good /\ UNCHANGED backup
      BY <1>0, <2>0, <2>10 DEF Recover, Working, ClientOK, ClientTypeOK
    <3> QED
      BY <2>0, <2>10, <3>1, SingleEnds DEF Recover
  <2> QED
    BY <1>3, <2>1, <2>2, <2>3, <2>4, <2>6, <2>7, <2>8, <2>9, <2>10
    DEF ClientStep, Read, WriteFails, SetupCrash, Import
<1> QED
  BY <1>1, <1>2, <1>3 DEF FilesNext

------------------------------------------------------------------------------
(* The theorems about all commands together *)

\* What holds of the files.
FilesInv == StoreInv /\ ClientOK /\ Sequential /\ Single

\* Nobody has run a command.
LEMMA FilesInitInv == FilesInit => FilesInv /\ Preserved
<1> SUFFICES ASSUME FilesInit PROVE FilesInv /\ Preserved
  OBVIOUS
<1>1. StoreInv
  BY StoreInitInv DEF FilesInit
<1>2. \A p \in Procs : proc[p].pc = "idle" /\ reg[p].pc = "idle"
  BY DEF FilesInit, ConfigInit, ClientInit, Idle, Unoccupied
<1>3. Unoccupied \in Registration
  BY DEF Unoccupied, Registration, ClientDoc
<1>4. ClientOK
  BY <1>2, <1>3 DEF FilesInit, ClientInit, ClientOK, ClientTypeOK, ClientDoc
<1>5. config # Torn /\ DOMAIN snapshots = {} /\ client # Torn /\ client = good
  BY EmptyType, TornAssumption, ClientAssumption DEF FilesInit, ConfigInit, ClientInit, ClientDoc
<1>6. Sequential /\ Preserved
  BY <1>2, <1>5 DEF Sequential, Solo, Preserved, Busy, Kept
<1>7. Single
  BY <1>2, <1>5 DEF Single, Working, Occupied
<1> QED
  BY <1>1, <1>4, <1>6, <1>7 DEF FilesInv

\* Every command, of the hub or of the client, keeps all of it.
LEMMA FilesNextInv ==
    ASSUME FilesInv, [FilesNext]_<<storeVars, clientVars>>
    PROVE  FilesInv'
<1>1. StoreInv' /\ Sequential'
  BY FilesAreConfig, OutsideKeeps, StoreNextInv, SequentialStep DEF FilesInv
<1> QED
  BY <1>1, ClientOKStep, SingleStep DEF FilesInv

\* The invariant of the configuration files, for any number of processes.
THEOREM FilesInvariant == FilesSpec => []FilesInv
<1>1. FilesInit => FilesInv
  BY FilesInitInv
<1>2. FilesInv /\ [FilesNext]_<<storeVars, clientVars>> => FilesInv'
  BY FilesNextInv
<1> QED
  BY <1>1, <1>2, PTL DEF FilesSpec

\* config_io and auto_register: config.json does what ConfigFile promises with
\* the setup commands, and the client's own edits, in between.
THEOREM FilesRefine == FilesSpec => ImplementsConfigFile
<1>1. FilesInit => Abstract!FileInit
  BY DEF FilesInit, ConfigInit, Abstract!FileInit, Restoring, Idle
<1>2. FilesInv /\ [FilesNext]_<<storeVars, clientVars>> => [Abstract!FileNext]_(Abstract!fileVars)
  BY FilesAreConfig, OutsideKeeps, StepRefines DEF FilesInv
<1> QED
  BY <1>1, <1>2, FilesInvariant, PTL DEF FilesSpec, ImplementsConfigFile, Abstract!FileSpec

\* restore_snapshot: a config.json that a killed restore left unreadable can be
\* restored, as long as no two commands have overlapped and a second's snapshots
\* do not push each other out.
THEOREM TornCanBeRestored ==
    ASSUME FewServers
    PROVE  FilesSpec => []TornRecoverable
<1>1. FilesInv => TornRecoverable
  BY DEF FilesInv, Sequential, Complete, TornRecoverable
<1> QED
  BY <1>1, FilesInvariant, PTL

\* register_client: the client's file that it left unreadable is in the backup.
THEOREM BackupHoldsClient == FilesSpec => []RegisterRecoverable
<1>1. FilesInv => RegisterRecoverable
  BY DEF FilesInv, Single, RegisterRecoverable
<1> QED
  BY <1>1, FilesInvariant, PTL

\* _inject_hub_entry, _remove_from_section and the copy back: the client's own
\* entries are as they were when its file can be read again.
THEOREM ClientEntriesKept == FilesSpec => ForeignEntriesKept
<1>1. FilesInv /\ [FilesNext]_<<storeVars, clientVars>>
        => [~overlap /\ client = Torn /\ client' # Torn
              => client'.entries = good.entries]_<<storeVars, clientVars>>
  <2> SUFFICES ASSUME FilesInv, FilesNext, ~overlap, client = Torn, client' # Torn
               PROVE  client'.entries = good.entries
    OBVIOUS
  <2>1. PICK p \in Procs : WriteClose(p) \/ Recover(p)
    BY DEF FilesNext, ClientEdits, ClientStep, Register, Unregister, Read, BackupOpen, BackupClose, WriteOpen,
           WriteFails, SetupCrash, Import, clientVars
  <2>2. Working(p) /\ reg[p] \in Registration
    BY DEF FilesInv, Single, ClientOK, ClientTypeOK
  <2>3. CASE WriteClose(p)
    <3>1. reg[p].data = good /\ client' = Updated(reg[p])
      BY <2>2, <2>3 DEF WriteClose, Working
    <3> QED
      BY <2>2, <3>1 DEF Updated, Registration, ClientDoc
  <2>4. CASE Recover(p)
    BY <2>4 DEF Recover, FilesInv, Single, Working
  <2> QED
    BY <2>1, <2>3, <2>4
<1> QED
  BY <1>1, FilesInvariant, PTL DEF FilesSpec, ForeignEntriesKept

\* README, "Existing non-trivial configs are snapshotted before any write":
\* what a command overwrites is in the directory, although the directory is
\* pruned after the snapshot is taken.
THEOREM OverwrittenIsSnapshotted ==
    ASSUME FewServers
    PROVE  FilesSpec => SnapshottedFirst
<1>1. FilesInit => Preserved
  BY FilesInitInv
<1>2. FilesInv /\ Preserved /\ [FilesNext]_<<storeVars, clientVars>> => Preserved'
  BY FilesAreConfig, OutsideKeeps, PreservedStep DEF FilesInv
<1>3. FilesInv /\ Preserved /\ [FilesNext]_<<storeVars, clientVars>>
        => [~overlap /\ config' # config /\ config # Torn /\ Count(config) >= SnapshotMin
              => \E n \in DOMAIN snapshots : snapshots[n] = config]_storeVars
  <2> SUFFICES ASSUME FilesInv, Preserved, ConfigNext \/ Outside, ~overlap, config' # config, config # Torn,
                      Count(config) >= SnapshotMin
               PROVE  \E n \in DOMAIN snapshots : snapshots[n] = config
    BY FilesAreConfig DEF FilesInv, storeVars
  <2>1. PICK p \in Procs : Replace(p) \/ RestoreOpen(p) \/ RestoreClose(p)
    BY DEF Outside, ConfigNext, ConfigStep, Command, Guard, SnapshotExisting, SnapshotOpen, SnapshotClose,
           RestoreCommand, RestoreUnlinked, Crash, Tick
  <2>2. ~RestoreClose(p)
    BY DEF RestoreClose, FilesInv, Sequential, Solo
  <2> QED
    BY <2>1, <2>2 DEF Replace, RestoreOpen, Preserved
<1> QED
  BY <1>1, <1>2, <1>3, FilesInvariant, PTL DEF FilesSpec, SnapshottedFirst

==============================================================================
