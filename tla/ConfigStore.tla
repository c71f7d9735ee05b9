------------------------------ MODULE ConfigStore ------------------------------
(***************************************************************************)
(* config.json and its snapshots (core/config_io.py), as the commands of   *)
(* the command line change them: each is a process of its own that reads   *)
(* the file, works on what it read and saves, with no lock between them,   *)
(* and may be killed or fail at any step.                                  *)
(*                                                                         *)
(* A missing config.json is read as the empty document, and like it is     *)
(* neither guarded nor snapshotted.  The temporary file of _atomic_write   *)
(* is private to its process until os.replace and is part of that step; a  *)
(* shutil.copy2 takes its source when it opens it and leaves an unreadable *)
(* target until it is done.                                                *)
(***************************************************************************)
EXTENDS Integers, FiniteSets

CONSTANTS
    Servers,
    Torn,
    Procs,         \* processes, each running one command after another
    SnapshotMin,   \* 3: smaller documents are not snapshotted
    GuardMin,      \* 5: smaller documents may shrink as they like
    MaxSnapshots,  \* snapshots kept
    MaxSeconds,    \* bound on the clock
    MaxCommands    \* bound on the commands of a behaviour

ASSUME ConfigAssumption ==
    /\ IsFiniteSet(Servers)
    /\ {SnapshotMin, GuardMin, MaxSnapshots, MaxSeconds, MaxCommands} \subseteq Nat
    /\ MaxSnapshots > 0

VARIABLES
    config,     \* content of config.json
    snapshots,  \* the snapshot directory: file name -> content
    now,        \* the clock of the file names, in seconds
    proc,       \* what each process is doing
    commands,   \* how many commands have been started
    past,       \* history: every document config has held
    overlap     \* history: two commands have run at the same time

storeVars == <<config, snapshots, now, proc, commands, past, overlap>>

\* A restore is under way from its command to its end.
Restoring == \E p \in Procs : proc[p].cmd = "restore"

Abstract == INSTANCE ConfigFile WITH file <- config, past <- past, restoring <- Restoring

Doc == Abstract!Doc

Count(d) == Cardinality(Abstract!Listed(d))

\* A document can be read.
ASSUME TornAssumption == Torn \notin Doc

\* config-<ts>-<n>mcps.json
SnapName == [sec : 0..MaxSeconds, count : 0..Cardinality(Servers)]

NoName == [sec |-> 0, count |-> 0]

\* pc is what the process does next; save and restore share the snapshot steps.
\* `doc' is the document to be saved, `from' the snapshot to be restored, `snap'
\* the snapshot it writes, `content' what a copy under way leaves in its target.
Process ==
    [pc : {"idle", "guard", "snapshot", "copy", "copying", "replace",
           "restore", "restoring", "unlinked"},
     cmd : {"none", "save", "restore"},
     doc : Doc, from : SnapName, snap : SnapName,
     content : Doc \cup {Torn}]

Idle ==
    [pc |-> "idle", cmd |-> "none", doc |-> Abstract!EmptyDoc,
     from |-> NoName, snap |-> NoName, content |-> Torn]

ConfigTypeOK ==
    /\ config \in Doc \cup {Torn}
    /\ DOMAIN snapshots \subseteq SnapName
    /\ \A n \in DOMAIN snapshots : snapshots[n] \in Doc \cup {Torn}
    /\ now \in 0..MaxSeconds
    /\ proc \in [Procs -> Process]
    /\ commands \in 0..MaxCommands
    /\ past \subseteq Doc
    /\ overlap \in BOOLEAN

ConfigInit ==
    /\ config = Abstract!EmptyDoc
    /\ past = {Abstract!EmptyDoc}
    /\ snapshots = [n \in {} |-> Torn]
    /\ now = 0
    /\ proc = [p \in Procs |-> Idle]
    /\ commands = 0
    /\ overlap = FALSE

------------------------------------------------------------------------------

Busy(p) == proc[p].pc # "idle"

Move(p, pc) == proc' = [proc EXCEPT ![p].pc = pc]

Ends(p) == proc' = [proc EXCEPT ![p] = Idle]

\* A command is started.
Starts(p) ==
    /\ ~Busy(p)
    /\ commands < MaxCommands
    /\ commands' = commands + 1
    /\ overlap' = (overlap \/ \E q \in Procs : Busy(q))

\* load_config and the checks of the command; an unreadable file, or a check
\* that fails, ends the command here.
Command(p, e) ==
    LET base == IF e.op = "init" THEN Abstract!EmptyDoc ELSE config
    IN  /\ base # Torn
        /\ Abstract!Accepted(e, base)
        /\ Starts(p)
        /\ proc' = [proc EXCEPT ![p] =
               [Idle EXCEPT !.pc = "guard", !.cmd = "save",
                            !.doc = Abstract!Edited(e, base)]]
        /\ UNCHANGED <<config, snapshots, now, past>>

\* int(existing_count * DROP_GUARD_THRESHOLD)
Shrinks(old, new) ==
    /\ Count(old) > GuardMin
    /\ Count(new) < (Count(old) * 7) \div 10

\* The count-drop guard of save_config, on the content it finds now; an
\* unreadable content is let pass.
Guard(p) ==
    /\ proc[p].pc = "guard"
    /\ IF config # Torn /\ Shrinks(config, proc[p].doc)
       THEN Ends(p)
       ELSE Move(p, "snapshot")
    /\ UNCHANGED <<config, snapshots, now, commands, past, overlap>>

\* What follows _snapshot_existing in the two functions that call it.
Then(p) == IF proc[p].cmd = "save" THEN "replace" ELSE "restore"

\* Mutant: a document of exactly the minimal size is left out.
SnapshotLarger(p) ==
    /\ proc[p].pc = "snapshot"
    /\ IF config = Torn \/ Count(config) <= SnapshotMin
       THEN Move(p, Then(p))
       ELSE proc' = [proc EXCEPT ![p].pc = "copy",
                                 ![p].snap = [sec |-> now, count |-> Count(config)]]
    /\ UNCHANGED <<config, snapshots, now, commands, past, overlap>>

\* _snapshot_existing: nothing to keep in an unreadable or trivial document.
SnapshotExisting(p) ==
    /\ proc[p].pc = "snapshot"
    /\ IF config = Torn \/ Count(config) < SnapshotMin
       THEN Move(p, Then(p))
       ELSE proc' = [proc EXCEPT ![p].pc = "copy",
                                 ![p].snap = [sec |-> now, count |-> Count(config)]]
    /\ UNCHANGED <<config, snapshots, now, commands, past, overlap>>

SnapshotOpen(p) ==
    /\ proc[p].pc = "copy"
    /\ proc' = [proc EXCEPT ![p].pc = "copying", ![p].content = config]
    /\ snapshots' = [n \in DOMAIN snapshots \cup {proc[p].snap} |->
                        IF n = proc[p].snap THEN Torn ELSE snapshots[n]]
    /\ UNCHANGED <<config, now, commands, past, overlap>>

\* The order of the names: by time, then by the digits of the count (counts of
\* more than one digit, which sort differently, are beyond the instances).
Older(m, n) == m.sec < n.sec \/ (m.sec = n.sec /\ m.count < n.count)

\* The newest MaxSnapshots of the names.
Retained(names) ==
    {n \in names : Cardinality({m \in names : Older(n, m)}) < MaxSnapshots}

\* The copy is complete, and the directory is pruned.  A snapshot that another
\* process pruned while it was written makes the chmod, and so the command, fail.
SnapshotClose(p) ==
    /\ proc[p].pc = "copying"
    /\ IF proc[p].snap \in DOMAIN snapshots
       THEN /\ snapshots' = [n \in Retained(DOMAIN snapshots) |->
                                IF n = proc[p].snap THEN proc[p].content ELSE snapshots[n]]
            /\ Move(p, Then(p))
       ELSE Ends(p) /\ UNCHANGED snapshots
    /\ UNCHANGED <<config, now, commands, past, overlap>>

\* Mutant: the document is written in place.
ReplaceInPlace(p) ==
    /\ proc[p].pc = "replace"
    /\ \/ Abstract!Holds(proc[p].doc)
       \/ config' = Torn /\ UNCHANGED past
    /\ Ends(p)
    /\ UNCHANGED <<snapshots, now, commands, overlap>>

\* _atomic_write: os.replace gives config.json a new file; a restore that is
\* writing in place goes on with the one that was unlinked.
Replace(p) ==
    /\ proc[p].pc = "replace"
    /\ Abstract!Holds(proc[p].doc)
    /\ proc' = [q \in Procs |->
           IF q = p THEN Idle
           ELSE IF proc[q].pc = "restoring" THEN [proc[q] EXCEPT !.pc = "unlinked"]
           ELSE proc[q]]
    /\ UNCHANGED <<snapshots, now, commands, overlap>>

\* config restore: the name of a snapshot is all that is checked.
RestoreCommand(p, n) ==
    /\ n \in DOMAIN snapshots
    /\ Starts(p)
    /\ proc' = [proc EXCEPT ![p] =
           [Idle EXCEPT !.pc = "snapshot", !.cmd = "restore", !.from = n]]
    /\ UNCHANGED <<config, snapshots, now, past>>

\* Mutant: the snapshot is moved, not copied.
RestoreMoves(p) ==
    /\ proc[p].pc = "restore"
    /\ IF proc[p].from \in DOMAIN snapshots
       THEN /\ config' = Torn
            /\ proc' = [proc EXCEPT ![p].pc = "restoring",
                                    ![p].content = snapshots[proc[p].from]]
            /\ snapshots' = [n \in DOMAIN snapshots \ {proc[p].from} |-> snapshots[n]]
       ELSE Ends(p) /\ UNCHANGED <<config, snapshots>>
    /\ UNCHANGED <<now, commands, past, overlap>>

\* copy2 opens the snapshot before it truncates config.json: when it has been
\* pruned meanwhile, FileNotFoundError ends the command.
RestoreOpen(p) ==
    /\ proc[p].pc = "restore"
    /\ IF proc[p].from \in DOMAIN snapshots
       THEN /\ config' = Torn
            /\ proc' = [proc EXCEPT ![p].pc = "restoring",
                                    ![p].content = snapshots[proc[p].from]]
       ELSE Ends(p) /\ UNCHANGED config
    /\ UNCHANGED <<snapshots, now, commands, past, overlap>>

\* Two restores that write at the same time may leave a mixture.
RestoreClose(p) ==
    /\ proc[p].pc = "restoring"
    /\ \/ config' = proc[p].content
       \/ /\ \E q \in Procs \ {p} : proc[q].pc = "restoring"
          /\ config' = Torn
    /\ past' = past \cup ({config'} \cap Doc)
    /\ Ends(p)
    /\ UNCHANGED <<snapshots, now, commands, overlap>>

RestoreUnlinked(p) ==
    /\ proc[p].pc = "unlinked"
    /\ Ends(p)
    /\ UNCHANGED <<config, snapshots, now, commands, past, overlap>>

\* The process is killed, or an OSError ends the command: what it has written
\* stays as it is.
Crash(p) ==
    /\ Busy(p)
    /\ Ends(p)
    /\ UNCHANGED <<config, snapshots, now, commands, past, overlap>>

Tick ==
    /\ now < MaxSeconds
    /\ now' = now + 1
    /\ UNCHANGED <<config, snapshots, proc, commands, past, overlap>>

ConfigStep(p) ==
    \/ \E e \in Abstract!Edits : Command(p, e)
    \/ Guard(p)
    \/ SnapshotExisting(p)
    \/ SnapshotOpen(p)
    \/ SnapshotClose(p)
    \/ Replace(p)
    \/ \E n \in DOMAIN snapshots : RestoreCommand(p, n)
    \/ RestoreOpen(p)
    \/ RestoreClose(p)
    \/ RestoreUnlinked(p)
    \/ Crash(p)

ConfigNext == Tick \/ \E p \in Procs : ConfigStep(p)

ConfigSpec == ConfigInit /\ [][ConfigNext]_storeVars

------------------------------------------------------------------------------
(* Properties *)

\* Whatever the processes do and whenever they are killed, config.json goes
\* from one complete document to another that is one command's work on a
\* content it once had; only a restore makes it unreadable or takes it back to
\* a content it once had.
ImplementsConfigFile == Abstract!FileSpec

\* README: "Existing non-trivial configs are snapshotted before any write."
\* When the content of config.json changes, what it was is in the directory.
SnapshottedFirst ==
    [][ /\ ~overlap
        /\ config' # config
        /\ config # Torn
        /\ Count(config) >= SnapshotMin
      => \E n \in DOMAIN snapshots : snapshots[n] = config ]_storeVars

\* A config.json that a killed restore left unreadable can be restored again:
\* there is a complete snapshot, although restoring takes a snapshot first and
\* prunes the directory, a killed copy leaves an unreadable one there, and the
\* user may have restored just that one.
TornRecoverable ==
    ~overlap /\ config = Torn => \E n \in DOMAIN snapshots : snapshots[n] # Torn

==============================================================================
