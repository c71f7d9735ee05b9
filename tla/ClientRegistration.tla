-------------------------- MODULE ClientRegistration --------------------------
(***************************************************************************)
(* slm-hub setup: the hub enters itself into the configuration file of an  *)
(* AI client (discovery/auto_register.py), takes itself out again, and     *)
(* imports the client's backends into config.json.  The file belongs to    *)
(* the client, which edits it too; the hub writes it in place, so that a   *)
(* process killed while it writes leaves it unreadable.  The commands are  *)
(* run by the processes of ConfigStore and share its bound.                *)
(***************************************************************************)
EXTENDS ConfigStore

CONSTANT NoBackup  \* there is no .pre-hub-backup file

VARIABLES
    client,    \* content of the client's configuration file
    backup,    \* content of <file>.pre-hub-backup
    reg,       \* what each process is doing to the client's file
    good,      \* history: the last complete content of the client's file
    tornBy     \* history: the command that last began to write it

clientVars == <<client, backup, reg, good, tornBy>>

\* The section that holds the backends: the client's own and the entry "hub".
ClientDoc == [entries : SUBSET Servers, hub : BOOLEAN]

\* A document can be read, and the absence of a backup is not a content.
ASSUME ClientAssumption ==
    /\ Torn \notin ClientDoc
    /\ NoBackup \notin ClientDoc \cup {Torn}

Registration ==
    [pc : {"idle", "read", "backup", "copying", "write", "writing", "recover"},
     cmd : {"none", "register", "unregister"},
     data : ClientDoc, content : ClientDoc \cup {Torn}]

Unoccupied ==
    [pc |-> "idle", cmd |-> "none",
     data |-> [entries |-> {}, hub |-> FALSE], content |-> Torn]

ClientTypeOK ==
    /\ client \in ClientDoc \cup {Torn}
    /\ backup \in ClientDoc \cup {Torn, NoBackup}
    /\ reg \in [Procs -> Registration]
    /\ good \in ClientDoc
    /\ tornBy \in {"none", "register", "unregister"}

ClientInit ==
    /\ good \in [entries : SUBSET Servers, hub : {FALSE}]
    /\ client = good
    /\ backup = NoBackup
    /\ reg = [p \in Procs |-> Unoccupied]
    /\ tornBy = "none"

------------------------------------------------------------------------------

Occupied(p) == reg[p].pc # "idle"

Step(p, pc) == reg' = [reg EXCEPT ![p].pc = pc]

Returns(p) == reg' = [reg EXCEPT ![p] = Unoccupied]

\* A setup command of process p; it overlaps with any other command and with
\* the client's own edits.
SetupStarts(p) ==
    /\ ~Busy(p)
    /\ ~Occupied(p)
    /\ commands < MaxCommands
    /\ commands' = commands + 1
    /\ overlap' = (overlap \/ \E q \in Procs : Busy(q) \/ Occupied(q))
    /\ UNCHANGED <<config, snapshots, now, proc, past>>

\* setup register: the detector skips a file it cannot read, and a client that
\* has the entry is done.
Register(p) ==
    /\ client # Torn
    /\ ~client.hub
    /\ SetupStarts(p)
    /\ reg' = [reg EXCEPT ![p].pc = "read", ![p].cmd = "register"]
    /\ UNCHANGED <<client, backup, good, tornBy>>

\* setup unregister: detected whether or not it has the entry.
Unregister(p) ==
    /\ client # Torn
    /\ SetupStarts(p)
    /\ reg' = [reg EXCEPT ![p].pc = "read", ![p].cmd = "unregister"]
    /\ UNCHANGED <<client, backup, good, tornBy>>

\* _read_json; unregister has nothing to do when the entry is not there.
Read(p) ==
    /\ reg[p].pc = "read"
    /\ IF client = Torn \/ (reg[p].cmd = "unregister" /\ ~client.hub)
       THEN Returns(p)
       ELSE reg' = [reg EXCEPT
                ![p].pc = IF reg[p].cmd = "register" THEN "backup" ELSE "write",
                ![p].data = client]
    /\ UNCHANGED <<client, backup, good, tornBy, storeVars>>

\* Mutant: a backup that is there is kept.
BackupOnce(p) ==
    /\ reg[p].pc = "backup"
    /\ IF backup = NoBackup
       THEN /\ reg' = [reg EXCEPT ![p].pc = "copying", ![p].content = client]
            /\ backup' = Torn
       ELSE Step(p, "write") /\ UNCHANGED backup
    /\ UNCHANGED <<client, good, tornBy, storeVars>>

\* shutil.copy2 to <file>.pre-hub-backup, as in ConfigStore.
BackupOpen(p) ==
    /\ reg[p].pc = "backup"
    /\ reg' = [reg EXCEPT ![p].pc = "copying", ![p].content = client]
    /\ backup' = Torn
    /\ UNCHANGED <<client, good, tornBy, storeVars>>

BackupClose(p) ==
    /\ reg[p].pc = "copying"
    /\ backup' \in {reg[p].content}
                   \cup {Torn : q \in {q \in Procs \ {p} : reg[q].pc = "copying"}}
    /\ Step(p, "write")
    /\ UNCHANGED <<client, good, tornBy, storeVars>>

\* write_text truncates the file...
WriteOpen(p) ==
    /\ reg[p].pc = "write"
    /\ client' = Torn
    /\ tornBy' = reg[p].cmd
    /\ Step(p, "writing")
    /\ UNCHANGED <<backup, good, storeVars>>

\* Mutant: the section is replaced.
UpdatedAlone(r) == [r.data EXCEPT !.hub = (r.cmd = "register"), !.entries = {}]

\* _inject_hub_entry, _remove_from_section
Updated(r) == [r.data EXCEPT !.hub = (r.cmd = "register")]

\* ...and fills it.
WriteClose(p) ==
    /\ reg[p].pc = "writing"
    /\ client' = Updated(reg[p])
    /\ good' = Updated(reg[p])
    /\ Returns(p)
    /\ UNCHANGED <<backup, tornBy, storeVars>>

\* An OSError while writing: register goes on to copy the backup back.
WriteFails(p) ==
    /\ reg[p].pc = "writing"
    /\ IF reg[p].cmd = "register" THEN Step(p, "recover") ELSE Returns(p)
    /\ UNCHANGED <<client, backup, good, tornBy, storeVars>>

\* (When the copy fails as well, the command ends as in SetupCrash.)
Recover(p) ==
    /\ reg[p].pc = "recover"
    /\ client' = backup
    /\ good' = IF backup \in ClientDoc THEN backup ELSE good
    /\ Returns(p)
    /\ UNCHANGED <<backup, tornBy, storeVars>>

\* The command is killed, or one of its steps fails for good.
SetupCrash(p) ==
    /\ Occupied(p)
    /\ Returns(p)
    /\ UNCHANGED <<client, backup, good, tornBy, storeVars>>

\* The client, or its user, adds or removes an entry of its own.
ClientEdits ==
    \E s \in Servers :
        /\ client # Torn
        /\ commands < MaxCommands
        /\ commands' = commands + 1
        /\ overlap' = (overlap \/ \E q \in Procs : Busy(q) \/ Occupied(q))
        /\ client' = [client EXCEPT !.entries =
               IF s \in client.entries THEN client.entries \ {s} ELSE client.entries \cup {s}]
        /\ good' = client'
        /\ UNCHANGED <<backup, reg, tornBy, config, snapshots, now, proc, past>>

\* setup import, config import: what the client's file lists goes to config.json.
Import(p) ==
    /\ client # Torn
    /\ ~Occupied(p)
    /\ Command(p, [op |-> "import", who |-> client.entries])
    /\ UNCHANGED clientVars

ClientStep(p) ==
    \/ Register(p)
    \/ Unregister(p)
    \/ Read(p)
    \/ BackupOpen(p)
    \/ BackupClose(p)
    \/ WriteOpen(p)
    \/ WriteClose(p)
    \/ WriteFails(p)
    \/ Recover(p)
    \/ SetupCrash(p)
    \/ Import(p)

FilesInit == ConfigInit /\ ClientInit

FilesNext ==
    \/ Tick /\ UNCHANGED clientVars
    \/ ClientEdits
    \/ \E p \in Procs :
          \/ ClientStep(p)
          \/ ~Occupied(p) /\ ConfigStep(p) /\ UNCHANGED clientVars

FilesSpec == FilesInit /\ [][FilesNext]_<<storeVars, clientVars>>

------------------------------------------------------------------------------
(* Properties *)

\* A client's file that `setup register' left unreadable, because it was killed
\* or because writing and copying back both failed, is in the backup as it was.
RegisterRecoverable ==
    ~overlap /\ client = Torn /\ tornBy = "register" => backup = good

\* A run of `setup' leaves the client's own entries as they were, whichever of
\* its steps fail.
ForeignEntriesKept ==
    [][ /\ ~overlap
        /\ client = Torn
        /\ client' # Torn
      => client'.entries = good.entries ]_<<storeVars, clientVars>>

==============================================================================
