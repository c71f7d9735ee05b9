------------------------------ MODULE ConfigFile ------------------------------
(***************************************************************************)
(* What config.json promises to those who read it (the hub at start and at *)
(* a reload, every command): it holds a complete document that comes from  *)
(* one edit of an earlier content, or an earlier content itself, and only  *)
(* a restore may leave it unreadable.                                      *)
(***************************************************************************)
CONSTANTS
    Servers,  \* names of backends
    Torn      \* a content that json.load refuses

VARIABLES
    file,      \* the content of config.json
    past,      \* every document it has held
    restoring  \* a restore is under way

fileVars == <<file, past, restoring>>

\* A document, as far as it concerns mcpServers: which backends it lists, and
\* which of these are enabled.
Doc == [Servers -> {"absent", "enabled", "disabled"}]

Listed(d) == {s \in Servers : d[s] # "absent"}

EmptyDoc == [s \in Servers |-> "absent"]

\* The commands that change the document, and what each makes of the one it
\* read: server add, remove and modify, import, config init.  A backend comes in
\* enabled: one that is added disabled is what add and then disable give.
Edits ==
    [op : {"add", "remove", "enable", "disable"}, who : {{s} : s \in Servers}]
        \cup [op : {"import"}, who : SUBSET Servers]
        \cup [op : {"init"}, who : {{}}]

\* The check that lets a command go on with the document it read.
Accepted(e, d) ==
    CASE e.op = "add" -> e.who \cap Listed(d) = {}
      [] e.op \in {"remove", "enable", "disable"} -> e.who \subseteq Listed(d)
      [] e.op = "import" -> e.who \ Listed(d) # {}
      [] e.op = "init" -> TRUE

Edited(e, d) ==
    [s \in Servers |->
        CASE e.op = "init" -> "absent"
          [] e.op = "import" /\ s \in e.who \ Listed(d) -> "enabled"
          [] e.op \in {"add", "enable"} /\ s \in e.who -> "enabled"
          [] e.op = "disable" /\ s \in e.who -> "disabled"
          [] e.op = "remove" /\ s \in e.who -> "absent"
          [] OTHER -> d[s]]

FileInit ==
    /\ file = EmptyDoc
    /\ past = {EmptyDoc}
    /\ restoring = FALSE

Holds(d) ==
    /\ file' = d
    /\ past' = past \cup {d}

\* A command takes effect at once; it may be the work on a content that is no
\* longer the current one.
Edit ==
    /\ \E d \in past, e \in Edits : Accepted(e, d) /\ Holds(Edited(e, d))
    /\ UNCHANGED restoring

\* A restore begins, or ends.
Switch ==
    /\ restoring' = ~restoring
    /\ UNCHANGED <<file, past>>

\* It writes in place: the file is unreadable at first, or for good...
Tear ==
    /\ restoring
    /\ file' = Torn
    /\ UNCHANGED past
    /\ restoring' \in BOOLEAN

\* ...and then holds an earlier content.
Restore ==
    /\ restoring
    /\ \E d \in past : Holds(d)
    /\ restoring' \in BOOLEAN

FileNext == Edit \/ Switch \/ Tear \/ Restore

FileSpec == FileInit /\ [][FileNext]_fileVars

==============================================================================
