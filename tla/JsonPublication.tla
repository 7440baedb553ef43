--------------------------- MODULE JsonPublication ---------------------------
(***************************************************************************)
(* How one JSON document is created, replaced, removed and read            *)
(* (crates/zhold-store: io/): a primary and a backup file in a directory   *)
(* whose entries reach the disk when it is synchronized.  Writers hold the *)
(* lock of their document, so that there is one at a time; readers need    *)
(* not.  Writers can fail or die between any two operations of the file    *)
(* system, and the power can go.                                           *)
(*                                                                         *)
(* A staging file is written and synchronized before it is renamed or      *)
(* linked into place, and nobody reads it: only its content is modelled.   *)
(***************************************************************************)
CONSTANTS
    Value,      \* contents of a document
    None,       \* no file
    Torn,       \* a file that does not parse
    Reader      \* processes that read the document without its lock

ASSUME JsonPublicationAssumption == None \notin Value /\ Torn \notin Value /\ None # Torn

VARIABLES
    kind,       \* "mutable" documents are replaced, a "journal" is created and removed
    dir,        \* the directory entries that processes see
    outcomes,   \* the directories that a loss of power can leave
    step,       \* the writer's next operation
    source,     \* JsonSource: which files its replacement started from
    asked,      \* the value it writes
    report,     \* what the last write returned
    at,         \* reader -> its next operation
    said, got,  \* reader -> what its last read returned, and with which value
    during      \* auxiliary: reader -> the document's values in the course of that read

diskVars == <<dir, outcomes>>
writerVars == <<step, source, asked, report>>
readerVars == <<at, said, got, during>>
vars == <<kind, diskVars, writerVars, readerVars>>

Entry == {"primary", "backup"}
Directory == [Entry -> Value \cup {None, Torn}]

\* The document in a directory, as read_json finds it: the primary, or else the backup.
Document(d) ==
    IF d["primary"] \in Value THEN d["primary"]
    ELSE IF d["backup"] \in Value THEN d["backup"] ELSE None

Missing == [e \in Entry |-> None]

\* What a loss of power can leave of the document.
Survivors == {Document(d) : d \in outcomes}

-----------------------------------------------------------------------------
(* The file system.  Each change that is not yet synchronized can be lost   *)
(* by itself; a rename is one change.                                      *)

\* Readers under way see the new directory.
Watch == during' = [r \in Reader |->
    IF at[r] = "idle" THEN during[r] ELSE during[r] \cup {Document(dir')}]

Set(entry, content) ==
    /\ dir' = [dir EXCEPT ![entry] = content]
    /\ outcomes' = outcomes \cup {[d EXCEPT ![entry] = content] : d \in outcomes}
    /\ Watch /\ UNCHANGED <<kind, at, said, got>>

Rename(from, to) ==
    LET moved(d) == [d EXCEPT ![from] = None, ![to] = dir[from]] IN
    /\ dir' = moved(dir)
    /\ outcomes' = outcomes \cup {moved(d) : d \in outcomes}
    /\ Watch /\ UNCHANGED <<kind, at, said, got>>

\* sync_metadata_directory.
Sync == outcomes' = {dir} /\ UNCHANGED <<kind, dir, readerVars>>

Goto(place) == step' = place /\ UNCHANGED <<source, asked, report>>

Return(answer) ==
    /\ step' = "idle" /\ source' = "Absent" /\ asked' = None
    /\ report' = answer

-----------------------------------------------------------------------------
(* Writing: upsert_json, create_json, write_json and remove_json.          *)

\* A document may be missing, whole, left with a backup by an interrupted
\* replacement, or have a primary that was damaged.
Init ==
    /\ kind \in {"mutable", "journal"}
    /\ dir \in Directory
    /\ dir["backup"] # Torn
    /\ dir["primary"] = Torn => dir["backup"] \in Value
    /\ kind = "journal" => dir["backup"] = None
    /\ outcomes = {dir}
    /\ step = "idle" /\ source = "Absent" /\ asked = None /\ report = "none"
    /\ at = [r \in Reader |-> "idle"] /\ said = [r \in Reader |-> "nothing"]
    /\ got = [r \in Reader |-> None] /\ during = [r \in Reader |-> {}]

\* Mutant of Source: whether a primary parses is not asked.
SourceUnread ==
    IF dir["primary"] # None
        THEN IF dir["backup"] = None THEN "PrimaryOnly" ELSE "PrimaryWithBackup"
        ELSE IF dir["backup"] = None THEN "Absent" ELSE "Backup"

\* publication_source: a primary that does not parse is passed over for a valid backup.
Source ==
    IF dir["primary"] \in Value
        THEN IF dir["backup"] = None THEN "PrimaryOnly" ELSE "PrimaryWithBackup"
        ELSE IF dir["backup"] = None THEN "Absent" ELSE "Backup"

FirstStep ==
    [Absent |-> "link",
     PrimaryOnly |-> "rotate",
     PrimaryWithBackup |-> "stabilize",
     Backup |-> IF dir["primary"] = None THEN "publish" ELSE "discard"]

\* upsert_json, and write_json of a document that was read just before: creates the
\* document when it is absent.
Upsert(v) ==
    /\ step = "idle" /\ kind = "mutable"
    /\ source' = Source /\ step' = FirstStep[Source]
    /\ asked' = v /\ report' = "none"
    /\ UNCHANGED <<kind, diskVars, readerVars>>

\* create_json of a journal.
Create(v) ==
    /\ step = "idle" /\ kind = "journal"
    /\ step' = "link" /\ asked' = v /\ report' = "none"
    /\ UNCHANGED <<kind, source, diskVars, readerVars>>

\* remove_json looks at the primary alone: it is called for documents that were created
\* and never replaced.
Remove ==
    /\ step = "idle" /\ kind = "journal"
    /\ step' = "remove" /\ asked' = None /\ report' = "none"
    /\ UNCHANGED <<kind, source, diskVars, readerVars>>

\* fs::hard_link fails on a file that exists.
Link ==
    /\ step = "link"
    /\ IF dir["primary"] = None
          THEN Set("primary", asked) /\ Goto("confirm")
          ELSE Return("existing") /\ UNCHANGED <<kind, diskVars, readerVars>>

\* Mutant of Stabilize: a primary that was left unconfirmed is taken as it is.
StabilizeNothing ==
    /\ step = "stabilize" /\ Goto("dropBackup") /\ UNCHANGED <<kind, diskVars, readerVars>>

\* stabilize_primary: a replacement whose durability was not confirmed is synchronized
\* before the backup behind it goes.
Stabilize == step = "stabilize" /\ Sync /\ Goto("dropBackup")

DropBackup == step = "dropBackup" /\ Set("backup", None) /\ Goto("syncDrop")

SyncDrop == step = "syncDrop" /\ Sync /\ Goto("rotate")

Rotate == step = "rotate" /\ Rename("primary", "backup") /\ Goto("syncRotation")

\* A rejected primary is not rotated over the backup.
Discard == step = "discard" /\ Set("primary", None) /\ Goto("syncRotation")

SyncRotation == step = "syncRotation" /\ Sync /\ Goto("publish")

\* The staging file becomes the primary.
Publish == step = "publish" /\ Set("primary", asked) /\ Goto("confirm")

\* When that rename fails the rotated primary is put back, synchronized or not.
Restore ==
    /\ step = "publish" /\ source \in {"PrimaryOnly", "PrimaryWithBackup"}
    /\ Rename("backup", "primary") /\ Return("failed")

\* Mutant of Confirm: the error of the synchronization is dropped.
ConfirmUnsynced ==
    /\ step = "confirm"
    /\ \/ Sync
       \/ UNCHANGED <<kind, diskVars, readerVars>>
    /\ IF dir["backup"] # None THEN Goto("cleanup") ELSE Return("durable")

\* create_json: the synchronization makes the link durable, or leaves it unconfirmed; that
\* the staging file cannot be removed is a warning.
ConfirmCreation ==
    /\ step = "confirm" /\ source = "Absent"
    /\ \/ Sync /\ Return("durable")
       \/ Return("unconfirmed") /\ UNCHANGED <<kind, diskVars, readerVars>>

\* replace_with_backup looks for the backup after it, and an error there is one of the
\* write.
ConfirmReplacement ==
    /\ step = "confirm" /\ source # "Absent"
    /\ \/ /\ Sync
          /\ \/ IF dir["backup"] # None THEN Goto("cleanup") ELSE Return("durable")
             \/ Return("failed")
       \/ Return("unconfirmed") /\ UNCHANGED <<kind, diskVars, readerVars>>

Confirm == ConfirmCreation \/ ConfirmReplacement

\* The backup is removed; an error is a warning, and so is one of the last
\* synchronization.
Cleanup ==
    /\ step = "cleanup"
    /\ \/ Set("backup", None) /\ Goto("syncCleanup")
       \/ Return("durable") /\ UNCHANGED <<kind, diskVars, readerVars>>

SyncCleanup ==
    /\ step = "syncCleanup" /\ Return("durable")
    /\ \/ Sync
       \/ UNCHANGED <<kind, diskVars, readerVars>>

RemovePrimary ==
    /\ step = "remove"
    /\ IF dir["primary"] # None
          THEN Set("primary", None) /\ Goto("syncRemoval")
          ELSE Return("failed") /\ UNCHANGED <<kind, diskVars, readerVars>>

SyncRemoval == step = "syncRemoval" /\ Sync /\ Return("durable")

\* An operation of the file system fails, and the write returns its error.
Fail ==
    /\ step \notin {"idle", "confirm", "cleanup", "syncCleanup"}
    /\ Return("failed")
    /\ UNCHANGED <<kind, diskVars, readerVars>>

\* The writer dies.
Die ==
    /\ step # "idle" /\ Return("none")
    /\ UNCHANGED <<kind, diskVars, readerVars>>

-----------------------------------------------------------------------------
(* Reading: read_json and read_optional_json.                              *)

Answer(r, what, v) ==
    /\ at' = [at EXCEPT ![r] = "idle"]
    /\ said' = [said EXCEPT ![r] = what]
    /\ got' = [got EXCEPT ![r] = v]

Look(r, place) == at' = [at EXCEPT ![r] = place] /\ UNCHANGED <<said, got>>

StartRead(r) ==
    /\ at[r] = "idle"
    /\ \E place \in {"readPrimary", "classify"} : at' = [at EXCEPT ![r] = place]
    /\ said' = [said EXCEPT ![r] = "nothing"]
    /\ got' = [got EXCEPT ![r] = None]
    /\ during' = [during EXCEPT ![r] = {Document(dir)}]
    /\ UNCHANGED <<kind, diskVars, writerVars>>

\* json_document_state looks at one path and then at the other.
Classify(r) ==
    /\ at[r] = "classify"
    /\ Look(r, IF dir["primary"] = None THEN "classifyBackup" ELSE "readPrimary")
    /\ UNCHANGED <<kind, diskVars, writerVars, during>>

ClassifyBackup(r) ==
    /\ at[r] = "classifyBackup"
    /\ IF dir["backup"] = None
          THEN Answer(r, "absent", None)
          ELSE Look(r, "readPrimary")
    /\ UNCHANGED <<kind, diskVars, writerVars, during>>

\* Mutant of ReadPrimary: a backup is preferred to the primary.
ReadBackupFirst(r) ==
    /\ at[r] = "readPrimary"
    /\ IF dir["backup"] \in Value
          THEN Answer(r, "value", dir["backup"])
          ELSE Answer(r, "value", Document(dir))
    /\ UNCHANGED <<kind, diskVars, writerVars, during>>

ReadPrimary(r) ==
    /\ at[r] = "readPrimary"
    /\ IF dir["primary"] \in Value
          THEN Answer(r, "value", dir["primary"])
          ELSE Look(r, "readBackup")
    /\ UNCHANGED <<kind, diskVars, writerVars, during>>

\* A missing or damaged primary sends the reader to the backup; without one, the read
\* fails.
ReadBackup(r) ==
    /\ at[r] = "readBackup"
    /\ IF dir["backup"] \in Value
          THEN Answer(r, "value", dir["backup"])
          ELSE Answer(r, "error", None)
    /\ UNCHANGED <<kind, diskVars, writerVars, during>>

-----------------------------------------------------------------------------
(* The power goes: every process dies, and what was not synchronized may be *)
(* lost.                                                                   *)
PowerLoss ==
    /\ dir' \in outcomes /\ outcomes' = {dir'}
    /\ Return("none")
    /\ at' = [r \in Reader |-> "idle"] /\ said' = [r \in Reader |-> "nothing"]
    /\ got' = [r \in Reader |-> None] /\ during' = [r \in Reader |-> {}]
    /\ UNCHANGED kind

Begin == Remove \/ \E v \in Value : Upsert(v) \/ Create(v)

Replace ==
    \/ Stabilize \/ DropBackup \/ SyncDrop \/ Rotate \/ Discard \/ SyncRotation
    \/ Publish \/ Restore \/ Confirm \/ Cleanup \/ SyncCleanup

Write == Begin \/ Link \/ Replace \/ RemovePrimary \/ SyncRemoval \/ Fail \/ Die

Read(r) == StartRead(r) \/ Classify(r) \/ ClassifyBackup(r) \/ ReadPrimary(r) \/ ReadBackup(r)

Next == Write \/ PowerLoss \/ \E r \in Reader : Read(r)

Spec == Init /\ [][Next]_vars

-----------------------------------------------------------------------------
(* Properties.                                                             *)

Step == {"idle", "link", "stabilize", "dropBackup", "syncDrop", "rotate", "discard",
         "syncRotation", "publish", "confirm", "cleanup", "syncCleanup", "remove",
         "syncRemoval"}

\* Every variable keeps to its type.
TypeOK ==
    /\ kind \in {"mutable", "journal"}
    /\ dir \in Directory
    /\ outcomes \in SUBSET Directory
    /\ step \in Step
    /\ source \in {"Absent", "PrimaryOnly", "PrimaryWithBackup", "Backup"}
    /\ asked \in Value \cup {None}
    /\ report \in {"none", "durable", "unconfirmed", "existing", "failed"}
    /\ at \in [Reader -> {"idle", "readPrimary", "readBackup", "classify", "classifyBackup"}]
    /\ said \in [Reader -> {"nothing", "value", "absent", "error"}]
    /\ got \in [Reader -> Value \cup {None}]
    /\ during \in [Reader -> SUBSET (Value \cup {None})]

\* The two files, however many writes failed, died or lost their power in between,
\* behave as one document that changes at once, and "durable" is said of a value that
\* no loss of power can take back.
Atomic == INSTANCE AtomicDocument WITH
    value <- Document(dir),
    survivors <- Survivors,
    request <- IF step = "idle" THEN {} ELSE {asked}

AtomicSpec == Atomic!Spec

\* A mutable document that no loss of power could take away stays so: neither a failed
\* replacement nor a sequence of them leaves a directory without a valid generation.
DocumentKept ==
    [][kind = "mutable" /\ None \notin Survivors => None \notin Survivors']_vars

\* A reader without the lock gets a value that was the document's at some moment of its
\* read, although it looks at the two files at different moments of a replacement.
ReadsCurrent == \A r \in Reader : said[r] = "value" => got[r] \in during[r]

\* docs/store-format.md:78-79: optional reads report absence only when both paths are
\* absent.
AbsentMeansAbsent == \A r \in Reader : said[r] = "absent" => None \in during[r]

-----------------------------------------------------------------------------
(* An inductive invariant.                                                 *)

Whole(content) == content \in Value

\* What the writer knows of the directory before each of its operations.
WriterOK ==
    /\ step \in {"stabilize", "dropBackup", "syncDrop", "rotate"} => Whole(dir["primary"])
    /\ step \in {"syncDrop", "rotate"} => dir["backup"] = None
    /\ step \in {"discard", "syncRotation", "publish"} => Whole(dir["backup"])
    /\ step = "discard" => dir["primary"] = Torn
    /\ step \in {"syncRotation", "publish"} => dir["primary"] = None
    /\ step \in {"confirm", "cleanup", "syncCleanup"} => dir["primary"] = asked
    /\ step \notin {"idle", "remove", "syncRemoval"} => Whole(asked)
    /\ step = "link" => dir["backup"] = None
    /\ step = "syncRemoval" => dir["primary"] = None
    /\ step \in {"idle", "remove", "syncRemoval"} => asked = None

\* What it knows of the directories that a loss of power can leave: a backup goes only
\* when the primary before it is on the disk.
OutcomesOK ==
    /\ dir \in outcomes
    /\ \A d \in outcomes :
          /\ d["backup"] # Torn
          /\ d["primary"] = Torn => Whole(d["backup"])
          /\ kind = "journal" => d["backup"] = None
          /\ step \in {"dropBackup", "cleanup"} => d = dir
          /\ step \in {"syncDrop", "syncCleanup"} => d["primary"] = dir["primary"]
    /\ dir["primary"] = Torn => outcomes = {dir} /\ step \in {"idle", "discard"}

\* Which operations a document of each kind sees.
KindOK ==
    IF kind = "journal"
    THEN step \in {"idle", "link", "confirm", "remove", "syncRemoval"}
    ELSE step \notin {"remove", "syncRemoval"}

\* A reader has seen the document's value, and the backup it is about to read was one.
ReaderOK ==
    \A r \in Reader :
        /\ at[r] # "idle" => Document(dir) \in during[r]
        /\ at[r] = "readBackup" /\ Whole(dir["backup"]) => dir["backup"] \in during[r]

\* The inductive invariant: it relates what is visible to what can be left, at each
\* operation of the writer, and what a reader has seen to what it will return.
Inv == TypeOK /\ WriterOK /\ OutcomesOK /\ KindOK /\ ReaderOK /\ ReadsCurrent

=============================================================================
