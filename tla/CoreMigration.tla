---------------------------- MODULE CoreMigration ----------------------------
(***************************************************************************)
(* migrate-core and init-core: a new database and data directory are       *)
(* filled from an old installation, step by step, and accepted by          *)
(* coreReady only when they are verified (core_migration.go,               *)
(* core_media.go, main.go).                                                *)
(*                                                                         *)
(* A run may stop at any step and be started again; in between the old     *)
(* program may have been put back into service.  The operator keeps the    *)
(* promise of MIGRATION_SOURCE_QUIESCED while a run lasts, runs one of the *)
(* two commands at a time and retires the old program once the new         *)
(* database is verified.                                                   *)
(***************************************************************************)
EXTENDS Integers, FiniteSets

CONSTANTS
    Media,      \* relative paths of files
    MaxWrites,  \* bound: changes of the old installation
    MaxStops    \* bound: runs that are cut short

ASSUME MigrationConstants ==
    /\ IsFiniteSet(Media)
    /\ {MaxWrites, MaxStops} \subseteq Nat

VARIABLES
    quiet,      \* the old program is stopped
    pending,    \* it has outbox rows that are not published
    oldRows,    \* its tables: the videos by their files, and all other columns
    oldFiles,   \* its data directory
    schema,     \* tables of the target: none, those of the core, or all of them
    marker,     \* the row core_migrations
    newRows,    \* the target's tables
    newFiles,   \* the target's data directory
    job,        \* the run of migrate-core or init-core
    serving,    \* the new program has passed coreReady
    writes,
    stops

migrationVars == <<quiet, pending, oldRows, oldFiles, schema, marker, newRows, newFiles, job,
                   serving, writes, stops>>

oldVars == <<quiet, pending, oldRows, oldFiles, writes>>

-----------------------------------------------------------------------------
\* The digest of a file is its content; "" stands for no file and "part" for the
\* beginning of one.
Content == {"", "a", "b"}

\* The tables coreVerifyColumns names: the videos by their files, the data directory
\* that stored_path of an upload lies in, and the number of changes in all other
\* columns.  The outbox, of which migrateCore wants every row published, and
\* processed_events are copied too, are not digested, and are not in the model.
Rows == [videos: SUBSET Media, root: {"old", "new"}, other: Nat]

NoRows(root) == [videos |-> {}, root |-> root, other |-> 0]

\* migratedUploadPath: the same file below the new directory.
MigratedRows(rows) == [rows EXCEPT !.root = "new"]

\* What the counts of finishCoreMigration see of the tables.
Counts(rows) == Cardinality(rows.videos)

NoMarker == [state |-> "none"]

Marker == [state: {"prepared", "copied", "verified"}, from: {"old", "fresh"}]

IdleJob == [pc |-> "idle"]

\* next: what follows copyCoreMedia; counts: taken when the run began.
Job == [pc: {"marker", "manifest", "copy", "schema", "rows", "finish", "verified"},
        next: {"schema", "finish"}, counts: Nat, manifest: [Media -> Content]]
       \cup [pc: {"init"}]

MigrationTypeOK ==
    /\ {quiet, pending, serving} \subseteq BOOLEAN
    /\ oldRows \in Rows
    /\ oldFiles \in [Media -> Content]
    /\ schema \in {"none", "core", "full"}
    /\ marker \in Marker \cup {NoMarker}
    /\ marker # NoMarker => schema = "full"
    /\ newRows \in Rows
    /\ newFiles \in [Media -> Content \cup {"part"}]
    /\ job \in Job \cup {IdleJob}
    /\ writes \in 0..MaxWrites
    /\ stops \in 0..MaxStops

MigrationInit ==
    /\ quiet = FALSE
    /\ pending = FALSE
    /\ oldRows = NoRows("old")
    /\ oldFiles = [f \in Media |-> ""]
    /\ schema = "none"
    /\ marker = NoMarker
    /\ newRows = NoRows("new")
    /\ newFiles = [f \in Media |-> ""]
    /\ job = IdleJob
    /\ serving = FALSE
    /\ writes = 0
    /\ stops = 0

Goes(pc) == job' = [job EXCEPT !.pc = pc]

-----------------------------------------------------------------------------
(* The old installation and its operator.                                  *)

OldWrite ==
    /\ ~quiet
    /\ writes < MaxWrites
    /\ writes' = writes + 1
    /\ UNCHANGED <<quiet, schema, marker, newRows, newFiles, job, serving, stops>>

\* A video: its file, its row and its event.
OldPublish(f) ==
    /\ f \notin oldRows.videos
    /\ OldWrite
    /\ oldFiles' = [oldFiles EXCEPT ![f] = "a"]
    /\ oldRows' = [oldRows EXCEPT !.videos = @ \cup {f}]
    /\ pending' = TRUE

\* A profile, a title, a read mark: no row more.
OldEdit ==
    /\ OldWrite
    /\ oldRows' = [oldRows EXCEPT !.other = @ + 1]
    /\ UNCHANGED <<oldFiles, pending>>

\* A fragment of an upload comes, changes or goes.
OldFragment(f, x) ==
    /\ f \notin oldRows.videos
    /\ oldFiles[f] # x
    /\ OldWrite
    /\ oldFiles' = [oldFiles EXCEPT ![f] = x]
    /\ UNCHANGED <<oldRows, pending>>

OldDrain ==
    /\ ~quiet /\ pending
    /\ pending' = FALSE
    /\ UNCHANGED <<quiet, oldRows, oldFiles, schema, marker, newRows, newFiles, job, serving,
                   writes, stops>>

\* The operator stops the old program or, no run being under way, starts it again.
Quiesce ==
    /\ job = IdleJob
    /\ marker.state # "verified"
    /\ quiet' = ~quiet
    /\ UNCHANGED <<pending, oldRows, oldFiles, schema, marker, newRows, newFiles, job, serving,
                   writes, stops>>

-----------------------------------------------------------------------------
(* migrateCore.                                                            *)

\* validateMigrationMedia
MediaValid == \A f \in oldRows.videos : oldFiles[f] # ""

\* The checks of the source, and the counts.
MigrateBegin ==
    /\ job = IdleJob
    /\ quiet
    /\ ~pending
    /\ MediaValid
    /\ job' = [pc |-> "marker", next |-> "schema", counts |-> Counts(oldRows), manifest |-> oldFiles]
    /\ UNCHANGED <<oldVars, schema, marker, newRows, newFiles, serving, stops>>

\* What a marker allows: nothing without a row in its table, after another source
\* or after verification.
MarkerAllows ==
    \/ marker = NoMarker /\ schema = "none"
    \/ marker # NoMarker /\ marker.from = "old" /\ marker.state # "verified"

CheckMarker ==
    /\ job.pc = "marker"
    /\ IF MarkerAllows
       THEN job' = [job EXCEPT !.pc = "manifest",
                               !.next = IF marker.state = "copied" THEN "finish" ELSE "schema"]
       ELSE job' = IdleJob
    /\ UNCHANGED <<oldVars, schema, marker, newRows, newFiles, serving, stops>>

\* copyCoreMedia: the digests of the source; the target may hold some of these
\* files and no other.
MediaManifest ==
    /\ job.pc = "manifest"
    /\ IF \A f \in Media : newFiles[f] \in {"", oldFiles[f]}
       THEN job' = [job EXCEPT !.pc = "copy", !.manifest = oldFiles]
       ELSE job' = IdleJob
    /\ UNCHANGED <<oldVars, schema, marker, newRows, newFiles, serving, stops>>

\* A file the target does not have yet is created and its digest compared.
CopyMedia(f) ==
    /\ job.pc = "copy"
    /\ newFiles[f] = "" /\ job.manifest[f] # ""
    /\ newFiles' = [newFiles EXCEPT ![f] = oldFiles[f]]
    /\ UNCHANGED <<oldVars, schema, marker, newRows, job, serving, stops>>

\* The files of the manifest must not have changed meanwhile; one that appeared
\* since is not looked for.
MediaRecheck ==
    /\ job.pc = "copy"
    /\ \A f \in Media : newFiles[f] = job.manifest[f]
    /\ IF \A f \in Media : job.manifest[f] # "" => oldFiles[f] = job.manifest[f]
       THEN Goes(job.next)
       ELSE job' = IdleJob
    /\ UNCHANGED <<oldVars, schema, marker, newRows, newFiles, serving, stops>>

\* prepareCoreSchema: the tables of the core first, then the others.
PrepareSchema ==
    /\ job.pc \in {"schema", "init"}
    /\ schema # "full"
    /\ schema' = IF schema = "none" THEN "core" ELSE "full"
    /\ UNCHANGED <<oldVars, marker, newRows, newFiles, job, serving, stops>>

\* Mutant: the marker does not wait for its own table.
PreparedCore == schema # "none"

Prepared == schema = "full"

\* The tables must be empty; then the marker is saved.
SaveMarker ==
    /\ job.pc = "schema"
    /\ Prepared
    /\ IF newRows = NoRows("new")
       THEN /\ marker' = [state |-> "prepared", from |-> "old"]
            /\ Goes("rows")
       ELSE job' = IdleJob /\ UNCHANGED marker
    /\ UNCHANGED <<oldVars, schema, newRows, newFiles, serving, stops>>

\* copyCoreData and the marker in one transaction, from one snapshot.
CopyRows ==
    /\ job.pc = "rows"
    /\ newRows' = MigratedRows(oldRows)
    /\ marker' = [marker EXCEPT !.state = "copied"]
    /\ Goes("finish")
    /\ UNCHANGED <<oldVars, schema, newFiles, serving, stops>>

\* Mutant: the contents are compared by number only.
ContentsAgreeCount == Counts(newRows) = Counts(oldRows)

\* verifyCoreContents: the digests of the eleven tables of both sides, the old
\* paths translated.
ContentsAgree == newRows = MigratedRows(oldRows)

\* finishCoreMigration up to the marker: the views, the counts, the contents, the
\* integrity of references and the embeddings.
FinishVerify ==
    /\ job.pc = "finish"
    /\ IF Counts(newRows) = job.counts /\ ContentsAgree
       THEN Goes("verified")
       ELSE job' = IdleJob
    /\ UNCHANGED <<oldVars, schema, marker, newRows, newFiles, serving, stops>>

FinishMark ==
    /\ job.pc = "verified"
    /\ marker' = [marker EXCEPT !.state = "verified"]
    /\ job' = IdleJob
    /\ UNCHANGED <<oldVars, schema, newRows, newFiles, serving, stops>>

-----------------------------------------------------------------------------
(* init-core, the start of the new program, and stops.                     *)

\* initializeCoreDatabase goes on in an empty database only.
InitCore ==
    /\ job = IdleJob
    /\ schema = "none"
    /\ job' = [pc |-> "init"]
    /\ UNCHANGED <<oldVars, schema, marker, newRows, newFiles, serving, stops>>

InitMark ==
    /\ job.pc = "init"
    /\ Prepared
    /\ marker' = [state |-> "verified", from |-> "fresh"]
    /\ job' = IdleJob
    /\ UNCHANGED <<oldVars, schema, newRows, newFiles, serving, stops>>

CoreReady == marker.state = "verified"

Serve ==
    /\ ~serving
    /\ CoreReady
    /\ serving' = TRUE
    /\ UNCHANGED <<oldVars, schema, marker, newRows, newFiles, job, stops>>

\* The command fails or dies; a file may be left half written.
Stop ==
    /\ job # IdleJob
    /\ stops < MaxStops
    /\ stops' = stops + 1
    /\ job' = IdleJob
    /\ \/ UNCHANGED newFiles
       \/ \E f \in Media :
             /\ job.pc = "copy" /\ newFiles[f] = "" /\ job.manifest[f] # ""
             /\ newFiles' = [newFiles EXCEPT ![f] = "part"]
    /\ UNCHANGED <<oldVars, schema, marker, newRows, serving>>

MigrationNext ==
    \/ \E f \in Media : OldPublish(f) \/ CopyMedia(f) \/ \E x \in Content : OldFragment(f, x)
    \/ OldEdit \/ OldDrain \/ Quiesce
    \/ MigrateBegin \/ CheckMarker \/ MediaManifest \/ MediaRecheck \/ PrepareSchema
    \/ SaveMarker \/ CopyRows \/ FinishVerify \/ FinishMark
    \/ InitCore \/ InitMark \/ Serve \/ Stop

MigrationSpec == MigrationInit /\ [][MigrationNext]_migrationVars

-----------------------------------------------------------------------------
\* The new program serves from a fresh database, or from one that holds all and
\* only what the old installation held when it was retired, rows and files, each
\* file whole: however many runs of migrate-core were cut short before, at
\* whichever step, and whatever the old program changed between them (migrateCore,
\* copyCoreMedia, finishCoreMigration, coreReady).
CutoverWhole ==
    serving =>
        \/ /\ marker.from = "fresh"
           /\ newRows = NoRows("new")
        \/ /\ marker.from = "old"
           /\ newRows = MigratedRows(oldRows)
           /\ newFiles = oldFiles
=============================================================================
