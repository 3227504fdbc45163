----------------------------- MODULE MediaProofs -----------------------------
(***************************************************************************)
(* Proofs about files and rows that must agree: the migration of an old    *)
(* installation, and uploads and their videos.                             *)
(***************************************************************************)
EXTENDS MCMedia, FiniteSetTheorems, TLAPS

-----------------------------------------------------------------------------
(***************************************************************************)
(* The migration.  What a run has established is kept by its place in the  *)
(* program and by the marker, and the source does not move under it.       *)
(***************************************************************************)
OldMarker(state) == [state |-> state, from |-> "old"]

\* What is so at each place of a run.
JobInv ==
    /\ job # IdleJob /\ job.pc # "init" => quiet = TRUE
    /\ job.pc = "init" => marker = NoMarker
    /\ job.pc \in {"manifest", "copy"} =>
          /\ marker \in {NoMarker, OldMarker("prepared"), OldMarker("copied")}
          /\ job.next = IF marker = OldMarker("copied") THEN "finish" ELSE "schema"
    /\ job.pc = "copy" => job.manifest = oldFiles
    /\ job.pc = "schema" => marker \in {NoMarker, OldMarker("prepared")}
    /\ job.pc = "rows" => marker = OldMarker("prepared")
    /\ job.pc \in {"finish", "verified"} => marker = OldMarker("copied")
    /\ job.pc \in {"schema", "rows", "finish", "verified"} => newFiles = oldFiles
    /\ job.pc = "verified" => newRows = MigratedRows(oldRows)

\* What the marker says of the target.
MarkerInv ==
    /\ newRows = NoRows("new") \/ marker \in {OldMarker("copied"), OldMarker("verified")}
    /\ marker = OldMarker("verified") =>
          quiet = TRUE /\ newRows = MigratedRows(oldRows) /\ newFiles = oldFiles
    /\ serving = TRUE => marker.state = "verified"

MigrationInv == MigrationTypeOK /\ JobInv /\ MarkerInv

\* The runs of the two commands.
LEMMA JobTypes ==
    /\ \A j \in Job \cup {IdleJob} :
          /\ j.pc \in {"idle", "init", "marker", "manifest", "copy", "schema", "rows", "finish",
                       "verified"}
          /\ j.pc = "idle" <=> j = IdleJob
          /\ j.pc \notin {"idle", "init"} =>
                /\ j.next \in {"schema", "finish"} /\ j.counts \in Nat
                /\ j.manifest \in [Media -> Content]
                /\ \A pc \in {"manifest", "copy", "schema", "rows", "finish", "verified"} :
                      /\ [j EXCEPT !.pc = pc] \in Job
                      /\ [j EXCEPT !.pc = pc].pc = pc
                      /\ [j EXCEPT !.pc = pc].next = j.next
                      /\ [j EXCEPT !.pc = pc].manifest = j.manifest
<1> DEFINE Run == [pc: {"marker", "manifest", "copy", "schema", "rows", "finish", "verified"},
                   next: {"schema", "finish"}, counts: Nat, manifest: [Media -> Content]]
<1>1. ASSUME NEW j \in Run
      PROVE  /\ j.pc \in {"marker", "manifest", "copy", "schema", "rows", "finish", "verified"}
             /\ j.next \in {"schema", "finish"} /\ j.counts \in Nat
             /\ j.manifest \in [Media -> Content]
             /\ \A pc \in {"manifest", "copy", "schema", "rows", "finish", "verified"} :
                   /\ [j EXCEPT !.pc = pc] \in Run /\ [j EXCEPT !.pc = pc].pc = pc
                   /\ [j EXCEPT !.pc = pc].next = j.next
                   /\ [j EXCEPT !.pc = pc].manifest = j.manifest
  OBVIOUS
<1>2. \A j \in [pc: {"init"}] : j.pc = "init"
  OBVIOUS
<1>3. IdleJob.pc = "idle"
  BY DEF IdleJob
<1>4. Job = Run \cup [pc: {"init"}]
  BY DEF Job
<1> HIDE DEF Run
<1>5. SUFFICES ASSUME NEW j \in Job \cup {IdleJob}
              PROVE  /\ j.pc \in {"idle", "init", "marker", "manifest", "copy", "schema", "rows",
                                  "finish", "verified"}
                     /\ j.pc = "idle" <=> j = IdleJob
                     /\ j.pc \notin {"idle", "init"} =>
                           /\ j.next \in {"schema", "finish"} /\ j.counts \in Nat
                           /\ j.manifest \in [Media -> Content]
                           /\ \A pc \in {"manifest", "copy", "schema", "rows", "finish", "verified"} :
                                 /\ [j EXCEPT !.pc = pc] \in Job
                                 /\ [j EXCEPT !.pc = pc].pc = pc
                                 /\ [j EXCEPT !.pc = pc].next = j.next
                                 /\ [j EXCEPT !.pc = pc].manifest = j.manifest
  OBVIOUS
<1>6. CASE j \in Run
  <2>1. \A pc \in {"manifest", "copy", "schema", "rows", "finish", "verified"} :
           [j EXCEPT !.pc = pc] \in Job
    BY <1>1, <1>4, <1>6
  <2>2. /\ j.pc \in {"marker", "manifest", "copy", "schema", "rows", "finish", "verified"}
        /\ j.next \in {"schema", "finish"} /\ j.counts \in Nat
        /\ j.manifest \in [Media -> Content]
    BY <1>1, <1>6
  <2>3. j # IdleJob /\ j.pc # "idle"
    BY <1>3, <2>2
  <2>4. \A pc \in {"manifest", "copy", "schema", "rows", "finish", "verified"} :
           /\ [j EXCEPT !.pc = pc].pc = pc
           /\ [j EXCEPT !.pc = pc].next = j.next
           /\ [j EXCEPT !.pc = pc].manifest = j.manifest
    BY <1>1, <1>6
  <2>5. j.pc \in {"idle", "init", "marker", "manifest", "copy", "schema", "rows",
                  "finish", "verified"}
    BY <2>2
  <2>6. QED
    BY <2>1, <2>2, <2>3, <2>4, <2>5, Zenon
<1>7. CASE j \in [pc: {"init"}]
  <2>1. j.pc = "init"
    BY <1>2, <1>7
  <2>2. QED
    BY <1>3, <2>1
<1>8. CASE j = IdleJob
  BY <1>3, <1>8
<1>9. QED
  BY <1>4, <1>6, <1>7, <1>8

\* The markers.
LEMMA MarkerTypes ==
    /\ \A s \in {"prepared", "copied", "verified"} :
          /\ OldMarker(s) \in Marker /\ OldMarker(s).state = s /\ OldMarker(s).from = "old"
          /\ OldMarker(s) # NoMarker
    /\ \A m \in Marker \cup {NoMarker} :
          /\ m.state \in {"none", "prepared", "copied", "verified"}
          /\ m.state = "none" <=> m = NoMarker
          /\ m # NoMarker => m.from \in {"old", "fresh"}
          /\ m # NoMarker /\ m.from = "old" => m = OldMarker(m.state)
          /\ m # NoMarker /\ m.from = "fresh" => m = [state |-> m.state, from |-> "fresh"]
<1>1. ASSUME NEW m \in Marker
      PROVE  /\ m.state \in {"prepared", "copied", "verified"} /\ m.from \in {"old", "fresh"}
             /\ m = [state |-> m.state, from |-> m.from]
  BY DEF Marker
<1>2. ASSUME NEW s \in {"prepared", "copied", "verified"}
      PROVE  OldMarker(s) \in Marker /\ OldMarker(s).state = s /\ OldMarker(s).from = "old"
  BY DEF OldMarker, Marker
<1>3. NoMarker.state = "none"
  BY DEF NoMarker
<1>4. QED
  BY <1>1, <1>2, <1>3 DEF OldMarker

\* A new target holds nothing.
LEMMA MigrationInvInit == MigrationInit => MigrationInv
<1> SUFFICES ASSUME MigrationInit PROVE MigrationInv
  OBVIOUS
<1>1. /\ quiet = FALSE /\ pending = FALSE /\ serving = FALSE
      /\ oldRows = NoRows("old") /\ oldFiles = [f \in Media |-> ""]
      /\ schema = "none" /\ marker = NoMarker /\ newRows = NoRows("new")
      /\ newFiles = [f \in Media |-> ""] /\ job = IdleJob /\ writes = 0 /\ stops = 0
  BY DEF MigrationInit
<1>2. NoRows("old") \in Rows /\ NoRows("new") \in Rows
  BY DEF NoRows, Rows
<1>3. {quiet, pending, serving} \subseteq BOOLEAN
  BY <1>1, Zenon
<1>4. writes \in 0..MaxWrites /\ stops \in 0..MaxStops
  <2>1. MaxWrites \in Nat /\ MaxStops \in Nat
    BY MigrationConstants
  <2>2. writes = 0 /\ stops = 0
    BY DEF MigrationInit
  <2>3. QED
    BY <2>1, <2>2
<1>5. MigrationTypeOK
  BY <1>1, <1>2, <1>3, <1>4 DEF MigrationTypeOK, Content
<1>6. job.pc = "idle"
  BY <1>1 DEF IdleJob
<1>7. JobInv
  BY <1>1, <1>6 DEF JobInv
<1>8. MarkerInv
  BY <1>1, MarkerTypes DEF MarkerInv
<1>9. QED
  BY <1>5, <1>7, <1>8 DEF MigrationInv


\* A run that ends, or that has not begun, promises nothing.
LEMMA IdleKeeps == job' = IdleJob => JobInv'
<1> SUFFICES ASSUME job' = IdleJob PROVE JobInv'
  OBVIOUS
<1>1. job'.pc = "idle"
  BY DEF IdleJob
<1>2. QED
  BY <1>1 DEF JobInv

\* Nothing is in the way of the old program unless it is stopped.
LEMMA OldSideMoves ==
    ASSUME MigrationInv, quiet # TRUE, UNCHANGED <<quiet, marker, newRows, newFiles, job, serving>>
    PROVE  JobInv' /\ MarkerInv'
<1>1. job \in Job \cup {IdleJob}
  BY DEF MigrationInv, MigrationTypeOK
<1>2. job = IdleJob \/ job.pc = "init"
  BY DEF MigrationInv, JobInv
<1>3. JobInv'
  <2>1. CASE job = IdleJob
    BY <2>1, IdleKeeps
  <2>2. CASE job.pc = "init"
    <3>1. marker = NoMarker
      BY <2>2 DEF MigrationInv, JobInv
    <3>2. marker' = NoMarker /\ job'.pc = "init"
      BY <2>2, <3>1
    <3>3. QED
      BY <3>2 DEF JobInv
  <2>3. QED
    BY <1>2, <2>1, <2>2
<1>4. marker # OldMarker("verified")
  BY DEF MigrationInv, MarkerInv
<1>5. MarkerInv'
  <2>1. newRows = NoRows("new") \/ marker \in {OldMarker("copied"), OldMarker("verified")}
    BY DEF MigrationInv, MarkerInv
  <2>2. serving = TRUE => marker.state = "verified"
    BY DEF MigrationInv, MarkerInv
  <2>3. QED
    BY <1>4, <2>1, <2>2 DEF MarkerInv
<1>6. QED
  BY <1>3, <1>5

\* The old program changes its tables and its directory within their types.
LEMMA OldTyped ==
    ASSUME MigrationInv,
           \/ \E f \in Media : OldPublish(f) \/ \E x \in Content : OldFragment(f, x)
           \/ OldEdit \/ OldDrain
    PROVE  MigrationInv'
<1>1. quiet # TRUE /\ UNCHANGED <<quiet, marker, newRows, newFiles, job, serving>>
  <2>1. ~quiet
    BY Zenon DEF OldPublish, OldFragment, OldEdit, OldDrain, OldWrite
  <2>2. UNCHANGED <<quiet, marker, newRows, newFiles, job, serving>>
    BY DEF OldPublish, OldFragment, OldEdit, OldDrain, OldWrite
  <2>3. QED
    BY <2>1, <2>2
<1>2. UNCHANGED <<schema, stops>>
  BY DEF OldPublish, OldFragment, OldEdit, OldDrain, OldWrite
<1>3. pending' \in BOOLEAN /\ {quiet', serving'} \subseteq BOOLEAN
  <2>1. {quiet, pending, serving} \subseteq BOOLEAN
    BY Zenon DEF MigrationInv, MigrationTypeOK
  <2>2. pending' = TRUE \/ pending' = FALSE \/ pending' = pending
    BY Zenon DEF OldPublish, OldFragment, OldEdit, OldDrain
  <2>3. quiet' = quiet /\ serving' = serving
    BY <1>1
  <2>4. QED
    BY <2>1, <2>2, <2>3, Zenon
<1>4. writes' \in 0..MaxWrites
  <2>1. writes \in 0..MaxWrites /\ MaxWrites \in Nat
    BY MigrationConstants DEF MigrationInv, MigrationTypeOK
  <2>2. writes' = writes \/ (writes < MaxWrites /\ writes' = writes + 1)
    BY DEF OldPublish, OldFragment, OldEdit, OldDrain, OldWrite
  <2>3. QED
    BY <2>1, <2>2
<1>5. oldRows' \in Rows /\ oldFiles' \in [Media -> Content]
  <2>1. oldRows \in Rows /\ oldFiles \in [Media -> Content]
    BY DEF MigrationInv, MigrationTypeOK
  <2>2. ASSUME NEW f \in Media, OldPublish(f) PROVE oldRows' \in Rows /\ oldFiles' \in [Media -> Content]
    BY <2>1, <2>2 DEF OldPublish, Rows, Content
  <2>3. ASSUME NEW f \in Media, NEW x \in Content, OldFragment(f, x)
        PROVE  oldRows' \in Rows /\ oldFiles' \in [Media -> Content]
    BY <2>1, <2>3 DEF OldFragment
  <2>4. ASSUME OldEdit PROVE oldRows' \in Rows /\ oldFiles' \in [Media -> Content]
    BY <2>1, <2>4 DEF OldEdit, Rows
  <2>5. ASSUME OldDrain PROVE oldRows' \in Rows /\ oldFiles' \in [Media -> Content]
    BY <2>1, <2>5 DEF OldDrain
  <2>6. QED
    BY <2>2, <2>3, <2>4, <2>5
<1>6. MigrationTypeOK'
  <2>1. {quiet', pending', serving'} \subseteq BOOLEAN
    BY <1>3, Zenon
  <2>2. /\ schema' \in {"none", "core", "full"} /\ marker' \in Marker \cup {NoMarker}
        /\ marker' # NoMarker => schema' = "full"
        /\ newRows' \in Rows /\ newFiles' \in [Media -> Content \cup {"part"}]
        /\ job' \in Job \cup {IdleJob} /\ stops' \in 0..MaxStops
    BY <1>1, <1>2 DEF MigrationInv, MigrationTypeOK
  <2>3. QED
    BY <1>4, <1>5, <2>1, <2>2, Zenon DEF MigrationTypeOK
<1>7. QED
  BY <1>1, <1>6, OldSideMoves DEF MigrationInv


\* A step of a run leaves the old side alone.
LEMMA RunTyped ==
    ASSUME MigrationInv, UNCHANGED <<oldVars, serving, stops>>,
           schema' \in {"none", "core", "full"}, marker' \in Marker \cup {NoMarker},
           marker' # NoMarker => schema' = "full",
           newRows' \in Rows, newFiles' \in [Media -> Content \cup {"part"}],
           job' \in Job \cup {IdleJob}
    PROVE  MigrationTypeOK'
<1>1. /\ quiet' = quiet /\ pending' = pending /\ oldRows' = oldRows /\ oldFiles' = oldFiles
      /\ writes' = writes /\ serving' = serving /\ stops' = stops
  BY DEF oldVars
<1>2. {quiet', pending', serving'} \subseteq BOOLEAN
  <2>1. {quiet, pending, serving} \subseteq BOOLEAN
    BY Zenon DEF MigrationInv, MigrationTypeOK
  <2>2. QED
    BY <1>1, <2>1, Zenon
<1>3. /\ oldRows' \in Rows /\ oldFiles' \in [Media -> Content]
      /\ writes' \in 0..MaxWrites /\ stops' \in 0..MaxStops
  BY <1>1 DEF MigrationInv, MigrationTypeOK
<1>4. QED
  BY <1>2, <1>3, Zenon DEF MigrationTypeOK

\* A step that moves nothing but the run.
LEMMA OnlyJobMoves ==
    ASSUME MigrationInv, UNCHANGED <<oldVars, schema, marker, newRows, newFiles, serving, stops>>,
           job' \in Job \cup {IdleJob}, JobInv'
    PROVE  MigrationInv'
<1>1. /\ quiet' = quiet /\ oldRows' = oldRows /\ oldFiles' = oldFiles /\ serving' = serving
      /\ schema' = schema /\ marker' = marker /\ newRows' = newRows /\ newFiles' = newFiles
      /\ stops' = stops /\ UNCHANGED oldVars
  BY DEF oldVars
<1>2. MigrationTypeOK'
  <2>1. /\ schema' \in {"none", "core", "full"} /\ marker' \in Marker \cup {NoMarker}
        /\ marker' # NoMarker => schema' = "full"
        /\ newRows' \in Rows /\ newFiles' \in [Media -> Content \cup {"part"}]
    BY <1>1 DEF MigrationInv, MigrationTypeOK
  <2>2. UNCHANGED <<oldVars, serving, stops>>
    BY <1>1
  <2>3. QED
    BY <2>1, <2>2, RunTyped
<1>3. MarkerInv'
  BY <1>1 DEF MigrationInv, MarkerInv, MigratedRows, NoRows
<1>4. QED
  BY <1>2, <1>3 DEF MigrationInv

\* migrateCore up to the copies.
LEMMA RunBegins ==
    ASSUME MigrationInv, MigrateBegin \/ CheckMarker \/ MediaManifest \/ MediaRecheck \/ InitCore
    PROVE  MigrationInv'
<1>1. /\ job \in Job \cup {IdleJob} /\ marker \in Marker \cup {NoMarker}
      /\ oldFiles \in [Media -> Content] /\ oldRows \in Rows
      /\ newFiles \in [Media -> Content \cup {"part"}]
      /\ marker # NoMarker => schema = "full"
  BY DEF MigrationInv, MigrationTypeOK
<1>2. UNCHANGED <<oldVars, schema, marker, newRows, newFiles, serving, stops>>
  BY DEF MigrateBegin, CheckMarker, MediaManifest, MediaRecheck, InitCore
<1>3. /\ quiet' = quiet /\ oldRows' = oldRows /\ oldFiles' = oldFiles /\ marker' = marker
      /\ newRows' = newRows /\ newFiles' = newFiles
  BY <1>2 DEF oldVars
<1>4. CASE job' = IdleJob
  BY <1>2, <1>4, IdleKeeps, OnlyJobMoves
<1>5. CASE MigrateBegin
  <2>1. quiet = TRUE
    <3>1. quiet
      BY <1>5, Zenon DEF MigrateBegin
    <3>2. quiet \in BOOLEAN
      BY Zenon DEF MigrationInv, MigrationTypeOK
    <3>3. QED
      BY <3>1, <3>2, Zenon
  <2>2. Counts(oldRows) \in Nat
    <3>1. oldRows.videos \in SUBSET Media
      BY <1>1 DEF Rows
    <3>2. IsFiniteSet(oldRows.videos)
      BY <3>1, MigrationConstants, FS_Subset
    <3>3. QED
      BY <3>2, FS_CardinalityType DEF Counts
  <2>3. job' = [pc |-> "marker", next |-> "schema", counts |-> Counts(oldRows),
                manifest |-> oldFiles]
    BY <1>5 DEF MigrateBegin
  <2>4. job' \in Job /\ job'.pc = "marker"
    BY <1>1, <2>2, <2>3 DEF Job
  <2>5. quiet' = TRUE
    BY <1>3, <2>1
  <2>6. JobInv'
    BY <2>4, <2>5 DEF JobInv
  <2>7. QED
    BY <1>2, <2>4, <2>6, OnlyJobMoves
<1>6. CASE CheckMarker /\ job' # IdleJob
  <2>1. job.pc = "marker" /\ MarkerAllows
    BY <1>6 DEF CheckMarker
  <2>2. job' = [job EXCEPT !.pc = "manifest",
                           !.next = IF marker.state = "copied" THEN "finish" ELSE "schema"]
    BY <1>6, <2>1 DEF CheckMarker
  <2>3. job \in [pc: {"marker", "manifest", "copy", "schema", "rows", "finish", "verified"},
                 next: {"schema", "finish"}, counts: Nat, manifest: [Media -> Content]]
    BY <1>1, <2>1 DEF Job, IdleJob
  <2>4. /\ job' \in Job /\ job'.pc = "manifest"
        /\ job'.next = IF marker.state = "copied" THEN "finish" ELSE "schema"
    BY <2>2, <2>3 DEF Job
  <2>5. marker \in {NoMarker, OldMarker("prepared"), OldMarker("copied")}
    BY <1>1, <2>1, MarkerTypes DEF MarkerAllows
  <2>6. marker.state = "copied" <=> marker = OldMarker("copied")
    BY <1>1, <2>5, MarkerTypes
  <2>7. quiet' = TRUE
    BY <1>3, <2>1 DEF MigrationInv, JobInv, IdleJob
  <2>8. /\ marker' \in {NoMarker, OldMarker("prepared"), OldMarker("copied")}
        /\ job'.next = IF marker' = OldMarker("copied") THEN "finish" ELSE "schema"
    BY <1>3, <2>4, <2>5, <2>6
  <2>9. JobInv'
    BY <2>4, <2>7, <2>8 DEF JobInv
  <2>10. QED
    BY <1>2, <2>4, <2>9, OnlyJobMoves
<1>7. CASE MediaManifest /\ job' # IdleJob
  <2>1. job.pc = "manifest" /\ job' = [job EXCEPT !.pc = "copy", !.manifest = oldFiles]
    BY <1>7 DEF MediaManifest
  <2>2. job \in [pc: {"marker", "manifest", "copy", "schema", "rows", "finish", "verified"},
                 next: {"schema", "finish"}, counts: Nat, manifest: [Media -> Content]]
    BY <1>1, <2>1 DEF Job, IdleJob
  <2>3. job' \in Job /\ job'.pc = "copy" /\ job'.next = job.next /\ job'.manifest = oldFiles
    BY <1>1, <2>1, <2>2 DEF Job
  <2>4. /\ quiet = TRUE
        /\ marker \in {NoMarker, OldMarker("prepared"), OldMarker("copied")}
        /\ job.next = IF marker = OldMarker("copied") THEN "finish" ELSE "schema"
    BY <2>1 DEF MigrationInv, JobInv, IdleJob
  <2>5. JobInv'
    BY <1>3, <2>3, <2>4 DEF JobInv
  <2>6. QED
    BY <1>2, <2>3, <2>5, OnlyJobMoves
<1>8. CASE MediaRecheck /\ job' # IdleJob
  <2>1. /\ job.pc = "copy" /\ oldFiles = job.manifest /\ job' = [job EXCEPT !.pc = job.next]
        /\ \A f \in Media : newFiles[f] = job.manifest[f]
    <3>1. /\ job.pc = "copy" /\ job' = [job EXCEPT !.pc = job.next]
          /\ \A f \in Media : newFiles[f] = job.manifest[f]
      BY <1>8 DEF MediaRecheck, Goes
    <3>2. QED
      BY <3>1 DEF MigrationInv, JobInv
  <2>2. job.next \in {"schema", "finish"}
    BY <1>1, <2>1, JobTypes
  <2>3. job' \in Job /\ job'.pc = job.next
    <3>1. job \in Job \cup {IdleJob} /\ job.pc \notin {"idle", "init"}
      BY <1>1, <2>1
    <3>2. CASE job.next = "schema"
      <4>1. job' = [job EXCEPT !.pc = "schema"]
        BY <2>1, <3>2
      <4>2. QED
        BY <3>1, <3>2, <4>1, JobTypes
    <3>3. CASE job.next = "finish"
      <4>1. job' = [job EXCEPT !.pc = "finish"]
        BY <2>1, <3>3
      <4>2. QED
        BY <3>1, <3>3, <4>1, JobTypes
    <3>4. QED
      BY <2>2, <3>2, <3>3
  <2>4. newFiles = oldFiles
    BY <1>1, <2>1
  <2>5. /\ quiet = TRUE
        /\ marker \in {NoMarker, OldMarker("prepared"), OldMarker("copied")}
        /\ job.next = IF marker = OldMarker("copied") THEN "finish" ELSE "schema"
    BY <2>1 DEF MigrationInv, JobInv, IdleJob
  <2>6. newFiles' = oldFiles' /\ quiet' = TRUE /\ marker' = marker
    BY <1>3, <2>4, <2>5
  <2>7. CASE job.next = "schema"
    <3>1. marker' \in {NoMarker, OldMarker("prepared")} /\ job'.pc = "schema"
      BY <2>3, <2>5, <2>6, <2>7
    <3>2. JobInv'
      BY <2>6, <3>1 DEF JobInv
    <3>3. QED
      BY <1>2, <2>3, <3>2, OnlyJobMoves
  <2>8. CASE job.next = "finish"
    <3>1. marker' = OldMarker("copied") /\ job'.pc = "finish"
      BY <2>3, <2>5, <2>6, <2>8
    <3>2. JobInv'
      BY <2>6, <3>1 DEF JobInv
    <3>3. QED
      BY <1>2, <2>3, <3>2, OnlyJobMoves
  <2>9. QED
    BY <2>2, <2>7, <2>8
<1>9. CASE InitCore
  <2>1. job' = [pc |-> "init"] /\ schema = "none"
    BY <1>9 DEF InitCore
  <2>2. job' \in Job /\ job'.pc = "init"
    BY <2>1 DEF Job
  <2>3. marker' = NoMarker
    BY <1>1, <1>3, <2>1
  <2>4. JobInv'
    BY <2>2, <2>3 DEF JobInv
  <2>5. QED
    BY <1>2, <2>2, <2>4, OnlyJobMoves
<1>10. QED
  BY <1>4, <1>5, <1>6, <1>7, <1>8, <1>9


\* A file is copied.
LEMMA CopyKeeps ==
    ASSUME MigrationInv, NEW f \in Media, CopyMedia(f)
    PROVE  MigrationInv'
<1>1. /\ job.pc = "copy" /\ newFiles' = [newFiles EXCEPT ![f] = oldFiles[f]]
      /\ UNCHANGED <<oldVars, schema, marker, newRows, job, serving, stops>>
  BY DEF CopyMedia
<1>2. /\ oldFiles \in [Media -> Content] /\ newFiles \in [Media -> Content \cup {"part"}]
      /\ schema \in {"none", "core", "full"} /\ marker \in Marker \cup {NoMarker}
      /\ marker # NoMarker => schema = "full"
      /\ newRows \in Rows /\ job \in Job \cup {IdleJob}
  BY DEF MigrationInv, MigrationTypeOK
<1>3. newFiles' \in [Media -> Content \cup {"part"}]
  BY <1>1, <1>2
<1>4. MigrationTypeOK'
  BY <1>1, <1>2, <1>3, RunTyped
<1>5. /\ quiet' = quiet /\ oldRows' = oldRows /\ oldFiles' = oldFiles /\ marker' = marker
      /\ newRows' = newRows /\ job' = job /\ serving' = serving
  BY <1>1 DEF oldVars
<1>6. /\ quiet = TRUE /\ job.manifest = oldFiles
      /\ marker \in {NoMarker, OldMarker("prepared"), OldMarker("copied")}
      /\ job.next = IF marker = OldMarker("copied") THEN "finish" ELSE "schema"
  BY <1>1 DEF MigrationInv, JobInv, IdleJob
<1>7. JobInv'
  BY <1>1, <1>5, <1>6 DEF JobInv
<1>8. MarkerInv'
  <2>1. marker # OldMarker("verified")
    BY <1>6, MarkerTypes
  <2>2. /\ newRows = NoRows("new") \/ marker \in {OldMarker("copied"), OldMarker("verified")}
        /\ serving = TRUE => marker.state = "verified"
    BY DEF MigrationInv, MarkerInv
  <2>3. QED
    BY <1>5, <2>1, <2>2 DEF MarkerInv, NoRows
<1>9. QED
  BY <1>4, <1>7, <1>8 DEF MigrationInv

\* The schema is prepared.
LEMMA PrepareKeeps == MigrationInv /\ PrepareSchema => MigrationInv'
<1> SUFFICES ASSUME MigrationInv, PrepareSchema PROVE MigrationInv'
  OBVIOUS
<1>1. /\ schema # "full" /\ schema' = IF schema = "none" THEN "core" ELSE "full"
      /\ UNCHANGED <<oldVars, marker, newRows, newFiles, job, serving, stops>>
  BY DEF PrepareSchema
<1>2. /\ newFiles \in [Media -> Content \cup {"part"}]
      /\ schema \in {"none", "core", "full"} /\ marker \in Marker \cup {NoMarker}
      /\ marker # NoMarker => schema = "full"
      /\ newRows \in Rows /\ job \in Job \cup {IdleJob}
  BY DEF MigrationInv, MigrationTypeOK
<1>3. MigrationTypeOK'
  BY <1>1, <1>2, RunTyped
<1>4. /\ quiet' = quiet /\ oldRows' = oldRows /\ oldFiles' = oldFiles /\ marker' = marker
      /\ newRows' = newRows /\ newFiles' = newFiles /\ job' = job /\ serving' = serving
  BY <1>1 DEF oldVars
<1>5. JobInv'
  BY <1>4 DEF MigrationInv, JobInv, MigratedRows
<1>6. MarkerInv'
  BY <1>4 DEF MigrationInv, MarkerInv, MigratedRows, NoRows
<1>7. QED
  BY <1>3, <1>5, <1>6 DEF MigrationInv

\* The marker is saved, the rows are copied, and the marker is saved again.
LEMMA MarkerMoves ==
    ASSUME MigrationInv, SaveMarker \/ CopyRows \/ FinishVerify \/ FinishMark \/ InitMark
    PROVE  MigrationInv'
<1>1. /\ job \in Job \cup {IdleJob} /\ marker \in Marker \cup {NoMarker}
      /\ oldFiles \in [Media -> Content] /\ oldRows \in Rows /\ newRows \in Rows
      /\ newFiles \in [Media -> Content \cup {"part"}]
      /\ schema \in {"none", "core", "full"}
      /\ marker # NoMarker => schema = "full"
  BY DEF MigrationInv, MigrationTypeOK
<1>2. UNCHANGED <<oldVars, schema, newFiles, serving, stops>>
  BY DEF SaveMarker, CopyRows, FinishVerify, FinishMark, InitMark
<1>3. /\ quiet' = quiet /\ oldRows' = oldRows /\ oldFiles' = oldFiles /\ schema' = schema
      /\ newFiles' = newFiles /\ serving' = serving
  BY <1>2 DEF oldVars
<1>4. ASSUME marker' \in Marker, schema = "full", newRows' \in Rows, job' \in Job \cup {IdleJob}
      PROVE  MigrationTypeOK'
  BY <1>1, <1>2, <1>4, RunTyped
<1>5. job.pc \in {"rows", "schema"} => serving # TRUE
  <2>1. job.pc \in {"rows", "schema"} => marker \in {NoMarker, OldMarker("prepared")}
    BY DEF MigrationInv, JobInv
  <2>2. job.pc \in {"rows", "schema"} => marker.state # "verified"
    BY <1>1, <2>1, MarkerTypes
  <2>3. QED
    BY <2>2 DEF MigrationInv, MarkerInv
<1>6. CASE SaveMarker
  <2>1. job.pc = "schema" /\ schema = "full"
    BY <1>6 DEF SaveMarker, Prepared
  <2>2. quiet = TRUE /\ newFiles = oldFiles
    BY <2>1 DEF MigrationInv, JobInv, IdleJob
  <2>3. CASE newRows = NoRows("new")
    <3>1. /\ marker' = OldMarker("prepared") /\ newRows' = newRows
          /\ job' = [job EXCEPT !.pc = "rows"]
      BY <1>6, <2>3 DEF SaveMarker, Goes, OldMarker
    <3>2. job' \in Job /\ job'.pc = "rows"
      BY <1>1, <2>1, <3>1, JobTypes
    <3>3. MigrationTypeOK'
      BY <1>1, <1>4, <2>1, <3>1, <3>2, MarkerTypes
    <3>4. JobInv'
      BY <1>3, <2>2, <3>1, <3>2 DEF JobInv
    <3>5. serving' # TRUE
      BY <1>3, <1>5, <2>1
    <3>6. marker' # OldMarker("verified")
      BY <3>1, MarkerTypes
    <3>7. MarkerInv'
      BY <2>3, <3>1, <3>5, <3>6 DEF MarkerInv, NoRows
    <3>8. QED
      BY <3>3, <3>4, <3>7 DEF MigrationInv
  <2>4. CASE newRows # NoRows("new")
    <3>1. UNCHANGED <<oldVars, schema, marker, newRows, newFiles, serving, stops>> /\ job' = IdleJob
      BY <1>6, <2>4 DEF SaveMarker
    <3>2. QED
      BY <3>1, IdleKeeps, OnlyJobMoves
  <2>5. QED
    BY <2>3, <2>4
<1>7. CASE CopyRows
  <2>1. /\ job.pc = "rows" /\ newRows' = MigratedRows(oldRows)
        /\ marker' = [marker EXCEPT !.state = "copied"] /\ job' = [job EXCEPT !.pc = "finish"]
    BY <1>7 DEF CopyRows, Goes
  <2>2. quiet = TRUE /\ newFiles = oldFiles /\ marker = OldMarker("prepared")
    BY <2>1 DEF MigrationInv, JobInv, IdleJob
  <2>3. schema = "full"
    <3>1. OldMarker("prepared") # NoMarker
      BY MarkerTypes
    <3>2. QED
      BY <1>1, <2>2, <3>1
  <2>4. marker' = OldMarker("copied")
    BY <2>1, <2>2 DEF OldMarker
  <2>5. newRows' \in Rows
    BY <1>1, <2>1 DEF MigratedRows, Rows
  <2>6. job' \in Job /\ job'.pc = "finish"
    BY <1>1, <2>1, JobTypes
  <2>7. MigrationTypeOK'
    BY <1>4, <2>3, <2>4, <2>5, <2>6, MarkerTypes
  <2>8. JobInv'
    BY <1>3, <2>2, <2>4, <2>6 DEF JobInv
  <2>9. serving' # TRUE
    BY <1>3, <1>5, <2>1
  <2>10. marker' # OldMarker("verified")
    BY <2>4, MarkerTypes
  <2>11. MarkerInv'
    BY <2>4, <2>9, <2>10 DEF MarkerInv
  <2>12. QED
    BY <2>7, <2>8, <2>11 DEF MigrationInv
<1>8. CASE FinishVerify
  <2>1. UNCHANGED <<oldVars, schema, marker, newRows, newFiles, serving, stops>> /\ job.pc = "finish"
    BY <1>8 DEF FinishVerify
  <2>2. CASE job' = IdleJob
    BY <2>1, <2>2, IdleKeeps, OnlyJobMoves
  <2>3. CASE job' # IdleJob
    <3>1. job' = [job EXCEPT !.pc = "verified"] /\ newRows = MigratedRows(oldRows)
      BY <1>8, <2>3 DEF FinishVerify, Goes, ContentsAgree
    <3>2. job' \in Job /\ job'.pc = "verified"
      BY <1>1, <2>1, <3>1, JobTypes
    <3>3. quiet = TRUE /\ marker = OldMarker("copied") /\ newFiles = oldFiles
      BY <2>1 DEF MigrationInv, JobInv, IdleJob
    <3>4. newRows' = MigratedRows(oldRows')
      BY <1>3, <2>1, <3>1
    <3>5. quiet' = TRUE /\ marker' = OldMarker("copied") /\ newFiles' = oldFiles'
      BY <1>3, <2>1, <3>3
    <3>6. JobInv'
      BY <3>2, <3>4, <3>5 DEF JobInv, MigratedRows
    <3>7. QED
      BY <2>1, <3>2, <3>6, OnlyJobMoves
  <2>4. QED
    BY <2>2, <2>3
<1>9. CASE FinishMark
  <2>1. /\ job.pc = "verified" /\ newRows' = newRows
        /\ marker' = [marker EXCEPT !.state = "verified"] /\ job' = IdleJob
    BY <1>9 DEF FinishMark
  <2>2. /\ quiet = TRUE /\ marker = OldMarker("copied") /\ newFiles = oldFiles
        /\ newRows = MigratedRows(oldRows)
    BY <2>1 DEF MigrationInv, JobInv, IdleJob
  <2>3. marker' = OldMarker("verified")
    BY <2>1, <2>2 DEF OldMarker
  <2>4. schema = "full"
    <3>1. OldMarker("copied") # NoMarker
      BY MarkerTypes
    <3>2. QED
      BY <1>1, <2>2, <3>1
  <2>5. MigrationTypeOK'
    BY <1>1, <1>4, <2>1, <2>3, <2>4, MarkerTypes
  <2>6. JobInv'
    BY <2>1, IdleKeeps
  <2>7. quiet' = TRUE /\ newRows' = MigratedRows(oldRows') /\ newFiles' = oldFiles'
    BY <1>3, <2>1, <2>2
  <2>8. marker'.state = "verified"
    BY <2>3, MarkerTypes
  <2>9. MarkerInv'
    BY <2>3, <2>7, <2>8 DEF MarkerInv, MigratedRows
  <2>10. QED
    BY <2>5, <2>6, <2>9 DEF MigrationInv
<1>10. CASE InitMark
  <2>1. /\ job.pc = "init" /\ schema = "full" /\ newRows' = newRows
        /\ marker' = [state |-> "verified", from |-> "fresh"] /\ job' = IdleJob
    BY <1>10 DEF InitMark, Prepared
  <2>2. marker = NoMarker
    BY <2>1 DEF MigrationInv, JobInv
  <2>3. newRows = NoRows("new")
    BY <2>2, MarkerTypes DEF MigrationInv, MarkerInv
  <2>4. marker' \in Marker /\ marker'.state = "verified" /\ marker'.from = "fresh"
    BY <2>1 DEF Marker
  <2>5. marker' # OldMarker("verified")
    BY <2>4, MarkerTypes
  <2>6. MigrationTypeOK'
    BY <1>1, <1>4, <2>1, <2>4
  <2>7. JobInv'
    BY <2>1, IdleKeeps
  <2>8. MarkerInv'
    BY <2>1, <2>3, <2>4, <2>5 DEF MarkerInv, NoRows
  <2>9. QED
    BY <2>6, <2>7, <2>8 DEF MigrationInv
<1>11. QED
  BY <1>6, <1>7, <1>8, <1>9, <1>10


\* A run is cut short.
LEMMA StopKeeps == MigrationInv /\ Stop => MigrationInv'
<1> SUFFICES ASSUME MigrationInv, Stop PROVE MigrationInv'
  OBVIOUS
<1>1. /\ job' = IdleJob /\ stops < MaxStops /\ stops' = stops + 1
      /\ UNCHANGED <<oldVars, schema, marker, newRows, serving>>
  BY DEF Stop
<1>2. /\ quiet' = quiet /\ pending' = pending /\ oldRows' = oldRows /\ oldFiles' = oldFiles
      /\ writes' = writes /\ schema' = schema /\ marker' = marker /\ newRows' = newRows
      /\ serving' = serving
  BY <1>1 DEF oldVars
<1>3. stops' \in 0..MaxStops
  <2>1. stops \in 0..MaxStops /\ MaxStops \in Nat
    BY MigrationConstants DEF MigrationInv, MigrationTypeOK
  <2>2. stops < MaxStops /\ stops' = stops + 1
    BY <1>1
  <2>3. QED
    BY <2>1, <2>2
<1>4. newFiles' = newFiles \/ \E f \in Media : job.pc = "copy" /\ newFiles' = [newFiles EXCEPT ![f] = "part"]
  BY DEF Stop
<1>5. newFiles' \in [Media -> Content \cup {"part"}]
  <2>1. newFiles \in [Media -> Content \cup {"part"}]
    BY DEF MigrationInv, MigrationTypeOK
  <2>2. QED
    BY <1>4, <2>1
<1>6. MigrationTypeOK'
  <2>1. {quiet', pending', serving'} \subseteq BOOLEAN
    <3>1. {quiet, pending, serving} \subseteq BOOLEAN
      BY Zenon DEF MigrationInv, MigrationTypeOK
    <3>2. QED
      BY <1>2, <3>1, Zenon
  <2>2. /\ oldRows' \in Rows /\ oldFiles' \in [Media -> Content] /\ writes' \in 0..MaxWrites
        /\ schema' \in {"none", "core", "full"} /\ marker' \in Marker \cup {NoMarker}
        /\ marker' # NoMarker => schema' = "full"
        /\ newRows' \in Rows
    BY <1>2 DEF MigrationInv, MigrationTypeOK
  <2>3. job' \in Job \cup {IdleJob}
    BY <1>1
  <2>4. QED
    BY <1>3, <1>5, <2>1, <2>2, <2>3, Zenon DEF MigrationTypeOK
<1>7. newFiles' = newFiles \/ marker # OldMarker("verified")
  <2>1. job.pc = "copy" => marker \in {NoMarker, OldMarker("prepared"), OldMarker("copied")}
    BY DEF MigrationInv, JobInv
  <2>2. QED
    BY <1>4, <2>1, MarkerTypes
<1>8. MarkerInv'
  <2>1. newRows = NoRows("new") \/ marker \in {OldMarker("copied"), OldMarker("verified")}
    BY DEF MigrationInv, MarkerInv
  <2>2. serving = TRUE => marker.state = "verified"
    BY DEF MigrationInv, MarkerInv
  <2>3. marker = OldMarker("verified") =>
           quiet = TRUE /\ newRows = MigratedRows(oldRows) /\ newFiles = oldFiles
    BY DEF MigrationInv, MarkerInv
  <2>4. QED
    BY <1>2, <1>7, <2>1, <2>2, <2>3 DEF MarkerInv, NoRows, MigratedRows
<1>9. QED
  BY <1>1, <1>6, <1>8, IdleKeeps DEF MigrationInv

\* The operator, and the start of the new program.
LEMMA OperatorMoves == MigrationInv /\ (Quiesce \/ Serve) => MigrationInv'
<1> SUFFICES ASSUME MigrationInv, Quiesce \/ Serve PROVE MigrationInv'
  OBVIOUS
<1>1. /\ oldRows \in Rows /\ oldFiles \in [Media -> Content] /\ writes \in 0..MaxWrites
      /\ schema \in {"none", "core", "full"} /\ marker \in Marker \cup {NoMarker}
      /\ marker # NoMarker => schema = "full"
      /\ newRows \in Rows
      /\ newFiles \in [Media -> Content \cup {"part"}] /\ job \in Job \cup {IdleJob}
      /\ stops \in 0..MaxStops
  BY DEF MigrationInv, MigrationTypeOK
<1>2. /\ pending' = pending /\ oldRows' = oldRows /\ oldFiles' = oldFiles /\ writes' = writes
      /\ schema' = schema /\ marker' = marker /\ newRows' = newRows /\ newFiles' = newFiles
      /\ job' = job /\ stops' = stops
  BY DEF Quiesce, Serve, oldVars
<1>3. {quiet, pending, serving} \subseteq BOOLEAN
  BY Zenon DEF MigrationInv, MigrationTypeOK
<1>4. quiet' \in BOOLEAN /\ serving' \in BOOLEAN
  <2>1. CASE Quiesce
    <3>1. quiet' = ~quiet /\ serving' = serving
      BY <2>1, Zenon DEF Quiesce
    <3>2. QED
      BY <1>3, <3>1, Zenon
  <2>2. CASE Serve
    <3>1. quiet' = quiet /\ serving' = TRUE
      BY <2>2, Zenon DEF Serve, oldVars
    <3>2. QED
      BY <1>3, <3>1, Zenon
  <2>3. QED
    BY <2>1, <2>2
<1>5. {quiet', pending', serving'} \subseteq BOOLEAN
  BY <1>2, <1>3, <1>4, Zenon
<1>6. MigrationTypeOK'
  BY <1>1, <1>2, <1>5, Zenon DEF MigrationTypeOK
<1>7. newRows = NoRows("new") \/ marker \in {OldMarker("copied"), OldMarker("verified")}
  BY DEF MigrationInv, MarkerInv
<1>8. marker = OldMarker("verified") =>
         quiet = TRUE /\ newRows = MigratedRows(oldRows) /\ newFiles = oldFiles
  BY DEF MigrationInv, MarkerInv
<1>9. CASE Quiesce
  <2>1. job = IdleJob /\ marker.state # "verified" /\ serving' = serving
    BY <1>9 DEF Quiesce
  <2>2. JobInv'
    BY <1>2, <2>1, IdleKeeps
  <2>3. marker # OldMarker("verified")
    BY <2>1, MarkerTypes
  <2>4. serving' # TRUE
    BY <2>1 DEF MigrationInv, MarkerInv
  <2>5. MarkerInv'
    BY <1>2, <1>7, <2>3, <2>4 DEF MarkerInv, NoRows
  <2>6. QED
    BY <1>6, <2>2, <2>5 DEF MigrationInv
<1>10. CASE Serve
  <2>1. marker.state = "verified" /\ quiet' = quiet
    BY <1>10 DEF Serve, CoreReady, oldVars
  <2>2. JobInv'
    BY <1>2, <2>1 DEF MigrationInv, JobInv, MigratedRows
  <2>3. MarkerInv'
    BY <1>2, <1>7, <1>8, <2>1 DEF MarkerInv, NoRows, MigratedRows
  <2>4. QED
    BY <1>6, <2>2, <2>3 DEF MigrationInv
<1>11. QED
  BY <1>9, <1>10

\* Every step keeps the invariant.
LEMMA MigrationInvNext == MigrationInv /\ [MigrationNext]_migrationVars => MigrationInv'
<1> SUFFICES ASSUME MigrationInv, [MigrationNext]_migrationVars PROVE MigrationInv'
  OBVIOUS
<1>1. CASE UNCHANGED migrationVars
  <2>1. /\ quiet' = quiet /\ pending' = pending /\ oldRows' = oldRows /\ oldFiles' = oldFiles
        /\ schema' = schema /\ marker' = marker /\ newRows' = newRows /\ newFiles' = newFiles
        /\ job' = job /\ serving' = serving /\ writes' = writes /\ stops' = stops
    BY <1>1 DEF migrationVars
  <2>2. MigrationTypeOK'
    BY <2>1, Zenon DEF MigrationInv, MigrationTypeOK
  <2>3. JobInv'
    BY <2>1 DEF MigrationInv, JobInv, MigratedRows
  <2>4. MarkerInv'
    BY <2>1 DEF MigrationInv, MarkerInv, MigratedRows, NoRows
  <2>5. QED
    BY <2>2, <2>3, <2>4 DEF MigrationInv
<1>2. ASSUME \/ \E f \in Media : OldPublish(f) \/ \E x \in Content : OldFragment(f, x)
             \/ OldEdit \/ OldDrain
      PROVE  MigrationInv'
  BY <1>2, OldTyped
<1>3. ASSUME NEW f \in Media, CopyMedia(f) PROVE MigrationInv'
  BY <1>3, CopyKeeps
<1>4. ASSUME MigrateBegin \/ CheckMarker \/ MediaManifest \/ MediaRecheck \/ InitCore
      PROVE  MigrationInv'
  BY <1>4, RunBegins
<1>5. ASSUME SaveMarker \/ CopyRows \/ FinishVerify \/ FinishMark \/ InitMark
      PROVE  MigrationInv'
  BY <1>5, MarkerMoves
<1>6. CASE MigrationNext
  BY <1>2, <1>3, <1>4, <1>5, <1>6, PrepareKeeps, StopKeeps, OperatorMoves, Zenon DEF MigrationNext
<1>7. QED
  BY <1>1, <1>6

\* The state of the migration is of its types: the tables and directories of both
\* sides, the marker, and the run of migrate-core or init-core.
THEOREM MigrationTyped == MigrationSpec => []MigrationTypeOK
<1>1. MigrationInv => MigrationTypeOK
  BY DEF MigrationInv
<1>2. QED
  BY MigrationInvInit, MigrationInvNext, <1>1, PTL DEF MigrationSpec

\* For any set of files, any number of changes of the old installation between
\* runs and any number of runs that are cut short at any step: the program
\* coreReady lets start serves from a fresh database, or from rows and files that
\* are the old installation's, whole.
THEOREM CutoversWhole == MigrationSpec => []CutoverWhole
<1>1. MigrationInv => CutoverWhole
  <2> SUFFICES ASSUME MigrationInv, serving
               PROVE  \/ marker.from = "fresh" /\ newRows = NoRows("new")
                      \/ /\ marker.from = "old" /\ newRows = MigratedRows(oldRows)
                         /\ newFiles = oldFiles
    BY DEF CutoverWhole
  <2>1. serving = TRUE
    <3>1. serving \in BOOLEAN
      BY Zenon DEF MigrationInv, MigrationTypeOK
    <3>2. QED
      BY <3>1, Zenon
  <2>2. marker.state = "verified" /\ marker \in Marker \cup {NoMarker}
    BY <2>1 DEF MigrationInv, MigrationTypeOK, MarkerInv
  <2>3. marker # NoMarker
    BY <2>2, MarkerTypes
  <2>4. CASE marker.from = "old"
    <3>1. marker = OldMarker("verified")
      BY <2>2, <2>3, <2>4, MarkerTypes
    <3>2. QED
      BY <2>4, <3>1 DEF MigrationInv, MarkerInv
  <2>5. CASE marker.from = "fresh"
    <3>1. marker \notin {OldMarker("copied"), OldMarker("verified")}
      BY <2>5, MarkerTypes
    <3>2. QED
      BY <2>5, <3>1 DEF MigrationInv, MarkerInv
  <2>6. QED
    BY <2>2, <2>3, <2>4, <2>5, MarkerTypes
<1>2. QED
  BY MigrationInvInit, MigrationInvNext, <1>1, PTL DEF MigrationSpec


-----------------------------------------------------------------------------
(***************************************************************************)
(* Uploads.  A publication holds its file from the rename to the           *)
(* transaction; between them a file is under tmp, held, on the shelf of a  *)
(* video, or lost with a publication that died.                            *)
(***************************************************************************)
Holding(c) == call[c].pc \in {"cover", "commit"}

\* No file that failed its checks is kept, no two publications hold one name, and
\* what is held or published is there, unless publishVideo took it back.
FileInv ==
    /\ \A u \in Upload : ready[u] # "broken"
    /\ \A c \in Caller : Holding(c) => shelf[call[c].name] = "whole" /\ video[call[c].name] = NoVideo
    /\ \A c, d \in Caller : Holding(c) /\ Holding(d) /\ call[c].name = call[d].name => c = d
    /\ \A n \in Name : video[n] # NoVideo => shelf[n] = "whole" \/ n \in disowned

\* A cover that is named has been moved.
CoverInv ==
    /\ \A c \in Caller : call[c].pc = "commit" /\ call[c].covered = TRUE => cover = "media"
    /\ \A n \in Name : video[n] # NoVideo /\ video[n].covered = TRUE => cover = "media"

\* Only a video is deleted, and it stays so.
DeleteInv ==
    /\ \A c \in Caller : call[c].pc = "delete" => video[call[c].name] # NoVideo
    /\ \A n \in removed : video[n].status = "deleted"

\* The names an upload has been given and has not lost.
Taken(u) ==
    {n \in Name : \/ video[n] # NoVideo /\ video[n].upload = u /\ n \notin disowned
                  \/ \E c \in Caller : Holding(c) /\ call[c].name = n /\ call[c].upload = u}

Waiting(u) == IF ready[u] = "none" THEN 0 ELSE 1

FileCountInv == \A u \in Upload : Cardinality(Taken(u)) + Waiting(u) <= assembled[u]

\* Where the file of an upload may be that was put in place.
Available(u) ==
    \/ ready[u] = "whole"
    \/ u \in stranded
    \/ \E c \in Caller : Holding(c) /\ call[c].upload = u

\* The file is there before the row says so; nothing begins without a row, and the
\* cleanup lists what is old enough.
RowInv ==
    /\ \A u \in Upload :
          row[u].age \in {"fresh", "old"} /\ row[u].published = FALSE
          /\ (row[u].completed = TRUE
              \/ \E c \in Caller : call[c].pc = "record" /\ call[c].upload = u)
          => Available(u)
    /\ \A c \in Caller : call[c].pc \in {"assemble", "record"} => row[call[c].upload] # NoRow
    /\ \A u \in Upload : sweep[u] # "none" => row[u].age = "stale"

UploadsInv ==
    UploadsTypeOK /\ FileInv /\ CoverInv /\ DeleteInv /\ FileCountInv /\ RowInv


\* The requests, by where they are.
LEMMA CallTypes ==
    \A r \in ReqState \cup {IdleCall} :
        /\ r.pc \in {"idle", "create", "chunk", "assemble", "record", "tidy", "move", "cover",
                     "commit", "delete"}
        /\ r.pc = "chunk" => r.upload \in Upload /\ r.part \in Part /\ r.data \in {"good", "bad"}
        /\ r.pc = "assemble" => r.upload \in Upload /\ r.next \in 1..(Chunks + 1) /\ r.sound \in BOOLEAN
        /\ r.pc \in {"record", "tidy"} => r.upload \in Upload
        /\ r.pc = "move" => r.upload \in Upload /\ r.covered \in BOOLEAN
        /\ r.pc \in {"cover", "commit"} =>
              r.upload \in Upload /\ r.covered \in BOOLEAN /\ r.name \in Name
        /\ r.pc = "delete" => r.name \in Name
<1> DEFINE R1 == [pc: {"create"}]
           R2 == [pc: {"chunk"}, upload: Upload, part: Part, data: PartState \ {"none"}]
           R3 == [pc: {"assemble"}, upload: Upload, next: 1..Chunks + 1, sound: BOOLEAN]
           R4 == [pc: {"record", "tidy"}, upload: Upload]
           R5 == [pc: {"move"}, upload: Upload, covered: BOOLEAN]
           R6 == [pc: {"cover", "commit"}, upload: Upload, covered: BOOLEAN, name: Name]
           R7 == [pc: {"delete"}, name: Name]
<1>1. \A r \in R1 : r.pc = "create"
  OBVIOUS
<1>2. \A r \in R2 : r.pc = "chunk" /\ r.upload \in Upload /\ r.part \in Part /\ r.data \in {"good", "bad"}
  BY DEF PartState
<1>3. \A r \in R3 : r.pc = "assemble" /\ r.upload \in Upload /\ r.next \in 1..(Chunks + 1) /\ r.sound \in BOOLEAN
  OBVIOUS
<1>4. \A r \in R4 : r.pc \in {"record", "tidy"} /\ r.upload \in Upload
  OBVIOUS
<1>5. \A r \in R5 : r.pc = "move" /\ r.upload \in Upload /\ r.covered \in BOOLEAN
  OBVIOUS
<1>6. \A r \in R6 : /\ r.pc \in {"cover", "commit"} /\ r.upload \in Upload /\ r.covered \in BOOLEAN
                    /\ r.name \in Name
  OBVIOUS
<1>7. \A r \in R7 : r.pc = "delete" /\ r.name \in Name
  OBVIOUS
<1>8. IdleCall.pc = "idle"
  BY DEF IdleCall
<1>9. ReqState = R1 \cup R2 \cup R3 \cup R4 \cup R5 \cup R6 \cup R7
  BY DEF ReqState
<1> HIDE DEF R1, R2, R3, R4, R5, R6, R7
<1>10. TAKE r \in ReqState \cup {IdleCall}
<1>11. CASE r \in R1
  <2>1. r.pc = "create"
    BY <1>1, <1>11
  <2>2. QED
    BY <2>1
<1>12. CASE r \in R2
  <2>1. r.pc = "chunk" /\ r.upload \in Upload /\ r.part \in Part /\ r.data \in {"good", "bad"}
    BY <1>2, <1>12
  <2>2. QED
    BY <2>1
<1>13. CASE r \in R3
  <2>1. r.pc = "assemble" /\ r.upload \in Upload /\ r.next \in 1..(Chunks + 1) /\ r.sound \in BOOLEAN
    BY <1>3, <1>13, Zenon
  <2>2. r.pc \notin {"record", "tidy", "cover", "commit"} /\ r.pc # "chunk" /\ r.pc # "move" /\ r.pc # "delete"
    BY <2>1
  <2>3. QED
    BY <2>1, <2>2, Zenon
<1>14. CASE r \in R4
  <2>1. r.pc \in {"record", "tidy"} /\ r.upload \in Upload
    BY <1>4, <1>14
  <2>2. QED
    BY <2>1
<1>15. CASE r \in R5
  <2>1. r.pc = "move" /\ r.upload \in Upload /\ r.covered \in BOOLEAN
    BY <1>5, <1>15, Zenon
  <2>2. r.pc \notin {"record", "tidy", "cover", "commit"} /\ r.pc # "chunk" /\ r.pc # "assemble" /\ r.pc # "delete"
    BY <2>1
  <2>3. QED
    BY <2>1, <2>2, Zenon
<1>16. CASE r \in R6
  <2>1. r.pc \in {"cover", "commit"} /\ r.upload \in Upload /\ r.covered \in BOOLEAN /\ r.name \in Name
    BY <1>6, <1>16, Zenon
  <2>2. /\ r.pc \notin {"record", "tidy"} /\ r.pc # "chunk" /\ r.pc # "assemble" /\ r.pc # "delete"
        /\ r.pc # "move"
    BY <2>1
  <2>3. r.pc \in {"idle", "create", "chunk", "assemble", "record", "tidy", "move", "cover",
                  "commit", "delete"}
    BY <2>1
  <2>4. QED
    BY <2>1, <2>2, <2>3, Zenon
<1>17. CASE r \in R7
  <2>1. r.pc = "delete" /\ r.name \in Name
    BY <1>7, <1>17
  <2>2. QED
    BY <2>1
<1>18. CASE r = IdleCall
  BY <1>8, <1>18
<1>19. QED
  BY <1>9, <1>10, <1>11, <1>12, <1>13, <1>14, <1>15, <1>16, <1>17, <1>18

\* The requests the operations make.
LEMMA CallsMade ==
    /\ IdleCall.pc = "idle"
    /\ [pc |-> "create"] \in ReqState /\ [pc |-> "create"].pc = "create"
    /\ \A u \in Upload, i \in Part, data \in {"good", "bad"} :
          [pc |-> "chunk", upload |-> u, part |-> i, data |-> data] \in ReqState
    /\ \A u \in Upload, k \in 1..(Chunks + 1), b \in BOOLEAN :
          [pc |-> "assemble", upload |-> u, next |-> k, sound |-> b] \in ReqState
    /\ \A u \in Upload :
          [pc |-> "record", upload |-> u] \in ReqState /\ [pc |-> "tidy", upload |-> u] \in ReqState
    /\ \A u \in Upload, b \in BOOLEAN : [pc |-> "move", upload |-> u, covered |-> b] \in ReqState
    /\ \A u \in Upload, b \in BOOLEAN, n \in Name, pc \in {"cover", "commit"} :
          [pc |-> pc, upload |-> u, covered |-> b, name |-> n] \in ReqState
    /\ \A n \in Name : [pc |-> "delete", name |-> n] \in ReqState
<1>1. IdleCall.pc = "idle"
  BY DEF IdleCall
<1>2. [pc |-> "create"] \in ReqState
  BY DEF ReqState
<1>3. \A u \in Upload, i \in Part, data \in {"good", "bad"} :
         [pc |-> "chunk", upload |-> u, part |-> i, data |-> data] \in ReqState
  BY DEF ReqState, PartState
<1>4. \A u \in Upload, k \in 1..(Chunks + 1), b \in BOOLEAN :
         [pc |-> "assemble", upload |-> u, next |-> k, sound |-> b] \in ReqState
  BY DEF ReqState
<1>5. \A u \in Upload :
         [pc |-> "record", upload |-> u] \in ReqState /\ [pc |-> "tidy", upload |-> u] \in ReqState
  BY DEF ReqState
<1>6. \A u \in Upload, b \in BOOLEAN : [pc |-> "move", upload |-> u, covered |-> b] \in ReqState
  BY DEF ReqState
<1>7. \A u \in Upload, b \in BOOLEAN, n \in Name, pc \in {"cover", "commit"} :
         [pc |-> pc, upload |-> u, covered |-> b, name |-> n] \in ReqState
  BY DEF ReqState
<1>8. \A n \in Name : [pc |-> "delete", name |-> n] \in ReqState
  BY DEF ReqState
<1>9. [pc |-> "create"].pc = "create"
  OBVIOUS
<1>10. QED
  BY <1>1, <1>2, <1>3, <1>4, <1>5, <1>6, <1>7, <1>8, <1>9, Zenon

\* The rows of uploads, and what is written into them.
LEMMA RowTypes ==
    /\ \A x \in UploadRow \cup {NoRow, GoneRow} :
          /\ x.age \in {"none", "gone", "fresh", "old", "stale"}
          /\ x.age \in {"fresh", "old", "stale"} <=> x \in UploadRow
          /\ x.age = "none" <=> x = NoRow
    /\ \A x \in UploadRow :
          /\ x.completed \in BOOLEAN /\ x.published \in BOOLEAN
          /\ [x EXCEPT !.completed = TRUE] \in UploadRow
          /\ [x EXCEPT !.completed = TRUE].age = x.age
          /\ [x EXCEPT !.completed = TRUE].published = x.published
          /\ [x EXCEPT !.published = TRUE] \in UploadRow
          /\ [x EXCEPT !.published = TRUE].age = x.age
          /\ [x EXCEPT !.published = TRUE].published = TRUE
          /\ \A a \in {"fresh", "old", "stale"} :
                /\ [x EXCEPT !.age = a] \in UploadRow
                /\ [x EXCEPT !.age = a].age = a
                /\ [x EXCEPT !.age = a].completed = x.completed
                /\ [x EXCEPT !.age = a].published = x.published
    /\ NoRow.age = "none" /\ GoneRow.age = "gone"
    /\ [age |-> "fresh", completed |-> FALSE, published |-> FALSE] \in UploadRow
<1>1. NoRow.age = "none" /\ GoneRow.age = "gone"
  BY DEF NoRow, GoneRow
<1>2. ASSUME NEW x \in UploadRow
      PROVE  /\ x.age \in {"fresh", "old", "stale"}
             /\ x.completed \in BOOLEAN /\ x.published \in BOOLEAN
             /\ [x EXCEPT !.completed = TRUE] \in UploadRow
             /\ [x EXCEPT !.completed = TRUE].age = x.age
             /\ [x EXCEPT !.completed = TRUE].published = x.published
             /\ [x EXCEPT !.published = TRUE] \in UploadRow
             /\ [x EXCEPT !.published = TRUE].age = x.age
             /\ [x EXCEPT !.published = TRUE].published = TRUE
             /\ \A a \in {"fresh", "old", "stale"} :
                   /\ [x EXCEPT !.age = a] \in UploadRow
                   /\ [x EXCEPT !.age = a].age = a
                   /\ [x EXCEPT !.age = a].completed = x.completed
                   /\ [x EXCEPT !.age = a].published = x.published
  BY DEF UploadRow
<1>3. [age |-> "fresh", completed |-> FALSE, published |-> FALSE] \in UploadRow
  BY DEF UploadRow
<1>4. ASSUME NEW x \in UploadRow \cup {NoRow, GoneRow}
      PROVE  /\ x.age \in {"none", "gone", "fresh", "old", "stale"}
             /\ x.age \in {"fresh", "old", "stale"} <=> x \in UploadRow
             /\ x.age = "none" <=> x = NoRow
  <2>1. CASE x \in UploadRow
    <3>1. x.age \in {"fresh", "old", "stale"}
      BY <1>2, <2>1
    <3>2. QED
      BY <1>1, <2>1, <3>1
  <2>2. CASE x = NoRow
    <3>1. NoRow \notin UploadRow
      BY <1>1, <1>2
    <3>2. QED
      BY <1>1, <2>2, <3>1
  <2>3. CASE x = GoneRow
    <3>1. GoneRow \notin UploadRow
      BY <1>1, <1>2
    <3>2. QED
      BY <1>1, <2>3, <3>1
  <2>4. QED
    BY <2>1, <2>2, <2>3
<1>5. QED
  BY <1>1, <1>2, <1>3, <1>4, Zenon

\* The rows of videos.
LEMMA VideoTypes ==
    /\ \A v \in VideoRow \cup {NoVideo} :
          /\ v.status \in {"none", "published", "offline", "deleted"}
          /\ v.status = "none" <=> v = NoVideo
    /\ \A v \in VideoRow : v # NoVideo /\ v.upload \in Upload /\ v.covered \in BOOLEAN
    /\ \A v \in VideoRow, s \in {"published", "offline", "deleted"} :
          /\ [v EXCEPT !.status = s] \in VideoRow /\ [v EXCEPT !.status = s].status = s
          /\ [v EXCEPT !.status = s].upload = v.upload
          /\ [v EXCEPT !.status = s].covered = v.covered
    /\ NoVideo.status = "none"
    /\ \A u \in Upload, b \in BOOLEAN :
          /\ [status |-> "published", upload |-> u, covered |-> b] \in VideoRow
          /\ [status |-> "published", upload |-> u, covered |-> b].upload = u
          /\ [status |-> "published", upload |-> u, covered |-> b].covered = b
<1>1. NoVideo.status = "none"
  BY DEF NoVideo
<1>2. ASSUME NEW v \in VideoRow
      PROVE  /\ v.status \in {"published", "offline", "deleted"}
             /\ v.upload \in Upload /\ v.covered \in BOOLEAN
  BY DEF VideoRow
<1>3. ASSUME NEW v \in VideoRow, NEW s \in {"published", "offline", "deleted"}
      PROVE  /\ [v EXCEPT !.status = s] \in VideoRow /\ [v EXCEPT !.status = s].status = s
             /\ [v EXCEPT !.status = s].upload = v.upload
             /\ [v EXCEPT !.status = s].covered = v.covered
  BY DEF VideoRow
<1>4. ASSUME NEW u \in Upload, NEW b \in BOOLEAN
      PROVE  /\ [status |-> "published", upload |-> u, covered |-> b] \in VideoRow
             /\ [status |-> "published", upload |-> u, covered |-> b].upload = u
             /\ [status |-> "published", upload |-> u, covered |-> b].covered = b
  BY DEF VideoRow
<1>5. \A v \in VideoRow : v # NoVideo
  BY <1>1, <1>2
<1>6. ASSUME NEW v \in VideoRow \cup {NoVideo}
      PROVE  /\ v.status \in {"none", "published", "offline", "deleted"}
             /\ v.status = "none" <=> v = NoVideo
  <2>1. CASE v \in VideoRow
    <3>1. v.status \in {"published", "offline", "deleted"} /\ v # NoVideo
      BY <1>2, <1>5, <2>1
    <3>2. QED
      BY <3>1
  <2>2. CASE v = NoVideo
    BY <1>1, <2>2
  <2>3. QED
    BY <2>1, <2>2
<1>7. QED
  BY <1>1, <1>2, <1>3, <1>4, <1>5, <1>6, Zenon


\* The parts of the state, by their elements.
LEMMA UploadFacts ==
    ASSUME UploadsTypeOK
    PROVE  /\ \A u \in Upload : /\ row[u] \in UploadRow \cup {NoRow, GoneRow}
                                /\ parts[u] \in [Part -> PartState] /\ ready[u] \in FileState
                                /\ sweep[u] \in {"none", "listed", "emptied"} /\ assembled[u] \in Nat
           /\ \A n \in Name : shelf[n] \in FileState /\ video[n] \in VideoRow \cup {NoVideo}
           /\ \A c \in Caller : call[c] \in ReqState \cup {IdleCall}
  BY DEF UploadsTypeOK

\* A request goes on.
LEMMA GoesOn ==
    ASSUME UploadsTypeOK, NEW c \in Caller, NEW r \in ReqState \cup {IdleCall}, Goto(c, r)
    PROVE  /\ call' \in [Caller -> ReqState \cup {IdleCall}]
           /\ call'[c] = r /\ \A d \in Caller \ {c} : call'[d] = call[d]
<1>1. call \in [Caller -> ReqState \cup {IdleCall}]
  BY DEF UploadsTypeOK
<1>2. call' = [call EXCEPT ![c] = r]
  BY DEF Goto
<1>3. QED
  BY <1>1, <1>2

\* What a step does not change keeps its type.
LEMMA TypesKept ==
    ASSUME UploadsTypeOK,
           row' = row \/ row' \in [Upload -> UploadRow \cup {NoRow, GoneRow}],
           parts' = parts \/ parts' \in [Upload -> [Part -> PartState]],
           ready' = ready \/ ready' \in [Upload -> FileState],
           shelf' = shelf \/ shelf' \in [Name -> FileState],
           video' = video \/ video' \in [Name -> VideoRow \cup {NoVideo}],
           cover' = cover \/ cover' \in {"none", "tmp", "media"},
           call' = call \/ call' \in [Caller -> ReqState \cup {IdleCall}],
           sweep' = sweep \/ sweep' \in [Upload -> {"none", "listed", "emptied"}],
           faults' = faults \/ faults' \in 0..MaxFaults,
           assembled' = assembled \/ assembled' \in [Upload -> Nat],
           stranded' = stranded \/ stranded' \in SUBSET Upload,
           disowned' = disowned \/ disowned' \in SUBSET Name,
           removed' = removed \/ removed' \in SUBSET Name
    PROVE  UploadsTypeOK'
<1>1. row' \in [Upload -> UploadRow \cup {NoRow, GoneRow}]
  <2>1. row \in [Upload -> UploadRow \cup {NoRow, GoneRow}]
    BY DEF UploadsTypeOK
  <2>2. QED
    BY <2>1, Zenon
<1>2. parts' \in [Upload -> [Part -> PartState]]
  <2>1. parts \in [Upload -> [Part -> PartState]]
    BY DEF UploadsTypeOK
  <2>2. QED
    BY <2>1, Zenon
<1>3. ready' \in [Upload -> FileState]
  <2>1. ready \in [Upload -> FileState]
    BY DEF UploadsTypeOK
  <2>2. QED
    BY <2>1, Zenon
<1>4. shelf' \in [Name -> FileState]
  <2>1. shelf \in [Name -> FileState]
    BY DEF UploadsTypeOK
  <2>2. QED
    BY <2>1, Zenon
<1>5. video' \in [Name -> VideoRow \cup {NoVideo}]
  <2>1. video \in [Name -> VideoRow \cup {NoVideo}]
    BY DEF UploadsTypeOK
  <2>2. QED
    BY <2>1, Zenon
<1>6. cover' \in {"none", "tmp", "media"}
  <2>1. cover \in {"none", "tmp", "media"}
    BY DEF UploadsTypeOK
  <2>2. QED
    BY <2>1, Zenon
<1>7. call' \in [Caller -> ReqState \cup {IdleCall}]
  <2>1. call \in [Caller -> ReqState \cup {IdleCall}]
    BY DEF UploadsTypeOK
  <2>2. QED
    BY <2>1, Zenon
<1>8. sweep' \in [Upload -> {"none", "listed", "emptied"}]
  <2>1. sweep \in [Upload -> {"none", "listed", "emptied"}]
    BY DEF UploadsTypeOK
  <2>2. QED
    BY <2>1, Zenon
<1>9. faults' \in 0..MaxFaults
  <2>1. faults \in 0..MaxFaults
    BY DEF UploadsTypeOK
  <2>2. QED
    BY <2>1, Zenon
<1>10. assembled' \in [Upload -> Nat]
  <2>1. assembled \in [Upload -> Nat]
    BY DEF UploadsTypeOK
  <2>2. QED
    BY <2>1, Zenon
<1>11. stranded' \in SUBSET Upload
  <2>1. stranded \in SUBSET Upload
    BY DEF UploadsTypeOK
  <2>2. QED
    BY <2>1, Zenon
<1>12. removed' \in SUBSET Name
  <2>1. removed \in SUBSET Name
    BY DEF UploadsTypeOK
  <2>2. QED
    BY <2>1, Zenon
<1>13. disowned' \in SUBSET Name
  <2>1. disowned \in SUBSET Name
    BY DEF UploadsTypeOK
  <2>2. QED
    BY <2>1, Zenon
<1>14. QED
  BY <1>1, <1>2, <1>3, <1>4, <1>5, <1>6, <1>7, <1>8, <1>9, <1>10, <1>11, <1>12, <1>13, Zenon
  DEF UploadsTypeOK

\* A fault is counted.
LEMMA FaultTyped == UploadsTypeOK /\ Fault => faults' \in 0..MaxFaults
<1> SUFFICES ASSUME UploadsTypeOK, Fault PROVE faults' \in 0..MaxFaults
  OBVIOUS
<1>1. faults \in 0..MaxFaults /\ MaxFaults \in Nat
  BY UploadConstants DEF UploadsTypeOK
<1>2. faults < MaxFaults /\ faults' = faults + 1
  BY DEF Fault
<1>3. QED
  BY <1>1, <1>2

\* Whoever holds a file before or after the step does so before and after it.
HoldersKept == \A d \in Caller : Holding(d) \/ Holding(d)' => call'[d] = call[d]

\* Videos keep their upload and their cover.
VideosKept ==
    \A n \in Name :
        \/ video[n] = NoVideo /\ video'[n] = NoVideo
        \/ /\ video[n] # NoVideo /\ video'[n] # NoVideo
           /\ video'[n].upload = video[n].upload /\ video'[n].covered = video[n].covered

\* The names taken follow the videos and the holders.
LEMMA SameTaken ==
    ASSUME HoldersKept, VideosKept, disowned' = disowned, NEW u \in Upload
    PROVE  Taken(u)' = Taken(u)
<1>1. ASSUME NEW n \in Name
      PROVE  (video'[n] # NoVideo /\ video'[n].upload = u) <=> (video[n] # NoVideo /\ video[n].upload = u)
  BY DEF VideosKept
<1>2. ASSUME NEW n \in Name
      PROVE  (\E c \in Caller : Holding(c)' /\ call'[c].name = n /\ call'[c].upload = u)
             <=> (\E c \in Caller : Holding(c) /\ call[c].name = n /\ call[c].upload = u)
  BY DEF HoldersKept, Holding
<1>3. Taken(u)' = {n \in Name : \/ video'[n] # NoVideo /\ video'[n].upload = u /\ n \notin disowned
                                \/ \E c \in Caller : Holding(c)' /\ call'[c].name = n /\ call'[c].upload = u}
  BY DEF Taken
<1>4. QED
  BY <1>1, <1>2, <1>3, Zenon DEF Taken

\* The names taken are finitely many.
LEMMA TakenFinite ==
    /\ \A u \in Upload : IsFiniteSet(Taken(u)) /\ Cardinality(Taken(u)) \in Nat
    /\ \A u \in Upload : IsFiniteSet(Taken(u)') /\ Cardinality(Taken(u)') \in Nat
<1>1. \A u \in Upload : Taken(u) \subseteq Name /\ Taken(u)' \subseteq Name
  BY DEF Taken
<1>2. QED
  BY <1>1, UploadConstants, FS_Subset, FS_CardinalityType

\* A step that neither moves a file nor makes a video.
LEMMA FilesKept ==
    ASSUME UploadsInv, UploadsTypeOK', HoldersKept, VideosKept, shelf' = shelf,
           disowned' = disowned, assembled' = assembled, cover = "media" => cover' = "media",
           \A u \in Upload : ready'[u] \in {"none", ready[u]}
    PROVE  FileInv' /\ CoverInv' /\ FileCountInv'
<1>1. FileInv'
  <2>1. \A u \in Upload : ready'[u] # "broken"
    BY DEF UploadsInv, FileInv
  <2>2. ASSUME NEW c \in Caller, Holding(c)'
        PROVE  shelf'[call'[c].name] = "whole" /\ video'[call'[c].name] = NoVideo
    <3>1. call'[c] = call[c] /\ Holding(c)
      BY <2>2 DEF HoldersKept, Holding
    <3>2. shelf[call[c].name] = "whole" /\ video[call[c].name] = NoVideo
      BY <3>1 DEF UploadsInv, FileInv
    <3>3. call[c].name \in Name
      BY <3>1, UploadFacts, CallTypes DEF UploadsInv, Holding
    <3>4. QED
      BY <3>1, <3>2, <3>3 DEF VideosKept
  <2>3. ASSUME NEW c \in Caller, NEW d \in Caller, Holding(c)', Holding(d)', call'[c].name = call'[d].name
        PROVE  c = d
    <3>1. call'[c] = call[c] /\ Holding(c) /\ call'[d] = call[d] /\ Holding(d)
      BY <2>3 DEF HoldersKept, Holding
    <3>2. QED
      BY <2>3, <3>1 DEF UploadsInv, FileInv
  <2>4. \A n \in Name : video'[n] # NoVideo => shelf'[n] = "whole" \/ n \in disowned'
    BY DEF UploadsInv, FileInv, VideosKept
  <2>5. QED
    BY <2>1, <2>2, <2>3, <2>4 DEF FileInv, Holding
<1>2. CoverInv'
  <2>1. ASSUME NEW c \in Caller, call'[c].pc = "commit", call'[c].covered = TRUE
        PROVE  cover' = "media"
    <3>1. call'[c] = call[c]
      BY <2>1 DEF HoldersKept, Holding
    <3>2. QED
      BY <2>1, <3>1 DEF UploadsInv, CoverInv
  <2>2. ASSUME NEW n \in Name, video'[n] # NoVideo, video'[n].covered = TRUE
        PROVE  cover' = "media"
    <3>1. video[n] # NoVideo /\ video[n].covered = TRUE
      BY <2>2 DEF VideosKept
    <3>2. QED
      BY <3>1 DEF UploadsInv, CoverInv
  <2>3. QED
    BY <2>1, <2>2 DEF CoverInv
<1>3. FileCountInv'
  <2>1. SUFFICES ASSUME NEW u \in Upload
                 PROVE  Cardinality(Taken(u)') + Waiting(u)' <= assembled'[u]
    BY DEF FileCountInv
  <2>2. Cardinality(Taken(u)') = Cardinality(Taken(u))
    BY SameTaken
  <2>3. Waiting(u) \in {0, 1} /\ Waiting(u)' \in {0, Waiting(u)}
    BY DEF Waiting
  <2>4. Cardinality(Taken(u)) + Waiting(u) <= assembled[u]
    BY DEF UploadsInv, FileCountInv
  <2>5. Cardinality(Taken(u)) \in Nat /\ assembled[u] \in Nat
    BY TakenFinite, UploadFacts DEF UploadsInv
  <2>6. assembled'[u] = assembled[u]
    OBVIOUS
  <2> HIDE DEF Taken, Waiting
  <2>7. QED
    BY <2>2, <2>3, <2>4, <2>5, <2>6
<1>4. QED
  BY <1>1, <1>2, <1>3


\* A step that marks no video deleted.
LEMMA DeletedKept ==
    ASSUME UploadsInv, VideosKept, removed' = removed,
           \A n \in Name : video[n].status = "deleted" => video'[n].status = "deleted",
           \A d \in Caller : call'[d].pc = "delete" =>
               call'[d] = call[d] \/ (call'[d].name \in Name /\ video[call'[d].name] # NoVideo)
    PROVE  DeleteInv'
<1>1. ASSUME NEW d \in Caller, call'[d].pc = "delete"
      PROVE  video'[call'[d].name] # NoVideo
  <2>1. call'[d].name \in Name /\ video[call'[d].name] # NoVideo
    <3>1. CASE call'[d] = call[d]
      <4>1. call[d].name \in Name
        BY <1>1, <3>1, UploadFacts, CallTypes DEF UploadsInv
      <4>2. QED
        BY <1>1, <3>1, <4>1 DEF UploadsInv, DeleteInv
    <3>2. QED
      BY <1>1, <3>1
  <2>2. QED
    BY <2>1 DEF VideosKept
<1>2. \A n \in removed' : video'[n].status = "deleted"
  <2>1. removed \subseteq Name
    BY DEF UploadsInv, UploadsTypeOK
  <2>2. QED
    BY <2>1 DEF UploadsInv, DeleteInv
<1>3. QED
  BY <1>1, <1>2 DEF DeleteInv

\* A file that is under tmp, held or lost stays so.
LEMMA AvailableKept ==
    ASSUME HoldersKept, NEW u \in Upload, Available(u), stranded \subseteq stranded',
           ready[u] = "whole" => ready'[u] = "whole"
    PROVE  Available(u)'
  BY DEF Available, HoldersKept, Holding

\* A step that leaves the rows of uploads alone.
LEMMA RowsKept ==
    ASSUME UploadsInv, row' = row, sweep' = sweep,
           \A u \in Upload : Available(u) => Available(u)',
           \A d \in Caller : call'[d].pc \in {"assemble", "record"} =>
               call'[d] = call[d] \/ row[call'[d].upload] # NoRow,
           \A d \in Caller, u \in Upload : call'[d].pc = "record" /\ call'[d].upload = u =>
               call'[d] = call[d] \/ Available(u)'
    PROVE  RowInv'
<1>1. ASSUME NEW u \in Upload, row'[u].age \in {"fresh", "old"}, row'[u].published = FALSE,
             row'[u].completed = TRUE \/ \E c \in Caller : call'[c].pc = "record" /\ call'[c].upload = u
      PROVE  Available(u)'
  <2>1. row'[u] = row[u]
    OBVIOUS
  <2>2. CASE row[u].completed = TRUE
    BY <1>1, <2>1, <2>2 DEF UploadsInv, RowInv
  <2>3. CASE \E c \in Caller : call'[c].pc = "record" /\ call'[c].upload = u
    <3>1. PICK c \in Caller : call'[c].pc = "record" /\ call'[c].upload = u
      BY <2>3
    <3>2. CASE call'[c] = call[c]
      <4>1. Available(u)
        BY <1>1, <2>1, <3>1, <3>2 DEF UploadsInv, RowInv
      <4>2. QED
        BY <4>1
    <3>3. CASE call'[c] # call[c]
      BY <3>1, <3>3
    <3>4. QED
      BY <3>2, <3>3
  <2>4. QED
    BY <1>1, <2>1, <2>2, <2>3
<1>2. ASSUME NEW d \in Caller, call'[d].pc \in {"assemble", "record"}
      PROVE  row'[call'[d].upload] # NoRow
  BY <1>2 DEF UploadsInv, RowInv
<1>3. \A u \in Upload : sweep'[u] # "none" => row'[u].age = "stale"
  BY DEF UploadsInv, RowInv
<1>4. QED
  BY <1>1, <1>2, <1>3 DEF RowInv

\* A request goes on without a file.
LEMMA CallMoves ==
    ASSUME UploadsInv, NEW c \in Caller, NEW r \in ReqState \cup {IdleCall}, Goto(c, r),
           ~Holding(c), r.pc \notin {"cover", "commit", "record"},
           r.pc = "assemble" => row[r.upload] # NoRow,
           r.pc = "delete" => video[r.name] # NoVideo,
           parts' = parts \/ parts' \in [Upload -> [Part -> PartState]],
           faults' = faults \/ faults' \in 0..MaxFaults,
           UNCHANGED <<row, ready, shelf, video, cover, sweep, assembled, stranded, disowned,
                       removed>>
    PROVE  UploadsInv'
<1>1. UploadsTypeOK
  BY DEF UploadsInv
<1>2. /\ call' \in [Caller -> ReqState \cup {IdleCall}]
      /\ call'[c] = r /\ \A d \in Caller \ {c} : call'[d] = call[d]
  BY <1>1, GoesOn
<1>3. /\ row' = row /\ ready' = ready /\ shelf' = shelf /\ video' = video /\ cover' = cover
      /\ sweep' = sweep /\ assembled' = assembled /\ stranded' = stranded
      /\ disowned' = disowned /\ removed' = removed
  OBVIOUS
<1>4. UploadsTypeOK'
  BY <1>1, <1>2, <1>3, TypesKept
<1>5. HoldersKept
  BY <1>2 DEF HoldersKept, Holding
<1>6. VideosKept
  BY <1>3 DEF VideosKept
<1>7. FileInv' /\ CoverInv' /\ FileCountInv'
  BY <1>3, <1>4, <1>5, <1>6, FilesKept
<1>8. DeleteInv'
  <2>1. r.pc = "delete" => r.name \in Name
    BY CallTypes
  <2>2. \A d \in Caller : call'[d].pc = "delete" =>
            call'[d] = call[d] \/ (call'[d].name \in Name /\ video[call'[d].name] # NoVideo)
    BY <1>2, <2>1
  <2>3. QED
    BY <1>3, <1>6, <2>2, DeletedKept
<1>9. RowInv'
  <2>1. \A u \in Upload : Available(u) => Available(u)'
    BY <1>3, <1>5, AvailableKept
  <2>2. \A d \in Caller : call'[d].pc \in {"assemble", "record"} =>
            call'[d] = call[d] \/ row[call'[d].upload] # NoRow
    BY <1>2
  <2>3. \A d \in Caller : call'[d].pc = "record" => call'[d] = call[d]
    BY <1>2
  <2>4. QED
    BY <1>3, <2>1, <2>2, <2>3, RowsKept
<1>10. QED
  BY <1>4, <1>7, <1>8, <1>9 DEF UploadsInv


\* Requests before they touch a file of their own: begun, stored, read or left.
LEMMA RequestsKeep ==
    ASSUME UploadsInv, NEW c \in Caller,
           \/ InitUpload(c) \/ ChunkStore(c) \/ CompletePart(c) \/ CompleteTidy(c)
           \/ \E u \in Upload : CompleteBegin(c, u)
           \/ \E u \in Upload, i \in Part, data \in {"good", "bad"} : ChunkBegin(c, u, i, data)
           \/ \E u \in Upload, covered \in BOOLEAN : PublishRead(c, u, covered)
           \/ \E n \in Name : DeleteRead(c, n)
    PROVE  UploadsInv'
<1>1. UploadsTypeOK
  BY DEF UploadsInv
<1>2. call[c] \in ReqState \cup {IdleCall} /\ IdleCall.pc = "idle"
  BY <1>1, UploadFacts, CallsMade
<1>3. IdleCall \in ReqState \cup {IdleCall} /\ IdleCall.pc \notin {"cover", "commit", "record", "assemble", "delete"}
  BY <1>2
<1>4. call[c] = IdleCall => ~Holding(c)
  BY <1>2 DEF Holding
<1>5. parts \in [Upload -> [Part -> PartState]]
  BY <1>1 DEF UploadsTypeOK
<1>6. CASE InitUpload(c)
  <2>1. /\ call[c] = IdleCall /\ Goto(c, [pc |-> "create"])
        /\ parts' = parts /\ faults' = faults
        /\ UNCHANGED <<row, ready, shelf, video, cover, sweep, assembled, stranded, disowned,
                       removed>>
    BY <1>6 DEF InitUpload
  <2>2. [pc |-> "create"] \in ReqState \cup {IdleCall} /\ [pc |-> "create"].pc = "create"
    BY CallsMade
  <2>3. QED
    BY <1>4, <2>1, <2>2, CallMoves
<1>7. CASE ChunkStore(c)
  <2>1. /\ call[c].pc = "chunk" /\ Goto(c, IdleCall) /\ faults' = faults
        /\ parts' = [parts EXCEPT ![call[c].upload][call[c].part] = call[c].data] \/ parts' = parts
        /\ UNCHANGED <<row, ready, shelf, video, cover, sweep, assembled, stranded, disowned,
                       removed>>
    BY <1>7 DEF ChunkStore, Done
  <2>2. call[c].upload \in Upload /\ call[c].part \in Part /\ call[c].data \in PartState
    BY <1>2, <2>1, CallTypes DEF PartState
  <2>3. parts' \in [Upload -> [Part -> PartState]]
    <3>1. parts[call[c].upload] \in [Part -> PartState]
      BY <1>5, <2>2
    <3>2. [parts[call[c].upload] EXCEPT ![call[c].part] = call[c].data] \in [Part -> PartState]
      BY <2>2, <3>1
    <3>3. QED
      BY <1>5, <2>1, <2>2, <3>2
  <2>4. ~Holding(c)
    BY <2>1 DEF Holding
  <2>5. QED
    BY <1>3, <2>1, <2>3, <2>4, CallMoves
<1>8. CASE CompletePart(c)
  <2>1. /\ call[c].pc = "assemble" /\ call[c].next <= Chunks
        /\ parts' = parts /\ faults' = faults
        /\ UNCHANGED <<row, ready, shelf, video, cover, sweep, assembled, stranded, disowned,
                       removed>>
    BY <1>8 DEF CompletePart
  <2>2. ~Holding(c)
    BY <2>1 DEF Holding
  <2>3. CASE Goto(c, IdleCall)
    BY <1>3, <2>1, <2>2, <2>3, CallMoves
  <2>4. CASE ~Goto(c, IdleCall)
    <3>1. PICK b \in BOOLEAN :
             b = (call[c].sound /\ parts[call[c].upload][call[c].next] = "good")
      OBVIOUS
    <3>2. Goto(c, [call[c] EXCEPT !.next = @ + 1, !.sound = b])
      BY <1>8, <2>4, <3>1 DEF CompletePart, Done
    <3>3. call[c] \in [pc: {"assemble"}, upload: Upload, next: 1..Chunks + 1, sound: BOOLEAN]
      BY <1>2, <2>1 DEF ReqState
    <3>4. PICK x : x = [call[c] EXCEPT !.next = @ + 1, !.sound = b]
      OBVIOUS
    <3>5. call[c].next + 1 \in 1..(Chunks + 1)
      BY <2>1, <3>3, UploadConstants
    <3>6. PICK m \in 1..(Chunks + 1) : m = call[c].next + 1
      BY <3>5
    <3>7. x = [call[c] EXCEPT !.next = m, !.sound = b]
      BY <3>4, <3>6
    <3>8. x \in [pc: {"assemble"}, upload: Upload, next: 1..Chunks + 1, sound: BOOLEAN]
      BY <3>1, <3>3, <3>6, <3>7
    <3>9. x.pc = "assemble" /\ x.upload = call[c].upload /\ x \in ReqState \cup {IdleCall}
      BY <3>3, <3>7, <3>8 DEF ReqState
    <3>10. row[call[c].upload] # NoRow
      BY <2>1 DEF UploadsInv, RowInv
    <3>11. Goto(c, x)
      BY <3>2, <3>4
    <3>12. QED
      BY <2>1, <2>2, <3>9, <3>10, <3>11, CallMoves
  <2>5. QED
    BY <2>3, <2>4
<1>9. CASE CompleteTidy(c)
  <2>1. /\ call[c].pc = "tidy" /\ Goto(c, IdleCall) /\ faults' = faults
        /\ parts' = [parts EXCEPT ![call[c].upload] = [i \in Part |-> "none"]]
        /\ UNCHANGED <<row, ready, shelf, video, cover, sweep, assembled, stranded, disowned,
                       removed>>
    BY <1>9 DEF CompleteTidy, Done
  <2>2. parts' \in [Upload -> [Part -> PartState]]
    BY <1>5, <2>1 DEF PartState
  <2>3. ~Holding(c)
    BY <2>1 DEF Holding
  <2>4. QED
    BY <1>3, <2>1, <2>2, <2>3, CallMoves
<1>10. CASE \E u \in Upload : CompleteBegin(c, u)
  <2>1. PICK u \in Upload : CompleteBegin(c, u)
    BY <1>10
  <2>2. PICK x : x = [pc |-> "assemble", upload |-> u, next |-> 1, sound |-> TRUE]
    OBVIOUS
  <2>3. /\ call[c] = IdleCall /\ row[u].age = "fresh" /\ Goto(c, x)
        /\ parts' = parts /\ faults' = faults
        /\ UNCHANGED <<row, ready, shelf, video, cover, sweep, assembled, stranded, disowned,
                       removed>>
    BY <2>1, <2>2 DEF CompleteBegin, OpenFor
  <2>4. x \in ReqState \cup {IdleCall} /\ x.pc = "assemble" /\ x.upload = u
    <3>1. 1 \in 1..(Chunks + 1)
      BY UploadConstants
    <3>2. QED
      BY <2>2, <3>1, CallsMade
  <2>5. row[u] # NoRow
    BY <2>3, RowTypes
  <2>6. QED
    BY <1>4, <2>3, <2>4, <2>5, CallMoves
<1>11. CASE \E u \in Upload, i \in Part, data \in {"good", "bad"} : ChunkBegin(c, u, i, data)
  <2>1. PICK u \in Upload, i \in Part, data \in {"good", "bad"} : ChunkBegin(c, u, i, data)
    BY <1>11
  <2>2. PICK x : x = [pc |-> "chunk", upload |-> u, part |-> i, data |-> data]
    OBVIOUS
  <2>3. /\ call[c] = IdleCall /\ Goto(c, x) /\ parts' = parts /\ faults' = faults
        /\ UNCHANGED <<row, ready, shelf, video, cover, sweep, assembled, stranded, disowned,
                       removed>>
    BY <2>1, <2>2 DEF ChunkBegin
  <2>4. x \in ReqState \cup {IdleCall} /\ x.pc = "chunk"
    BY <2>2, CallsMade
  <2>5. QED
    BY <1>4, <2>3, <2>4, CallMoves
<1>12. CASE \E u \in Upload, covered \in BOOLEAN : PublishRead(c, u, covered)
  <2>1. PICK u \in Upload, covered \in BOOLEAN : PublishRead(c, u, covered)
    BY <1>12
  <2>2. PICK x : x = [pc |-> "move", upload |-> u, covered |-> covered]
    OBVIOUS
  <2>3. /\ call[c] = IdleCall /\ Goto(c, x) /\ parts' = parts /\ faults' = faults
        /\ UNCHANGED <<row, ready, shelf, video, cover, sweep, assembled, stranded, disowned,
                       removed>>
    BY <2>1, <2>2 DEF PublishRead
  <2>4. x \in ReqState \cup {IdleCall} /\ x.pc = "move"
    BY <2>2, CallsMade
  <2>5. QED
    BY <1>4, <2>3, <2>4, CallMoves
<1>13. CASE \E n \in Name : DeleteRead(c, n)
  <2>1. PICK n \in Name : DeleteRead(c, n)
    BY <1>13
  <2>2. PICK x : x = [pc |-> "delete", name |-> n]
    OBVIOUS
  <2>3. /\ call[c] = IdleCall /\ Goto(c, x) /\ video[n].status \in {"published", "offline"}
        /\ parts' = parts /\ faults' = faults
        /\ UNCHANGED <<row, ready, shelf, video, cover, sweep, assembled, stranded, disowned,
                       removed>>
    BY <2>1, <2>2 DEF DeleteRead
  <2>4. x \in ReqState \cup {IdleCall} /\ x.pc = "delete" /\ x.name = n
    BY <2>2, CallsMade
  <2>5. video[n] # NoVideo
    BY <2>3, VideoTypes
  <2>6. QED
    BY <1>4, <2>3, <2>4, <2>5, CallMoves
<1>14. QED
  BY <1>6, <1>7, <1>8, <1>9, <1>10, <1>11, <1>12, <1>13, Zenon


\* The row of a new upload.
LEMMA CreateKeeps ==
    ASSUME UploadsInv, NEW c \in Caller, NEW u \in Upload, CreateUpload(c, u)
    PROVE  UploadsInv'
<1> DEFINE new == [age |-> "fresh", completed |-> FALSE, published |-> FALSE]
<1>1. UploadsTypeOK
  BY DEF UploadsInv
<1>2. /\ call[c].pc = "create" /\ row[u] = NoRow /\ row' = [row EXCEPT ![u] = new] /\ Goto(c, IdleCall)
      /\ parts' = parts /\ ready' = ready /\ shelf' = shelf /\ video' = video /\ cover' = cover
      /\ sweep' = sweep /\ faults' = faults /\ assembled' = assembled /\ stranded' = stranded
      /\ disowned' = disowned /\ removed' = removed
  BY DEF CreateUpload, Done
<1>3. IdleCall.pc = "idle"
  BY CallsMade
<1>4. /\ call' \in [Caller -> ReqState \cup {IdleCall}]
      /\ call'[c] = IdleCall /\ \A d \in Caller \ {c} : call'[d] = call[d]
  BY <1>1, <1>2, GoesOn
<1>5. new \in UploadRow /\ new.age = "fresh" /\ new.completed = FALSE
  BY RowTypes
<1> HIDE DEF new
<1>6. row \in [Upload -> UploadRow \cup {NoRow, GoneRow}]
  BY <1>1 DEF UploadsTypeOK
<1>7. /\ row' \in [Upload -> UploadRow \cup {NoRow, GoneRow}]
      /\ row'[u] = new /\ \A v \in Upload \ {u} : row'[v] = row[v]
  BY <1>2, <1>5, <1>6
<1>8. UploadsTypeOK'
  BY <1>1, <1>2, <1>4, <1>7, TypesKept
<1>9. HoldersKept
  BY <1>2, <1>3, <1>4 DEF HoldersKept, Holding
<1>10. VideosKept
  BY <1>2 DEF VideosKept
<1>11. FileInv' /\ CoverInv' /\ FileCountInv'
  BY <1>2, <1>8, <1>9, <1>10, FilesKept
<1>12. DeleteInv'
  BY <1>2, <1>3, <1>4, <1>10, DeletedKept
<1>13. RowInv'
  <2>1. ASSUME NEW v \in Upload, row'[v].age \in {"fresh", "old"}, row'[v].published = FALSE,
               row'[v].completed = TRUE \/ \E d \in Caller : call'[d].pc = "record" /\ call'[d].upload = v
        PROVE  Available(v)'
    <3>1. (\E d \in Caller : call'[d].pc = "record" /\ call'[d].upload = v) =>
             \E d \in Caller : call[d].pc = "record" /\ call[d].upload = v
      BY <1>3, <1>4
    <3>2. v # u
      <4>1. SUFFICES ASSUME v = u PROVE FALSE
        OBVIOUS
      <4>2. \E d \in Caller : call[d].pc = "record" /\ call[d].upload = u
        BY <1>5, <1>7, <2>1, <3>1, <4>1
      <4>3. QED
        BY <1>2, <4>2 DEF UploadsInv, RowInv
    <3>3. row'[v] = row[v]
      BY <1>7, <3>2
    <3>4. Available(v)
      BY <2>1, <3>1, <3>3 DEF UploadsInv, RowInv
    <3>5. QED
      BY <1>2, <1>9, <3>4, AvailableKept
  <2>2. ASSUME NEW d \in Caller, call'[d].pc \in {"assemble", "record"} PROVE row'[call'[d].upload] # NoRow
    <3>1. call'[d] = call[d] /\ call[d].pc \in {"assemble", "record"}
      BY <1>3, <1>4, <2>2
    <3>2. call[d].upload \in Upload /\ row[call[d].upload] # NoRow
      <4>1. call[d] \in ReqState \cup {IdleCall}
        BY <1>1, UploadFacts
      <4>2. QED
        BY <3>1, <4>1, CallTypes DEF UploadsInv, RowInv
    <3>3. new # NoRow
      BY <1>5, RowTypes
    <3>4. QED
      BY <1>7, <3>1, <3>2, <3>3
  <2>3. ASSUME NEW v \in Upload, sweep'[v] # "none" PROVE row'[v].age = "stale"
    <3>1. row[v].age = "stale"
      BY <1>2, <2>3 DEF UploadsInv, RowInv
    <3>2. v # u
      BY <1>2, <3>1, RowTypes
    <3>3. QED
      BY <1>7, <3>1, <3>2
  <2>4. QED
    BY <2>1, <2>2, <2>3 DEF RowInv
<1>14. QED
  BY <1>8, <1>11, <1>12, <1>13 DEF UploadsInv

\* A file that has passed its checks is put in place.
LEMMA PlaceKeeps ==
    ASSUME UploadsInv, NEW c \in Caller, CompletePlace(c)
    PROVE  UploadsInv'
<1>1. UploadsTypeOK
  BY DEF UploadsInv
<1>2. /\ call[c].pc = "assemble"
      /\ parts' = parts /\ row' = row /\ shelf' = shelf /\ video' = video /\ cover' = cover
      /\ sweep' = sweep /\ faults' = faults /\ stranded' = stranded
      /\ disowned' = disowned /\ removed' = removed
  BY DEF CompletePlace
<1>3. call[c] \in ReqState \cup {IdleCall} /\ ~Holding(c)
  BY <1>1, <1>2, UploadFacts DEF Holding
<1>4. PICK u \in Upload : u = call[c].upload
  BY <1>2, <1>3, CallTypes
<1>5. CASE ~Checksum(call[c])
  <2>1. Goto(c, IdleCall) /\ ready' = ready /\ assembled' = assembled
    BY <1>5 DEF CompletePlace, Done
  <2>2. IdleCall.pc = "idle"
    BY CallsMade
  <2>3. IdleCall \in ReqState \cup {IdleCall}
    OBVIOUS
  <2>4. QED
    BY <1>2, <1>3, <2>1, <2>2, <2>3, CallMoves
<1>6. CASE Checksum(call[c])
  <2>1. PICK x : x = [pc |-> "record", upload |-> u]
    OBVIOUS
  <2>2. /\ ready' = [ready EXCEPT ![u] = "whole"] /\ assembled' = [assembled EXCEPT ![u] = @ + 1]
        /\ Goto(c, x)
    BY <1>4, <1>6, <2>1 DEF CompletePlace, Checksum
  <2>3. x \in ReqState \cup {IdleCall} /\ x.pc = "record" /\ x.upload = u
    BY <2>1, CallsMade
  <2>4. /\ call' \in [Caller -> ReqState \cup {IdleCall}]
        /\ call'[c] = x /\ \A d \in Caller \ {c} : call'[d] = call[d]
    BY <1>1, <2>2, <2>3, GoesOn
  <2>5. ready \in [Upload -> FileState] /\ assembled \in [Upload -> Nat]
    BY <1>1 DEF UploadsTypeOK
  <2>6. /\ ready' \in [Upload -> FileState] /\ assembled' \in [Upload -> Nat]
        /\ ready'[u] = "whole" /\ assembled'[u] = assembled[u] + 1
        /\ \A v \in Upload \ {u} : ready'[v] = ready[v] /\ assembled'[v] = assembled[v]
    BY <2>2, <2>5 DEF FileState
  <2>7. UploadsTypeOK'
    BY <1>1, <1>2, <2>4, <2>6, TypesKept
  <2>8. HoldersKept
    BY <1>3, <2>3, <2>4 DEF HoldersKept, Holding
  <2>9. VideosKept
    BY <1>2 DEF VideosKept
  <2>10. FileInv'
    <3>1. \A v \in Upload : ready'[v] # "broken"
      BY <2>6 DEF UploadsInv, FileInv
    <3>2. \A d \in Caller : Holding(d)' => Holding(d) /\ call'[d] = call[d]
      BY <2>8 DEF HoldersKept, Holding
    <3>3. QED
      BY <1>2, <3>1, <3>2 DEF UploadsInv, FileInv, Holding
  <2>11. CoverInv'
    <3>1. \A d \in Caller : call'[d].pc = "commit" => call'[d] = call[d]
      BY <2>3, <2>4
    <3>2. QED
      BY <1>2, <3>1 DEF UploadsInv, CoverInv
  <2>12. FileCountInv'
    <3>1. SUFFICES ASSUME NEW v \in Upload
                   PROVE  Cardinality(Taken(v)') + Waiting(v)' <= assembled'[v]
      BY DEF FileCountInv
    <3>2. Cardinality(Taken(v)') = Cardinality(Taken(v))
      BY <1>2, <2>8, <2>9, SameTaken
    <3>3. Cardinality(Taken(v)) + Waiting(v) <= assembled[v]
      BY DEF UploadsInv, FileCountInv
    <3>4. Cardinality(Taken(v)) \in Nat /\ assembled[v] \in Nat
      BY <1>1, TakenFinite, UploadFacts
    <3>5. Waiting(v) \in {0, 1} /\ Waiting(v)' \in {0, 1} /\ (v # u => Waiting(v)' = Waiting(v))
      BY <2>6 DEF Waiting
    <3>6. assembled'[v] = IF v = u THEN assembled[v] + 1 ELSE assembled[v]
      BY <2>6
    <3>7. QED
      BY <3>2, <3>3, <3>4, <3>5, <3>6
  <2>13. DeleteInv'
    <3>1. \A d \in Caller : call'[d].pc = "delete" => call'[d] = call[d]
      BY <2>3, <2>4
    <3>2. QED
      BY <1>2, <2>9, <3>1, DeletedKept
  <2>14. RowInv'
    <3>1. \A v \in Upload : Available(v) => Available(v)'
      BY <1>2, <2>6, <2>8, AvailableKept
    <3>2. row[u] # NoRow
      BY <1>2, <1>4 DEF UploadsInv, RowInv
    <3>3. Available(u)'
      BY <2>6 DEF Available
    <3>4. \A d \in Caller : call'[d] = call[d] \/ (row[call'[d].upload] # NoRow /\ call'[d].upload = u)
      BY <2>3, <2>4, <3>2
    <3>5. QED
      BY <1>2, <3>1, <3>3, <3>4, RowsKept
  <2>15. QED
    BY <2>7, <2>10, <2>11, <2>12, <2>13, <2>14 DEF UploadsInv
<1>7. QED
  BY <1>5, <1>6


\* A step of the rows, of the cleanup or of a cover.
LEMMA RowsMove ==
    ASSUME UploadsInv, UploadsTypeOK', HoldersKept, video' = video, shelf' = shelf,
           assembled' = assembled, disowned' = disowned, removed' = removed,
           cover = "media" => cover' = "media",
           \A u \in Upload : ready'[u] \in {"none", ready[u]},
           \A d \in Caller : call'[d].pc = "delete" => call'[d] = call[d],
           RowInv'
    PROVE  UploadsInv'
<1>1. VideosKept
  BY DEF VideosKept
<1>2. FileInv' /\ CoverInv' /\ FileCountInv'
  BY <1>1, FilesKept
<1>3. DeleteInv'
  BY <1>1, DeletedKept
<1>4. QED
  BY <1>2, <1>3 DEF UploadsInv

\* The row says that the file is there.
LEMMA RecordKeeps ==
    ASSUME UploadsInv, NEW c \in Caller, CompleteRecord(c)
    PROVE  UploadsInv'
<1>1. UploadsTypeOK
  BY DEF UploadsInv
<1>2. /\ call[c].pc = "record" /\ parts' = parts /\ ready' = ready /\ shelf' = shelf /\ video' = video
      /\ cover' = cover /\ sweep' = sweep /\ faults' = faults /\ assembled' = assembled
      /\ stranded' = stranded
      /\ disowned' = disowned /\ removed' = removed
  BY DEF CompleteRecord
<1>3. call[c] \in ReqState \cup {IdleCall} /\ ~Holding(c)
  BY <1>1, <1>2, UploadFacts DEF Holding
<1>4. PICK u \in Upload : u = call[c].upload
  BY <1>2, <1>3, CallTypes
<1>5. PICK x : x = [pc |-> "tidy", upload |-> u]
  OBVIOUS
<1>6. x \in ReqState \cup {IdleCall} /\ x.pc = "tidy" /\ x.upload = u
  BY <1>5, CallsMade
<1>7. Goto(c, x) /\ row' = IF Alive(u) THEN [row EXCEPT ![u].completed = TRUE] ELSE row
  BY <1>4, <1>5 DEF CompleteRecord
<1>8. /\ call' \in [Caller -> ReqState \cup {IdleCall}]
      /\ call'[c] = x /\ \A d \in Caller \ {c} : call'[d] = call[d]
  BY <1>1, <1>6, <1>7, GoesOn
<1>9. row \in [Upload -> UploadRow \cup {NoRow, GoneRow}]
  BY <1>1 DEF UploadsTypeOK
<1>10. /\ row' \in [Upload -> UploadRow \cup {NoRow, GoneRow}]
       /\ \A v \in Upload : /\ row'[v].age = row[v].age
                            /\ row[v].age \in {"fresh", "old"} => row'[v].published = row[v].published
                            /\ v # u => row'[v] = row[v]
  <2>1. CASE ~Alive(u)
    BY <1>7, <1>9, <2>1
  <2>2. CASE Alive(u)
    <3>1. row[u] \in UploadRow
      BY <1>9, <2>2, RowTypes DEF Alive
    <3>2. PICK y : y = [row[u] EXCEPT !.completed = TRUE]
      OBVIOUS
    <3>3. y \in UploadRow /\ y.age = row[u].age /\ y.published = row[u].published
      BY <3>1, <3>2, RowTypes
    <3>4. row' = [row EXCEPT ![u] = y]
      BY <1>7, <2>2, <3>2
    <3>5. QED
      BY <1>9, <3>3, <3>4
  <2>3. QED
    BY <2>1, <2>2
<1>11. UploadsTypeOK'
  BY <1>1, <1>2, <1>8, <1>10, TypesKept
<1>12. HoldersKept
  BY <1>3, <1>6, <1>8 DEF HoldersKept, Holding
<1>13. RowInv'
  <2>1. ASSUME NEW v \in Upload, row'[v].age \in {"fresh", "old"}, row'[v].published = FALSE,
               row'[v].completed = TRUE \/ \E d \in Caller : call'[d].pc = "record" /\ call'[d].upload = v
        PROVE  Available(v)'
    <3>1. row[v].age \in {"fresh", "old"} /\ row[v].published = FALSE
      BY <1>10, <2>1
    <3>2. row[v].completed = TRUE \/ \E d \in Caller : call[d].pc = "record" /\ call[d].upload = v
      <4>1. CASE v = u
        BY <1>2, <1>4, <4>1
      <4>2. CASE v # u
        <5>1. row'[v] = row[v]
          BY <1>10, <4>2
        <5>2. QED
          BY <1>6, <1>8, <2>1, <5>1
      <4>3. QED
        BY <4>1, <4>2
    <3>3. Available(v)
      BY <3>1, <3>2 DEF UploadsInv, RowInv
    <3>4. QED
      BY <1>2, <1>12, <3>3, AvailableKept
  <2>2. ASSUME NEW d \in Caller, call'[d].pc \in {"assemble", "record"} PROVE row'[call'[d].upload] # NoRow
    <3>1. call'[d] = call[d] /\ call[d].pc \in {"assemble", "record"}
      BY <1>6, <1>8, <2>2
    <3>2. call[d].upload \in Upload /\ row[call[d].upload] # NoRow
      <4>1. call[d] \in ReqState \cup {IdleCall}
        BY <1>1, UploadFacts
      <4>2. QED
        BY <3>1, <4>1, CallTypes DEF UploadsInv, RowInv
    <3>3. row[call[d].upload].age # "none"
      BY <1>9, <3>2, RowTypes
    <3>4. row'[call[d].upload].age # "none"
      BY <1>10, <3>2, <3>3
    <3>5. QED
      BY <3>1, <3>4, RowTypes
  <2>3. \A v \in Upload : sweep'[v] # "none" => row'[v].age = "stale"
    BY <1>2, <1>10 DEF UploadsInv, RowInv
  <2>4. QED
    BY <2>1, <2>2, <2>3 DEF RowInv
<1>14. \A d \in Caller : call'[d].pc = "delete" => call'[d] = call[d]
  BY <1>6, <1>8
<1>15. QED
  BY <1>2, <1>11, <1>12, <1>13, <1>14, RowsMove

\* Time passes, and the cleanup takes its steps.
LEMMA CleanupKeeps ==
    ASSUME UploadsInv,
           \/ \E u \in Upload : Age(u) \/ CleanupFiles(u) \/ CleanupRow(u)
           \/ CleanupList \/ CleanupStops \/ UploadCover
    PROVE  UploadsInv'
<1>1. UploadsTypeOK
  BY DEF UploadsInv
<1>2. /\ shelf' = shelf /\ video' = video /\ call' = call /\ assembled' = assembled
      /\ stranded' = stranded
      /\ disowned' = disowned /\ removed' = removed
  BY DEF Age, CleanupFiles, CleanupRow, CleanupList, CleanupStops, UploadCover
<1>3. HoldersKept
  BY <1>2 DEF HoldersKept
<1>4. cover' = cover \/ (cover = "none" /\ cover' = "tmp")
  BY DEF Age, CleanupFiles, CleanupRow, CleanupList, CleanupStops, UploadCover
<1>5. /\ row \in [Upload -> UploadRow \cup {NoRow, GoneRow}] /\ ready \in [Upload -> FileState]
      /\ sweep \in [Upload -> {"none", "listed", "emptied"}]
      /\ parts \in [Upload -> [Part -> PartState]]
  BY <1>1 DEF UploadsTypeOK
<1>6. ASSUME UploadsTypeOK', RowInv', \A u \in Upload : ready'[u] \in {"none", ready[u]}
      PROVE  UploadsInv'
  BY <1>2, <1>3, <1>4, <1>6, RowsMove
<1>7. ASSUME \A u \in Upload : /\ row'[u].age \in {"fresh", "old"} =>
                                    /\ row[u].age \in {"fresh", "old"}
                                    /\ row'[u].completed = row[u].completed
                                    /\ row'[u].published = row[u].published
                                    /\ ready'[u] = ready[u]
                               /\ row[u] # NoRow => row'[u] # NoRow,
             \A u \in Upload : sweep'[u] # "none" => row'[u].age = "stale"
      PROVE  RowInv'
  <2>1. ASSUME NEW v \in Upload, row'[v].age \in {"fresh", "old"}, row'[v].published = FALSE,
               row'[v].completed = TRUE \/ \E d \in Caller : call'[d].pc = "record" /\ call'[d].upload = v
        PROVE  Available(v)'
    <3>1. Available(v)
      BY <1>2, <1>7, <2>1 DEF UploadsInv, RowInv
    <3>2. ready'[v] = ready[v]
      BY <1>7, <2>1
    <3>3. QED
      BY <1>2, <1>3, <3>1, <3>2, AvailableKept
  <2>2. ASSUME NEW d \in Caller, call'[d].pc \in {"assemble", "record"} PROVE row'[call'[d].upload] # NoRow
    <3>1. call[d].upload \in Upload
      <4>1. call[d] \in ReqState \cup {IdleCall}
        BY <1>1, UploadFacts
      <4>2. QED
        BY <1>2, <2>2, <4>1, CallTypes
    <3>2. QED
      BY <1>2, <1>7, <2>2, <3>1 DEF UploadsInv, RowInv
  <2>3. QED
    BY <1>7, <2>1, <2>2 DEF RowInv
<1>8. ASSUME NEW u \in Upload, Age(u) PROVE UploadsInv'
  <2>1. /\ row[u].age \in {"fresh", "old"}
        /\ row' = [row EXCEPT ![u].age = IF @ = "fresh" THEN "old" ELSE "stale"]
        /\ parts' = parts /\ ready' = ready /\ sweep' = sweep /\ faults' = faults /\ cover' = cover
    BY <1>8 DEF Age
  <2>2. row[u] \in UploadRow
    <3>1. row[u] \in UploadRow \cup {NoRow, GoneRow} /\ row[u].age \in {"fresh", "old", "stale"}
      BY <1>5, <2>1
    <3>2. QED
      BY <3>1, RowTypes
  <2>3. PICK a \in {"old", "stale"} : a = IF row[u].age = "fresh" THEN "old" ELSE "stale"
    OBVIOUS
  <2>4. PICK y : y = [row[u] EXCEPT !.age = a]
    OBVIOUS
  <2>5. y \in UploadRow /\ y.age = a /\ y.completed = row[u].completed /\ y.published = row[u].published
    <3>1. a \in {"fresh", "old", "stale"}
      BY <2>3
    <3>2. QED
      BY <2>2, <2>4, <3>1 DEF UploadRow
  <2>6. row' = [row EXCEPT ![u] = y]
    BY <2>1, <2>3, <2>4
  <2>7. /\ row' \in [Upload -> UploadRow \cup {NoRow, GoneRow}]
        /\ row'[u] = y /\ \A v \in Upload \ {u} : row'[v] = row[v]
    BY <1>5, <2>5, <2>6
  <2>8. UploadsTypeOK'
    BY <1>1, <1>2, <2>1, <2>7, TypesKept
  <2>9. y # NoRow
    BY <2>3, <2>5, RowTypes
  <2>10. sweep[u] = "none"
    BY <2>1 DEF UploadsInv, RowInv
  <2>11. \A v \in Upload : sweep'[v] # "none" => row'[v].age = "stale"
    BY <2>1, <2>7, <2>10 DEF UploadsInv, RowInv
  <2>12. RowInv'
    BY <1>7, <2>1, <2>5, <2>7, <2>9, <2>11
  <2>13. QED
    BY <1>6, <2>1, <2>8, <2>12
<1>9. ASSUME NEW u \in Upload, CleanupFiles(u) PROVE UploadsInv'
  <2>1. /\ sweep[u] = "listed" /\ sweep' = [sweep EXCEPT ![u] = "emptied"]
        /\ parts' = [parts EXCEPT ![u] = [i \in Part |-> "none"]]
        /\ ready' = (IF row[u].completed THEN [ready EXCEPT ![u] = "none"] ELSE ready)
        /\ row' = row /\ faults' = faults /\ cover' = cover
    BY <1>9 DEF CleanupFiles
  <2>2. ready' = ready \/ ready' = [ready EXCEPT ![u] = "none"]
    BY <2>1
  <2>3. /\ ready' \in [Upload -> FileState] /\ ready'[u] \in {"none", ready[u]}
        /\ \A v \in Upload \ {u} : ready'[v] = ready[v]
    BY <1>5, <2>2 DEF FileState
  <2>4. /\ sweep' \in [Upload -> {"none", "listed", "emptied"}]
        /\ \A v \in Upload : sweep'[v] # "none" => sweep[v] # "none"
    BY <1>5, <2>1
  <2>5. parts' \in [Upload -> [Part -> PartState]]
    BY <1>5, <2>1 DEF PartState
  <2>6. UploadsTypeOK'
    BY <1>1, <1>2, <2>1, <2>3, <2>4, <2>5, TypesKept
  <2>7. row[u].age = "stale"
    BY <2>1 DEF UploadsInv, RowInv
  <2>8. \A v \in Upload : sweep'[v] # "none" => row'[v].age = "stale"
    BY <2>1, <2>4 DEF UploadsInv, RowInv
  <2>9. RowInv'
    BY <1>7, <2>1, <2>3, <2>7, <2>8
  <2>10. \A v \in Upload : ready'[v] \in {"none", ready[v]}
    BY <2>3
  <2>11. QED
    BY <1>6, <2>6, <2>9, <2>10
<1>10. ASSUME NEW u \in Upload, CleanupRow(u) PROVE UploadsInv'
  <2>1. /\ sweep[u] = "emptied" /\ sweep' = [sweep EXCEPT ![u] = "none"]
        /\ row' = [row EXCEPT ![u] = GoneRow]
        /\ parts' = parts /\ ready' = ready /\ faults' = faults /\ cover' = cover
    BY <1>10 DEF CleanupRow
  <2>2. /\ sweep' \in [Upload -> {"none", "listed", "emptied"}]
        /\ sweep'[u] = "none" /\ \A v \in Upload \ {u} : sweep'[v] = sweep[v]
    BY <1>5, <2>1
  <2>3. /\ row' \in [Upload -> UploadRow \cup {NoRow, GoneRow}]
        /\ row'[u] = GoneRow /\ \A v \in Upload \ {u} : row'[v] = row[v]
    BY <1>5, <2>1
  <2>4. UploadsTypeOK'
    BY <1>1, <1>2, <2>1, <2>2, <2>3, TypesKept
  <2>5. GoneRow # NoRow /\ GoneRow.age = "gone"
    BY RowTypes
  <2>6. \A v \in Upload : sweep'[v] # "none" => row'[v].age = "stale"
    BY <2>2, <2>3 DEF UploadsInv, RowInv
  <2>7. RowInv'
    BY <1>7, <2>1, <2>3, <2>5, <2>6
  <2>8. QED
    BY <1>6, <2>1, <2>4, <2>7
<1>11. ASSUME CleanupList PROVE UploadsInv'
  <2>1. /\ sweep' = [u \in Upload |->
              IF row[u].age = "stale" /\ ~row[u].published THEN "listed" ELSE "none"]
        /\ row' = row /\ parts' = parts /\ ready' = ready /\ faults' = faults /\ cover' = cover
    BY <1>11 DEF CleanupList
  <2>2. /\ sweep' \in [Upload -> {"none", "listed", "emptied"}]
        /\ \A v \in Upload : sweep'[v] # "none" => row[v].age = "stale"
    <3>1. \A v \in Upload : (IF row[v].age = "stale" /\ ~row[v].published THEN "listed" ELSE "none")
                                \in {"none", "listed", "emptied"}
      OBVIOUS
    <3>2. sweep' \in [Upload -> {"none", "listed", "emptied"}]
      BY <2>1, <3>1, Zenon
    <3>3. ASSUME NEW v \in Upload, sweep'[v] # "none" PROVE row[v].age = "stale"
      <4>1. sweep'[v] = IF row[v].age = "stale" /\ ~row[v].published THEN "listed" ELSE "none"
        BY <2>1, Zenon
      <4>2. QED
        BY <3>3, <4>1, Zenon
    <3>4. QED
      BY <3>2, <3>3
  <2>3. UploadsTypeOK'
    BY <1>1, <1>2, <2>1, <2>2, TypesKept
  <2>4. row' = row /\ ready' = ready
    BY <2>1
  <2>5. RowInv'
    BY <1>7, <2>2, <2>4
  <2>6. QED
    BY <1>6, <2>3, <2>4, <2>5
<1>12. ASSUME CleanupStops PROVE UploadsInv'
  <2>1. /\ sweep' = [u \in Upload |-> "none"] /\ Fault
        /\ row' = row /\ parts' = parts /\ ready' = ready /\ cover' = cover
    BY <1>12 DEF CleanupStops, NotSwept
  <2>2. /\ sweep' \in [Upload -> {"none", "listed", "emptied"}]
        /\ \A v \in Upload : sweep'[v] # "none" => row[v].age = "stale"
    BY <2>1
  <2>3. UploadsTypeOK'
    BY <1>1, <1>2, <2>1, <2>2, FaultTyped, TypesKept
  <2>4. RowInv'
    BY <1>7, <2>1, <2>2
  <2>5. QED
    BY <1>6, <2>1, <2>3, <2>4
<1>13. ASSUME UploadCover PROVE UploadsInv'
  <2>1. /\ row' = row /\ parts' = parts /\ ready' = ready /\ sweep' = sweep /\ faults' = faults
        /\ cover' = "tmp"
    BY <1>13 DEF UploadCover
  <2>2. UploadsTypeOK'
    BY <1>1, <1>2, <2>1, TypesKept
  <2>3. RowInv'
    BY <1>7, <2>1 DEF UploadsInv, RowInv
  <2>4. QED
    BY <1>6, <2>1, <2>2, <2>3
<1>14. QED
  BY <1>8, <1>9, <1>10, <1>11, <1>12, <1>13, Zenon


\* Who holds a file, and what.
LEMMA HolderFacts ==
    ASSUME UploadsInv, NEW c \in Caller, Holding(c)
    PROVE  /\ call[c].upload \in Upload /\ call[c].covered \in BOOLEAN /\ call[c].name \in Name
           /\ shelf[call[c].name] = "whole" /\ video[call[c].name] = NoVideo
           /\ call[c].name \in Taken(call[c].upload)
           /\ \A d \in Caller \ {c} : Holding(d) => call[d].name # call[c].name
<1>1. call[c] \in ReqState \cup {IdleCall}
  BY UploadFacts DEF UploadsInv
<1>2. call[c].upload \in Upload /\ call[c].covered \in BOOLEAN /\ call[c].name \in Name
  <2>1. call[c].pc \in {"cover", "commit"}
    BY DEF Holding
  <2>2. QED
    BY <1>1, <2>1, CallTypes, Zenon
<1>3. /\ shelf[call[c].name] = "whole" /\ video[call[c].name] = NoVideo
      /\ \A d \in Caller \ {c} : Holding(d) => call[d].name # call[c].name
  BY DEF UploadsInv, FileInv
<1>4. call[c].name \in Taken(call[c].upload)
  BY <1>2 DEF Taken
<1>5. QED
  BY <1>2, <1>3, <1>4

\* The count of an upload whose names have not grown.
LEMMA CountKept ==
    ASSUME UploadsInv, NEW u \in Upload, Taken(u)' \subseteq Taken(u), assembled'[u] = assembled[u],
           ready'[u] = "none" \/ ready'[u] = ready[u]
    PROVE  Cardinality(Taken(u)') + Waiting(u)' <= assembled'[u]
<1>1. Cardinality(Taken(u)') <= Cardinality(Taken(u))
  BY TakenFinite, FS_Subset
<1>2. Cardinality(Taken(u)') \in Nat /\ Cardinality(Taken(u)) \in Nat /\ assembled[u] \in Nat
  BY TakenFinite, UploadFacts DEF UploadsInv
<1>3. Cardinality(Taken(u)) + Waiting(u) <= assembled[u]
  BY DEF UploadsInv, FileCountInv
<1>4. Waiting(u) \in {0, 1} /\ Waiting(u)' \in {0, Waiting(u)}
  BY DEF Waiting
<1>5. QED
  BY <1>1, <1>2, <1>3, <1>4

\* The count of an upload that gets a file back for a name it loses.
LEMMA CountShrinks ==
    ASSUME UploadsInv, NEW u \in Upload, NEW n \in Taken(u), Taken(u)' \subseteq Taken(u) \ {n},
           assembled'[u] = assembled[u]
    PROVE  Cardinality(Taken(u)') + Waiting(u)' <= assembled'[u]
<1>1. IsFiniteSet(Taken(u)) /\ Cardinality(Taken(u)) \in Nat /\ Cardinality(Taken(u)') \in Nat
  BY TakenFinite
<1>2. IsFiniteSet(Taken(u) \ {n}) /\ Cardinality(Taken(u) \ {n}) = Cardinality(Taken(u)) - 1
  BY <1>1, FS_RemoveElement
<1>3. Cardinality(Taken(u)') <= Cardinality(Taken(u)) - 1
  BY <1>2, FS_Subset
<1>4. Waiting(u) \in {0, 1} /\ Waiting(u)' \in {0, 1}
  BY DEF Waiting
<1>5. Cardinality(Taken(u)) + Waiting(u) <= assembled[u] /\ assembled[u] \in Nat
  BY UploadFacts DEF UploadsInv, FileCountInv
<1>6. QED
  BY <1>1, <1>3, <1>4, <1>5

\* The file moves from tmp to the shelf.
LEMMA MoveKeeps ==
    ASSUME UploadsInv, NEW c \in Caller, NEW n \in Name, PublishMove(c, n)
    PROVE  UploadsInv'
<1>1. UploadsTypeOK
  BY DEF UploadsInv
<1>2. /\ call[c].pc = "move" /\ shelf[n] = "none" /\ video[n] = NoVideo
      /\ \A d \in Caller : call[d].pc \in {"cover", "commit"} => call[d].name # n
      /\ row' = row /\ parts' = parts /\ video' = video /\ cover' = cover /\ sweep' = sweep
      /\ faults' = faults /\ assembled' = assembled /\ stranded' = stranded
      /\ disowned' = disowned /\ removed' = removed
  BY DEF PublishMove
<1>3. call[c] \in ReqState \cup {IdleCall} /\ ~Holding(c)
  BY <1>1, <1>2, UploadFacts DEF Holding
<1>4. PICK u \in Upload : u = call[c].upload
  BY <1>2, <1>3, CallTypes
<1>5. call[c].covered \in BOOLEAN
  BY <1>2, <1>3, CallTypes, Zenon
<1>6. IdleCall.pc = "idle" /\ IdleCall \in ReqState \cup {IdleCall}
  BY CallsMade
<1>7. CASE ready[u] = "none"
  <2>1. Goto(c, IdleCall) /\ ready' = ready /\ shelf' = shelf
    BY <1>4, <1>7 DEF PublishMove, Done
  <2>2. QED
    BY <1>2, <1>3, <1>6, <2>1, CallMoves
<1>8. CASE ready[u] # "none"
  <2>1. PICK pc \in {"cover", "commit"} :
           /\ pc = IF call[c].covered THEN "cover" ELSE "commit"
           /\ pc = "commit" => call[c].covered # TRUE
    BY <1>5, Zenon
  <2>2. PICK x : x = [pc |-> pc, upload |-> u, covered |-> call[c].covered, name |-> n]
    OBVIOUS
  <2>3. /\ shelf' = [shelf EXCEPT ![n] = ready[u]] /\ ready' = [ready EXCEPT ![u] = "none"]
        /\ Goto(c, x)
    BY <1>4, <1>8, <2>1, <2>2 DEF PublishMove, LeftBehind
  <2>4. x \in ReqState \cup {IdleCall}
    BY <1>5, <2>2, CallsMade, Zenon
  <2>5. x.pc = pc /\ x.upload = u /\ x.name = n /\ (pc = "commit" => x.covered # TRUE)
    BY <2>1, <2>2
  <2>6. /\ call' \in [Caller -> ReqState \cup {IdleCall}]
        /\ call'[c] = x /\ \A d \in Caller \ {c} : call'[d] = call[d]
    BY <1>1, <2>3, <2>4, GoesOn
  <2>7. ready \in [Upload -> FileState] /\ shelf \in [Name -> FileState]
    BY <1>1 DEF UploadsTypeOK
  <2>8. ready[u] = "whole"
    BY <1>8, <2>7 DEF UploadsInv, FileInv, FileState
  <2>9. /\ ready' \in [Upload -> FileState] /\ ready'[u] = "none"
        /\ \A v \in Upload \ {u} : ready'[v] = ready[v]
        /\ shelf' \in [Name -> FileState] /\ shelf'[n] = "whole"
        /\ \A m \in Name \ {n} : shelf'[m] = shelf[m]
    BY <2>3, <2>7, <2>8 DEF FileState
  <2>10. UploadsTypeOK'
    BY <1>1, <1>2, <2>6, <2>9, TypesKept
  <2>11. Holding(c)' /\ \A d \in Caller \ {c} : Holding(d)' = Holding(d)
    BY <2>1, <2>5, <2>6 DEF Holding
  <2>12. \A d \in Caller : Holding(d) => call[d].name # n /\ d # c
    BY <1>2, <1>3 DEF Holding
  <2>13. FileInv'
    <3>1. \A v \in Upload : ready'[v] # "broken"
      BY <2>9 DEF UploadsInv, FileInv
    <3>2. ASSUME NEW d \in Caller, Holding(d)'
          PROVE  shelf'[call'[d].name] = "whole" /\ video'[call'[d].name] = NoVideo
      <4>1. CASE d = c
        BY <1>2, <2>5, <2>6, <2>9, <4>1
      <4>2. CASE d # c
        <5>1. Holding(d) /\ call'[d] = call[d] /\ call[d].name # n
          BY <2>6, <2>11, <2>12, <3>2, <4>2
        <5>2. call[d].name \in Name /\ shelf[call[d].name] = "whole" /\ video[call[d].name] = NoVideo
          BY <5>1, HolderFacts
        <5>3. QED
          BY <1>2, <2>9, <5>1, <5>2
      <4>3. QED
        BY <4>1, <4>2
    <3>3. ASSUME NEW d \in Caller, NEW e \in Caller, Holding(d)', Holding(e)', call'[d].name = call'[e].name
          PROVE  d = e
      <4>1. CASE d = c \/ e = c
        BY <2>5, <2>6, <2>11, <2>12, <3>3, <4>1
      <4>2. CASE d # c /\ e # c
        <5>1. Holding(d) /\ Holding(e) /\ call[d].name = call[e].name
          BY <2>6, <2>11, <3>3, <4>2
        <5>2. QED
          BY <5>1 DEF UploadsInv, FileInv
      <4>3. QED
        BY <4>1, <4>2
    <3>4. \A m \in Name : video'[m] # NoVideo => shelf'[m] = "whole" \/ m \in disowned'
      BY <1>2, <2>9 DEF UploadsInv, FileInv
    <3>5. QED
      BY <3>1, <3>2, <3>3, <3>4 DEF FileInv, Holding
  <2>14. CoverInv'
    BY <1>2, <2>5, <2>6 DEF UploadsInv, CoverInv
  <2>15. FileCountInv'
    <3>1. SUFFICES ASSUME NEW v \in Upload
                   PROVE  Cardinality(Taken(v)') + Waiting(v)' <= assembled'[v]
      BY DEF FileCountInv
    <3>2. CASE v # u
      <4>1. Taken(v)' \subseteq Taken(v)
        BY <1>2, <2>5, <2>6, <2>11, <3>2 DEF Taken
      <4>2. QED
        BY <1>2, <2>9, <3>2, <4>1, CountKept
    <3>3. CASE v = u
      <4>1. Taken(u)' \subseteq Taken(u) \cup {n}
        BY <1>2, <2>5, <2>6, <2>11 DEF Taken
      <4>2. n \notin Taken(u)
        BY <1>2, <2>12 DEF Taken
      <4>3. IsFiniteSet(Taken(u)) /\ Cardinality(Taken(u)) \in Nat /\ Cardinality(Taken(u)') \in Nat
        BY TakenFinite
      <4>4. IsFiniteSet(Taken(u) \cup {n}) /\ Cardinality(Taken(u) \cup {n}) = Cardinality(Taken(u)) + 1
        BY <4>2, <4>3, FS_AddElement
      <4>5. Cardinality(Taken(u)') <= Cardinality(Taken(u)) + 1
        BY <4>1, <4>4, FS_Subset
      <4>6. Waiting(u) = 1 /\ Waiting(u)' = 0
        BY <2>8, <2>9 DEF Waiting
      <4>7. Cardinality(Taken(u)) + Waiting(u) <= assembled[u] /\ assembled[u] \in Nat
        BY <1>1, UploadFacts DEF UploadsInv, FileCountInv
      <4>8. assembled'[u] = assembled[u]
        BY <1>2
      <4>9. Cardinality(Taken(u)') + Waiting(u)' <= assembled'[u]
        BY <4>3, <4>5, <4>6, <4>7, <4>8
      <4>10. QED
        BY <3>3, <4>9
    <3>4. QED
      BY <3>2, <3>3
  <2>16. DeleteInv'
    <3>1. \A d \in Caller : call'[d].pc = "delete" => call'[d] = call[d]
      BY <2>1, <2>5, <2>6
    <3>2. VideosKept
      BY <1>2 DEF VideosKept
    <3>3. QED
      BY <1>2, <3>1, <3>2, DeletedKept
  <2>17. RowInv'
    <3>1. ASSUME NEW v \in Upload, Available(v) PROVE Available(v)'
      <4>1. CASE v = u
        BY <2>5, <2>6, <2>11, <4>1 DEF Available
      <4>2. CASE v # u
        BY <1>2, <1>3, <2>6, <2>9, <2>11, <3>1, <4>2 DEF Available
      <4>3. QED
        BY <4>1, <4>2
    <3>2. \A d \in Caller : call'[d].pc \in {"assemble", "record"} => call'[d] = call[d]
      BY <2>1, <2>5, <2>6
    <3>3. QED
      BY <1>2, <3>1, <3>2, RowsKept
  <2>18. QED
    BY <2>10, <2>13, <2>14, <2>15, <2>16, <2>17 DEF UploadsInv
<1>9. QED
  BY <1>7, <1>8

\* A publication that fails gives its file back.
LEMMA BackKeeps ==
    ASSUME UploadsInv, NEW c \in Caller, Holding(c), MovedBack(call[c]), Done(c),
           faults' = faults \/ faults' \in 0..MaxFaults,
           UNCHANGED <<row, parts, video, cover, sweep, assembled, stranded, disowned,
                       removed>>
    PROVE  UploadsInv'
<1>1. UploadsTypeOK
  BY DEF UploadsInv
<1>2. PICK u \in Upload, n \in Name : u = call[c].upload /\ n = call[c].name
  BY HolderFacts
<1>3. /\ shelf[n] = "whole" /\ video[n] = NoVideo /\ n \in Taken(u)
      /\ \A d \in Caller \ {c} : Holding(d) => call[d].name # n
  BY <1>2, HolderFacts
<1>4. IdleCall.pc = "idle" /\ IdleCall \in ReqState \cup {IdleCall}
  BY CallsMade
<1>5. /\ call' \in [Caller -> ReqState \cup {IdleCall}]
      /\ call'[c] = IdleCall /\ \A d \in Caller \ {c} : call'[d] = call[d]
  BY <1>1, <1>4, GoesOn DEF Done
<1>6. ready \in [Upload -> FileState] /\ shelf \in [Name -> FileState]
  BY <1>1 DEF UploadsTypeOK
<1>7. ready' = [ready EXCEPT ![u] = shelf[n]] /\ shelf' = [shelf EXCEPT ![n] = "none"]
  BY <1>2 DEF MovedBack
<1>8. /\ ready' \in [Upload -> FileState] /\ ready'[u] = "whole"
      /\ \A v \in Upload \ {u} : ready'[v] = ready[v]
      /\ shelf' \in [Name -> FileState] /\ \A m \in Name \ {n} : shelf'[m] = shelf[m]
  BY <1>3, <1>6, <1>7 DEF FileState
<1>9. UploadsTypeOK'
  BY <1>1, <1>5, <1>8, TypesKept
<1>10. /\ video' = video /\ cover' = cover /\ row' = row /\ sweep' = sweep /\ assembled' = assembled
       /\ stranded' = stranded
       /\ disowned' = disowned /\ removed' = removed
  OBVIOUS
<1>11. \A d \in Caller : Holding(d)' => d # c /\ Holding(d) /\ call'[d] = call[d] /\ call[d].name # n
  BY <1>3, <1>4, <1>5 DEF Holding
<1>12. FileInv'
  <2>1. \A v \in Upload : ready'[v] # "broken"
    BY <1>8 DEF UploadsInv, FileInv
  <2>2. ASSUME NEW d \in Caller, Holding(d)'
        PROVE  shelf'[call'[d].name] = "whole" /\ video'[call'[d].name] = NoVideo
    <3>1. Holding(d) /\ call'[d] = call[d] /\ call[d].name # n
      BY <1>11, <2>2
    <3>2. call[d].name \in Name /\ shelf[call[d].name] = "whole" /\ video[call[d].name] = NoVideo
      BY <3>1, HolderFacts
    <3>3. QED
      BY <1>8, <1>10, <3>1, <3>2
  <2>3. ASSUME NEW d \in Caller, NEW e \in Caller, Holding(d)', Holding(e)', call'[d].name = call'[e].name
        PROVE  d = e
    BY <1>11, <2>3 DEF UploadsInv, FileInv
  <2>4. \A m \in Name : video'[m] # NoVideo => shelf'[m] = "whole" \/ m \in disowned'
    BY <1>3, <1>8, <1>10 DEF UploadsInv, FileInv
  <2>5. QED
    BY <2>1, <2>2, <2>3, <2>4 DEF FileInv, Holding
<1>13. CoverInv'
  BY <1>4, <1>5, <1>10 DEF UploadsInv, CoverInv
<1>14. FileCountInv'
  <2>1. SUFFICES ASSUME NEW v \in Upload
                 PROVE  Cardinality(Taken(v)') + Waiting(v)' <= assembled'[v]
    BY DEF FileCountInv
  <2>2. Taken(v)' \subseteq Taken(v)
    BY <1>10, <1>11 DEF Taken
  <2>3. CASE v # u
    BY <1>8, <1>10, <2>2, <2>3, CountKept
  <2>4. CASE v = u
    <3>1. n \notin Taken(u)'
      BY <1>3, <1>10, <1>11 DEF Taken
    <3>2. Taken(u)' \subseteq Taken(u) \ {n}
      BY <2>2, <2>4, <3>1
    <3>3. QED
      BY <1>3, <1>10, <2>4, <3>2, CountShrinks
  <2>5. QED
    BY <2>3, <2>4
<1>15. DeleteInv'
  <2>1. \A d \in Caller : call'[d].pc = "delete" => call'[d] = call[d]
    BY <1>4, <1>5
  <2>2. VideosKept
    BY <1>10 DEF VideosKept
  <2>3. QED
    BY <1>10, <2>1, <2>2, DeletedKept
<1>16. RowInv'
  <2>1. ASSUME NEW v \in Upload, Available(v) PROVE Available(v)'
    <3>1. CASE v = u
      BY <1>8, <3>1 DEF Available
    <3>2. CASE v # u
      <4>1. ready[v] = "whole" => ready'[v] = "whole"
        BY <1>8, <3>2
      <4>2. \A d \in Caller : Holding(d) /\ call[d].upload = v => Holding(d)' /\ call'[d].upload = v
        BY <1>2, <1>5, <3>2 DEF Holding
      <4>3. QED
        BY <1>10, <2>1, <4>1, <4>2 DEF Available
    <3>3. QED
      BY <3>1, <3>2
  <2>2. \A d \in Caller : call'[d].pc \in {"assemble", "record"} => call'[d] = call[d]
    BY <1>4, <1>5
  <2>3. QED
    BY <1>10, <2>1, <2>2, RowsKept
<1>17. QED
  BY <1>9, <1>12, <1>13, <1>14, <1>15, <1>16 DEF UploadsInv


\* The cover follows the file.
LEMMA CoverKeeps ==
    ASSUME UploadsInv, NEW c \in Caller, PublishCover(c)
    PROVE  UploadsInv'
<1>1. UploadsTypeOK
  BY DEF UploadsInv
<1>2. /\ call[c].pc = "cover" /\ row' = row /\ parts' = parts /\ video' = video /\ sweep' = sweep
      /\ faults' = faults /\ assembled' = assembled /\ stranded' = stranded
      /\ disowned' = disowned /\ removed' = removed
  BY DEF PublishCover
<1>3. Holding(c)
  BY <1>2 DEF Holding
<1>4. CASE MovedBack(call[c]) /\ Done(c) /\ cover' = cover
  BY <1>2, <1>3, <1>4, BackKeeps
<1>5. CASE cover' = "media" /\ Goto(c, [call[c] EXCEPT !.pc = "commit"]) /\ ready' = ready /\ shelf' = shelf
  <2>1. PICK x : x = [call[c] EXCEPT !.pc = "commit"]
    OBVIOUS
  <2>2. call[c] \in [pc: {"cover", "commit"}, upload: Upload, covered: BOOLEAN, name: Name]
    <3>1. call[c] \in ReqState \cup {IdleCall}
      BY <1>1, UploadFacts
    <3>2. QED
      BY <1>2, <3>1 DEF ReqState, IdleCall
  <2>3. /\ x \in [pc: {"cover", "commit"}, upload: Upload, covered: BOOLEAN, name: Name]
        /\ x.pc = "commit" /\ x.upload = call[c].upload /\ x.name = call[c].name
    BY <2>1, <2>2
  <2>4. x \in ReqState \cup {IdleCall} /\ Goto(c, x)
    BY <1>5, <2>1, <2>3 DEF ReqState
  <2>5. /\ call' \in [Caller -> ReqState \cup {IdleCall}]
        /\ call'[c] = x /\ \A d \in Caller \ {c} : call'[d] = call[d]
    BY <1>1, <2>4, GoesOn
  <2>6. UploadsTypeOK'
    <3>1. cover' \in {"none", "tmp", "media"}
      BY <1>5
    <3>2. QED
      BY <1>1, <1>2, <1>5, <2>5, <3>1, TypesKept
  <2>7. \A d \in Caller :
           /\ Holding(d)' = Holding(d)
           /\ Holding(d) => call'[d].name = call[d].name /\ call'[d].upload = call[d].upload
    BY <1>2, <2>3, <2>5 DEF Holding
  <2>8. FileInv'
    BY <1>2, <1>5, <2>7 DEF UploadsInv, FileInv, Holding
  <2>9. CoverInv'
    BY <1>5 DEF CoverInv
  <2>10. FileCountInv'
    <3>1. ASSUME NEW v \in Upload PROVE Cardinality(Taken(v)') + Waiting(v)' <= assembled'[v]
      <4>1. Taken(v)' \subseteq Taken(v)
        BY <1>2, <2>7 DEF Taken
      <4>2. QED
        BY <1>2, <1>5, <4>1, CountKept
    <3>2. QED
      BY <3>1 DEF FileCountInv
  <2>11. DeleteInv'
    <3>1. \A d \in Caller : call'[d].pc = "delete" => call'[d] = call[d]
      BY <2>3, <2>5
    <3>2. VideosKept
      BY <1>2 DEF VideosKept
    <3>3. QED
      BY <1>2, <3>1, <3>2, DeletedKept
  <2>12. RowInv'
    <3>1. \A v \in Upload : Available(v) => Available(v)'
      BY <1>2, <1>5, <2>7 DEF Available
    <3>2. \A d \in Caller : call'[d].pc \in {"assemble", "record"} => call'[d] = call[d]
      BY <2>3, <2>5
    <3>3. QED
      BY <1>2, <3>1, <3>2, RowsKept
  <2>13. QED
    BY <2>6, <2>8, <2>9, <2>10, <2>11, <2>12 DEF UploadsInv
<1>6. QED
  BY <1>4, <1>5 DEF PublishCover

\* The transaction makes the video; when its answer is lost the file goes back.
LEMMA CommitKeeps ==
    ASSUME UploadsInv, NEW c \in Caller, PublishCommit(c) \/ PublishUnanswered(c)
    PROVE  UploadsInv'
<1>1. UploadsTypeOK
  BY DEF UploadsInv
<1>2. /\ call[c].pc = "commit" /\ Goto(c, IdleCall) /\ Committed(call[c])
      /\ parts' = parts /\ cover' = cover /\ sweep' = sweep /\ assembled' = assembled
      /\ stranded' = stranded /\ removed' = removed
  BY DEF PublishCommit, PublishUnanswered, Done
<1>3. Holding(c)
  BY <1>2 DEF Holding
<1>4. PICK u \in Upload, n \in Name : u = call[c].upload /\ n = call[c].name
  BY <1>3, HolderFacts
<1>5. /\ shelf[n] = "whole" /\ video[n] = NoVideo /\ n \in Taken(u)
      /\ \A d \in Caller \ {c} : Holding(d) => call[d].name # n
  BY <1>3, <1>4, HolderFacts
<1>6. PICK b \in BOOLEAN : b = call[c].covered
  BY <1>3, HolderFacts, Zenon
<1>7. PICK x : x = [status |-> "published", upload |-> u, covered |-> b]
  OBVIOUS
<1>8. x \in VideoRow /\ x.upload = u /\ x.covered = b
  BY <1>7, VideoTypes, Zenon
<1>9. /\ video' = [video EXCEPT ![n] = x]
      /\ row' = IF Alive(u) THEN [row EXCEPT ![u].published = TRUE] ELSE row
  BY <1>2, <1>4, <1>6, <1>7 DEF Committed
<1>10. IdleCall.pc = "idle" /\ IdleCall \in ReqState \cup {IdleCall}
  BY CallsMade
<1>11. /\ call' \in [Caller -> ReqState \cup {IdleCall}]
       /\ call'[c] = IdleCall /\ \A d \in Caller \ {c} : call'[d] = call[d]
  BY <1>1, <1>2, <1>10, GoesOn
<1>12. /\ video \in [Name -> VideoRow \cup {NoVideo}]
       /\ row \in [Upload -> UploadRow \cup {NoRow, GoneRow}]
  BY <1>1 DEF UploadsTypeOK
<1>13. /\ video' \in [Name -> VideoRow \cup {NoVideo}]
       /\ video'[n] = x /\ \A m \in Name \ {n} : video'[m] = video[m]
  BY <1>8, <1>9, <1>12
<1>14. x # NoVideo
  BY <1>8, VideoTypes
<1>15. /\ row' \in [Upload -> UploadRow \cup {NoRow, GoneRow}]
       /\ \A v \in Upload : row'[v].age = row[v].age /\ (v # u => row'[v] = row[v])
       /\ row[u].age \in {"fresh", "old"} => row'[u].published = TRUE
  <2>1. CASE ~Alive(u)
    <3>1. row' = row /\ row[u].age \notin {"fresh", "old"}
      BY <1>9, <2>1 DEF Alive
    <3>2. QED
      BY <1>12, <3>1
  <2>2. CASE Alive(u)
    <3>1. row[u] \in UploadRow
      BY <1>12, <2>2, RowTypes DEF Alive
    <3>2. PICK y : y = [row[u] EXCEPT !.published = TRUE]
      OBVIOUS
    <3>3. y \in UploadRow /\ y.age = row[u].age /\ y.published = TRUE
      BY <3>1, <3>2, RowTypes
    <3>4. row' = [row EXCEPT ![u] = y]
      BY <1>9, <2>2, <3>2
    <3>5. QED
      BY <1>12, <3>3, <3>4
  <2>3. QED
    BY <2>1, <2>2
<1>16. /\ ready \in [Upload -> FileState] /\ shelf \in [Name -> FileState]
       /\ disowned \in SUBSET Name
  BY <1>1 DEF UploadsTypeOK
<1>17. \/ ready' = ready /\ shelf' = shelf /\ disowned' = disowned
       \/ /\ ready' = [ready EXCEPT ![u] = shelf[n]] /\ shelf' = [shelf EXCEPT ![n] = "none"]
          /\ disowned' = disowned \cup {n}
  <2>1. CASE PublishCommit(c)
    BY <2>1 DEF PublishCommit
  <2>2. CASE PublishUnanswered(c)
    BY <1>4, <2>2 DEF PublishUnanswered, MovedBack
  <2>3. QED
    BY <2>1, <2>2
<1>18. /\ ready' \in [Upload -> FileState] /\ shelf' \in [Name -> FileState]
       /\ disowned' \in SUBSET Name
       /\ \A v \in Upload \ {u} : ready'[v] = ready[v]
       /\ ready'[u] \in {ready[u], "whole"}
       /\ \A m \in Name \ {n} : shelf'[m] = shelf[m] /\ (m \in disowned' <=> m \in disowned)
       /\ n \in disowned' \/ (shelf'[n] = "whole" /\ ready' = ready)
  BY <1>5, <1>16, <1>17 DEF FileState
<1>19. faults' = faults \/ faults' \in 0..MaxFaults
  BY <1>1, FaultTyped DEF PublishCommit, PublishUnanswered
<1>20. UploadsTypeOK'
  BY <1>1, <1>2, <1>11, <1>13, <1>15, <1>18, <1>19, TypesKept
<1>21. \A d \in Caller : Holding(d)' => d # c /\ Holding(d) /\ call'[d] = call[d] /\ call[d].name # n
  BY <1>5, <1>10, <1>11 DEF Holding
<1>22. FileInv'
  <2>1. ASSUME NEW d \in Caller, Holding(d)'
        PROVE  shelf'[call'[d].name] = "whole" /\ video'[call'[d].name] = NoVideo
    <3>1. Holding(d) /\ call'[d] = call[d] /\ call[d].name # n
      BY <1>21, <2>1
    <3>2. call[d].name \in Name /\ shelf[call[d].name] = "whole" /\ video[call[d].name] = NoVideo
      BY <3>1, HolderFacts
    <3>3. QED
      BY <1>13, <1>18, <3>1, <3>2
  <2>2. ASSUME NEW d \in Caller, NEW e \in Caller, Holding(d)', Holding(e)', call'[d].name = call'[e].name
        PROVE  d = e
    BY <1>21, <2>2 DEF UploadsInv, FileInv
  <2>3. \A m \in Name : video'[m] # NoVideo => shelf'[m] = "whole" \/ m \in disowned'
    BY <1>13, <1>18 DEF UploadsInv, FileInv
  <2>4. \A v \in Upload : ready'[v] # "broken"
    BY <1>18 DEF UploadsInv, FileInv
  <2>5. QED
    BY <2>1, <2>2, <2>3, <2>4 DEF FileInv, Holding
<1>23. CoverInv'
  <2>1. \A d \in Caller : call'[d].pc = "commit" => call'[d] = call[d]
    BY <1>10, <1>11
  <2>2. b = TRUE => cover = "media"
    BY <1>2, <1>6 DEF UploadsInv, CoverInv
  <2>3. ASSUME NEW m \in Name, video'[m] # NoVideo, video'[m].covered = TRUE PROVE cover' = "media"
    <3>1. CASE m = n
      BY <1>2, <1>8, <1>13, <2>2, <2>3, <3>1
    <3>2. CASE m # n
      BY <1>2, <1>13, <2>3, <3>2 DEF UploadsInv, CoverInv
    <3>3. QED
      BY <3>1, <3>2
  <2>4. \A d \in Caller : call'[d].pc = "commit" /\ call'[d].covered = TRUE => cover' = "media"
    BY <1>2, <2>1 DEF UploadsInv, CoverInv
  <2>5. QED
    BY <2>3, <2>4 DEF CoverInv
<1>24. FileCountInv'
  <2>1. ASSUME NEW v \in Upload, NEW m \in Taken(v)'
        PROVE  m \in Taken(v) /\ (m = n => n \notin disowned')
    <3>1. CASE m = n
      <4>1. v = u /\ n \notin disowned'
        BY <1>8, <1>13, <1>21, <2>1, <3>1 DEF Taken
      <4>2. QED
        BY <1>5, <3>1, <4>1
    <3>2. CASE m # n
      BY <1>13, <1>18, <1>21, <2>1, <3>2 DEF Taken
    <3>3. QED
      BY <3>1, <3>2
  <2>2. ASSUME NEW v \in Upload PROVE Cardinality(Taken(v)') + Waiting(v)' <= assembled'[v]
    <3>1. CASE v # u \/ n \notin disowned'
      <4>1. ready'[v] = ready[v]
        BY <1>18, <3>1
      <4>2. Taken(v)' \subseteq Taken(v)
        BY <2>1
      <4>3. QED
        BY <1>2, <4>1, <4>2, CountKept
    <3>2. CASE v = u /\ n \in disowned'
      <4>1. Taken(u)' \subseteq Taken(u) \ {n}
        BY <2>1, <3>2
      <4>2. QED
        BY <1>2, <1>5, <3>2, <4>1, CountShrinks
    <3>3. QED
      BY <3>1, <3>2
  <2>3. QED
    BY <2>2 DEF FileCountInv
<1>25. DeleteInv'
  <2>1. ASSUME NEW d \in Caller, call'[d].pc = "delete" PROVE video'[call'[d].name] # NoVideo
    <3>1. call'[d] = call[d]
      BY <1>10, <1>11, <2>1
    <3>2. call[d].name \in Name
      BY <1>1, <2>1, <3>1, UploadFacts, CallTypes
    <3>3. video[call[d].name] # NoVideo
      BY <2>1, <3>1 DEF UploadsInv, DeleteInv
    <3>4. QED
      BY <1>13, <1>14, <3>1, <3>2, <3>3
  <2>2. ASSUME NEW m \in removed PROVE video'[m].status = "deleted"
    <3>1. video[m].status = "deleted" /\ m \in Name
      BY <1>1, <2>2 DEF UploadsInv, DeleteInv, UploadsTypeOK
    <3>2. m # n
      BY <1>5, <3>1, VideoTypes
    <3>3. QED
      BY <1>13, <3>1, <3>2
  <2>3. QED
    BY <1>2, <2>1, <2>2 DEF DeleteInv
<1>26. RowInv'
  <2>1. ASSUME NEW v \in Upload, row'[v].age \in {"fresh", "old"}, row'[v].published = FALSE,
               row'[v].completed = TRUE \/ \E d \in Caller : call'[d].pc = "record" /\ call'[d].upload = v
        PROVE  Available(v)'
    <3>1. v # u
      <4>1. SUFFICES ASSUME v = u PROVE FALSE
        OBVIOUS
      <4>2. row'[u].published = TRUE
        BY <1>15, <2>1, <4>1
      <4>3. QED
        BY <2>1, <4>1, <4>2
    <3>2. row'[v] = row[v]
      BY <1>15, <3>1
    <3>3. Available(v)
      <4>1. (\E d \in Caller : call'[d].pc = "record" /\ call'[d].upload = v) =>
               \E d \in Caller : call[d].pc = "record" /\ call[d].upload = v
        BY <1>10, <1>11
      <4>2. QED
        BY <2>1, <3>2, <4>1 DEF UploadsInv, RowInv
    <3>4. \A d \in Caller : Holding(d) /\ call[d].upload = v => Holding(d)' /\ call'[d].upload = v
      BY <1>4, <1>11, <3>1 DEF Holding
    <3>5. QED
      BY <1>2, <1>18, <3>1, <3>3, <3>4 DEF Available
  <2>2. ASSUME NEW d \in Caller, call'[d].pc \in {"assemble", "record"} PROVE row'[call'[d].upload] # NoRow
    <3>1. call'[d] = call[d] /\ call[d].pc \in {"assemble", "record"}
      BY <1>10, <1>11, <2>2
    <3>2. call[d].upload \in Upload /\ row[call[d].upload] # NoRow
      <4>1. call[d] \in ReqState \cup {IdleCall}
        BY <1>1, UploadFacts
      <4>2. QED
        BY <3>1, <4>1, CallTypes DEF UploadsInv, RowInv
    <3>3. row[call[d].upload].age # "none"
      BY <1>12, <3>2, RowTypes
    <3>4. row'[call[d].upload].age # "none"
      BY <1>15, <3>2, <3>3
    <3>5. QED
      BY <3>1, <3>4, RowTypes
  <2>3. \A v \in Upload : sweep'[v] # "none" => row'[v].age = "stale"
    BY <1>2, <1>15 DEF UploadsInv, RowInv
  <2>4. QED
    BY <2>1, <2>2, <2>3 DEF RowInv
<1>27. QED
  BY <1>20, <1>22, <1>23, <1>24, <1>25, <1>26 DEF UploadsInv


\* A request dies; a file it held is lost.
LEMMA DeathKeeps ==
    ASSUME UploadsInv, NEW c \in Caller, CallDies(c)
    PROVE  UploadsInv'
<1>1. UploadsTypeOK
  BY DEF UploadsInv
<1>2. /\ Goto(c, IdleCall) /\ row' = row /\ parts' = parts /\ ready' = ready /\ shelf' = shelf
      /\ video' = video /\ cover' = cover /\ sweep' = sweep /\ assembled' = assembled
      /\ disowned' = disowned /\ removed' = removed
      /\ stranded' = IF Holding(c) THEN stranded \cup {call[c].upload} ELSE stranded
  BY DEF CallDies, Done, Holding
<1>3. faults' \in 0..MaxFaults
  BY <1>1, FaultTyped DEF CallDies
<1>4. IdleCall.pc = "idle" /\ IdleCall \in ReqState \cup {IdleCall}
  BY CallsMade
<1>5. CASE ~Holding(c)
  <2>1. stranded' = stranded
    BY <1>2, <1>5
  <2>2. QED
    BY <1>2, <1>3, <1>4, <1>5, <2>1, CallMoves
<1>6. CASE Holding(c)
  <2>1. PICK u \in Upload : u = call[c].upload
    BY <1>6, HolderFacts
  <2>2. stranded' = stranded \cup {u}
    BY <1>2, <1>6, <2>1
  <2>3. stranded' \in SUBSET Upload
    BY <1>1, <2>2 DEF UploadsTypeOK
  <2>4. /\ call' \in [Caller -> ReqState \cup {IdleCall}]
        /\ call'[c] = IdleCall /\ \A d \in Caller \ {c} : call'[d] = call[d]
    BY <1>1, <1>2, <1>4, GoesOn
  <2>5. UploadsTypeOK'
    BY <1>1, <1>2, <1>3, <2>3, <2>4, TypesKept
  <2>6. \A d \in Caller : Holding(d)' => Holding(d) /\ call'[d] = call[d]
    BY <1>4, <2>4 DEF Holding
  <2>7. FileInv'
    BY <1>2, <2>6 DEF UploadsInv, FileInv, Holding
  <2>8. CoverInv'
    BY <1>2, <1>4, <2>4 DEF UploadsInv, CoverInv
  <2>9. FileCountInv'
    <3>1. ASSUME NEW v \in Upload PROVE Cardinality(Taken(v)') + Waiting(v)' <= assembled'[v]
      <4>1. Taken(v)' \subseteq Taken(v)
        BY <1>2, <2>6 DEF Taken
      <4>2. QED
        BY <1>2, <4>1, CountKept
    <3>2. QED
      BY <3>1 DEF FileCountInv
  <2>10. DeleteInv'
    <3>1. \A d \in Caller : call'[d].pc = "delete" => call'[d] = call[d]
      BY <1>4, <2>4
    <3>2. VideosKept
      BY <1>2 DEF VideosKept
    <3>3. QED
      BY <1>2, <3>1, <3>2, DeletedKept
  <2>11. RowInv'
    <3>1. ASSUME NEW v \in Upload, Available(v) PROVE Available(v)'
      <4>1. CASE v = u
        BY <2>2, <4>1 DEF Available
      <4>2. CASE v # u
        <5>1. \A d \in Caller : Holding(d) /\ call[d].upload = v => Holding(d)' /\ call'[d].upload = v
          BY <2>1, <2>4, <4>2 DEF Holding
        <5>2. QED
          BY <1>2, <2>2, <3>1, <5>1 DEF Available
      <4>3. QED
        BY <4>1, <4>2
    <3>2. \A d \in Caller : call'[d].pc \in {"assemble", "record"} => call'[d] = call[d]
      BY <1>4, <2>4
    <3>3. QED
      BY <1>2, <3>1, <3>2, RowsKept
  <2>12. QED
    BY <2>5, <2>7, <2>8, <2>9, <2>10, <2>11 DEF UploadsInv
<1>7. QED
  BY <1>5, <1>6

\* The status of a video changes, for its author or for an administrator.
LEMMA StatusKeeps ==
    ASSUME UploadsInv, (\E c \in Caller : DeleteWrite(c)) \/ (\E n \in Name : Moderate(n))
    PROVE  UploadsInv'
<1>1. UploadsTypeOK
  BY DEF UploadsInv
<1>2. /\ row' = row /\ parts' = parts /\ ready' = ready /\ shelf' = shelf /\ cover' = cover
      /\ sweep' = sweep /\ faults' = faults /\ assembled' = assembled /\ stranded' = stranded
      /\ disowned' = disowned
  BY DEF DeleteWrite, Moderate
<1>3. video \in [Name -> VideoRow \cup {NoVideo}] /\ removed \in SUBSET Name
  BY <1>1 DEF UploadsTypeOK
<1>4. IdleCall.pc = "idle" /\ IdleCall \in ReqState \cup {IdleCall}
  BY CallsMade
<1>5. PICK n \in Name, s \in {"published", "offline", "deleted"} :
         /\ video[n] # NoVideo /\ video' = [video EXCEPT ![n].status = s]
         /\ \/ /\ call' = call /\ removed' = removed /\ video[n].status # "deleted"
            \/ /\ s = "deleted" /\ removed' = removed \cup {n}
               /\ \E c \in Caller : call[c].pc = "delete" /\ Goto(c, IdleCall)
  <2>1. ASSUME NEW c \in Caller, DeleteWrite(c)
        PROVE  \E n \in Name, s \in {"published", "offline", "deleted"} :
                  /\ video[n] # NoVideo /\ video' = [video EXCEPT ![n].status = s]
                  /\ s = "deleted" /\ removed' = removed \cup {n}
                  /\ call[c].pc = "delete" /\ Goto(c, IdleCall)
    <3>1. call[c].pc = "delete" /\ Goto(c, IdleCall)
      BY <2>1 DEF DeleteWrite, Done
    <3>2. PICK n \in Name : n = call[c].name
      BY <1>1, <3>1, UploadFacts, CallTypes
    <3>3. video[n] # NoVideo
      BY <3>1, <3>2 DEF UploadsInv, DeleteInv
    <3>4. DeleteBy(video[n]).status = "deleted"
      <4>1. video[n] \in VideoRow
        BY <1>3, <3>3
      <4>2. QED
        BY <4>1, VideoTypes DEF DeleteBy
    <3>5. video' = [video EXCEPT ![n].status = "deleted"] /\ removed' = removed \cup {n}
      BY <2>1, <3>2, <3>4 DEF DeleteWrite, UpdateStatus
    <3>6. QED
      BY <3>1, <3>3, <3>5
  <2>2. ASSUME NEW n \in Name, Moderate(n)
        PROVE  \E s \in {"published", "offline", "deleted"} :
                  /\ video[n] # NoVideo /\ video' = [video EXCEPT ![n].status = s]
                  /\ call' = call /\ removed' = removed /\ video[n].status # "deleted"
    <3>1. /\ video[n].status \in {"published", "offline"} /\ call' = call /\ removed' = removed
          /\ video' = [video EXCEPT ![n].status = IF @ = "published" THEN "offline" ELSE "published"]
      BY <2>2 DEF Moderate
    <3>2. video[n] # NoVideo
      BY <3>1, VideoTypes
    <3>3. PICK s \in {"published", "offline"} :
             s = IF video[n].status = "published" THEN "offline" ELSE "published"
      OBVIOUS
    <3>4. video' = [video EXCEPT ![n].status = s]
      BY <3>1, <3>3
    <3>5. QED
      BY <3>1, <3>2, <3>3, <3>4
  <2>3. CASE \E c \in Caller : DeleteWrite(c)
    BY <2>1, <2>3
  <2>4. CASE \E n \in Name : Moderate(n)
    BY <2>2, <2>4
  <2>5. QED
    BY <2>3, <2>4
<1>6. PICK y : y = [video[n] EXCEPT !.status = s]
  OBVIOUS
<1>7. video[n] \in VideoRow
  BY <1>3, <1>5
<1>8. /\ y \in VideoRow /\ y.status = s /\ y.upload = video[n].upload /\ y.covered = video[n].covered
      /\ y # NoVideo
  <2>1. /\ y \in VideoRow /\ y.status = s /\ y.upload = video[n].upload
        /\ y.covered = video[n].covered
    BY <1>6, <1>7 DEF VideoRow
  <2>2. QED
    BY <2>1, VideoTypes
<1>9. video' = [video EXCEPT ![n] = y]
  BY <1>5, <1>6
<1>10. /\ video' \in [Name -> VideoRow \cup {NoVideo}]
       /\ video'[n] = y /\ \A m \in Name \ {n} : video'[m] = video[m]
  BY <1>3, <1>8, <1>9
<1>11. VideosKept
  BY <1>5, <1>8, <1>10 DEF VideosKept
<1>12. /\ call' \in [Caller -> ReqState \cup {IdleCall}]
       /\ \A d \in Caller : call'[d] = call[d] \/ (call[d].pc = "delete" /\ call'[d] = IdleCall)
  <2>1. CASE call' = call
    BY <1>1, <2>1 DEF UploadsTypeOK
  <2>2. ASSUME NEW c \in Caller, call[c].pc = "delete", Goto(c, IdleCall)
        PROVE  /\ call' \in [Caller -> ReqState \cup {IdleCall}]
               /\ \A d \in Caller : call'[d] = call[d] \/ (call[d].pc = "delete" /\ call'[d] = IdleCall)
    BY <1>1, <1>4, <2>2, GoesOn
  <2>3. QED
    BY <1>5, <2>1, <2>2
<1>13. removed' \in SUBSET Name
  BY <1>3, <1>5
<1>14. UploadsTypeOK'
  BY <1>1, <1>2, <1>10, <1>12, <1>13, TypesKept
<1>15. HoldersKept
  BY <1>4, <1>12 DEF HoldersKept, Holding
<1>16. FileInv' /\ CoverInv' /\ FileCountInv'
  BY <1>2, <1>11, <1>14, <1>15, FilesKept
<1>17. DeleteInv'
  <2>1. ASSUME NEW d \in Caller, call'[d].pc = "delete" PROVE video'[call'[d].name] # NoVideo
    <3>1. call'[d] = call[d]
      BY <1>4, <1>12, <2>1
    <3>2. call[d].name \in Name
      BY <1>1, <2>1, <3>1, UploadFacts, CallTypes
    <3>3. video[call[d].name] # NoVideo
      BY <2>1, <3>1 DEF UploadsInv, DeleteInv
    <3>4. QED
      BY <1>11, <3>1, <3>2, <3>3 DEF VideosKept
  <2>2. ASSUME NEW m \in removed' PROVE video'[m].status = "deleted"
    <3>1. m \in removed => video[m].status = "deleted"
      BY DEF UploadsInv, DeleteInv
    <3>2. m \in Name
      BY <1>13, <2>2
    <3>3. CASE m # n
      <4>1. m \in removed
        BY <1>5, <2>2, <3>3
      <4>2. QED
        BY <1>10, <3>1, <3>2, <3>3, <4>1
    <3>4. CASE m = n
      <4>1. s = "deleted"
        BY <1>5, <2>2, <3>1, <3>4
      <4>2. QED
        BY <1>8, <1>10, <3>4, <4>1
    <3>5. QED
      BY <3>3, <3>4
  <2>3. QED
    BY <2>1, <2>2 DEF DeleteInv
<1>18. RowInv'
  <2>1. \A v \in Upload : Available(v) => Available(v)'
    BY <1>2, <1>15, AvailableKept
  <2>2. \A d \in Caller : call'[d].pc \in {"assemble", "record"} => call'[d] = call[d]
    BY <1>4, <1>12
  <2>3. QED
    BY <1>2, <2>1, <2>2, RowsKept
<1>19. QED
  BY <1>14, <1>16, <1>17, <1>18 DEF UploadsInv

\* Nothing is uploaded yet.
LEMMA UploadsInvInit == UploadsInit => UploadsInv
<1> SUFFICES ASSUME UploadsInit PROVE UploadsInv
  OBVIOUS
<1>1. /\ row = [u \in Upload |-> NoRow] /\ parts = [u \in Upload |-> [i \in Part |-> "none"]]
      /\ ready = [u \in Upload |-> "none"] /\ shelf = [n \in Name |-> "none"]
      /\ video = [n \in Name |-> NoVideo] /\ cover = "none" /\ call = [c \in Caller |-> IdleCall]
      /\ sweep = [u \in Upload |-> "none"] /\ faults = 0
      /\ assembled = [u \in Upload |-> 0] /\ stranded = {} /\ disowned = {} /\ removed = {}
  BY DEF UploadsInit, NotSwept
<1>2. UploadsTypeOK
  <2>1. faults \in 0..MaxFaults
    BY <1>1, UploadConstants
  <2>2. /\ row \in [Upload -> UploadRow \cup {NoRow, GoneRow}]
        /\ parts \in [Upload -> [Part -> PartState]] /\ ready \in [Upload -> FileState]
        /\ shelf \in [Name -> FileState] /\ video \in [Name -> VideoRow \cup {NoVideo}]
        /\ call \in [Caller -> ReqState \cup {IdleCall}]
        /\ sweep \in [Upload -> {"none", "listed", "emptied"}] /\ assembled \in [Upload -> Nat]
    BY <1>1 DEF PartState, FileState
  <2>3. QED
    BY <1>1, <2>1, <2>2 DEF UploadsTypeOK
<1>3. \A c \in Caller : call[c].pc = "idle"
  BY <1>1, CallsMade
<1>4. \A u \in Upload : row[u].age = "none"
  BY <1>1, RowTypes
<1>5. FileInv /\ CoverInv /\ DeleteInv /\ RowInv
  BY <1>1, <1>3, <1>4 DEF FileInv, CoverInv, DeleteInv, RowInv, Holding
<1>6. FileCountInv
  <2>1. ASSUME NEW u \in Upload PROVE Cardinality(Taken(u)) + Waiting(u) <= assembled[u]
    <3>1. Taken(u) = {}
      BY <1>1, <1>3 DEF Taken, Holding
    <3>2. Cardinality(Taken(u)) = 0
      BY <3>1, FS_EmptySet
    <3>3. Waiting(u) = 0 /\ assembled[u] = 0
      BY <1>1 DEF Waiting
    <3>4. QED
      BY <3>2, <3>3
  <2>2. QED
    BY <2>1 DEF FileCountInv
<1>7. QED
  BY <1>2, <1>5, <1>6 DEF UploadsInv

\* Every step keeps the invariant.
LEMMA UploadsInvNext == UploadsInv /\ [UploadsNext]_uploadVars => UploadsInv'
<1> SUFFICES ASSUME UploadsInv, [UploadsNext]_uploadVars PROVE UploadsInv'
  OBVIOUS
<1>1. CASE UNCHANGED uploadVars
  <2>1. /\ row' = row /\ parts' = parts /\ ready' = ready /\ shelf' = shelf /\ video' = video
        /\ cover' = cover /\ call' = call /\ sweep' = sweep /\ faults' = faults
        /\ assembled' = assembled /\ stranded' = stranded
        /\ disowned' = disowned /\ removed' = removed
    BY <1>1 DEF uploadVars
  <2>2. UploadsTypeOK'
    BY <2>1, TypesKept DEF UploadsInv
  <2>3. HoldersKept
    BY <2>1 DEF HoldersKept
  <2>4. RowInv'
    <3>1. \A u \in Upload : Available(u) => Available(u)'
      BY <2>1, <2>3, AvailableKept
    <3>2. QED
      BY <2>1, <3>1, RowsKept
  <2>5. QED
    BY <2>1, <2>2, <2>3, <2>4, RowsMove
<1>2. ASSUME NEW c \in Caller,
             \/ InitUpload(c) \/ ChunkStore(c) \/ CompletePart(c) \/ CompleteTidy(c)
             \/ \E u \in Upload : CompleteBegin(c, u)
             \/ \E u \in Upload, i \in Part, data \in {"good", "bad"} : ChunkBegin(c, u, i, data)
             \/ \E u \in Upload, covered \in BOOLEAN : PublishRead(c, u, covered)
             \/ \E n \in Name : DeleteRead(c, n)
      PROVE  UploadsInv'
  BY <1>2, RequestsKeep
<1>3. ASSUME NEW c \in Caller, PublishFails(c) PROVE UploadsInv'
  <2>1. /\ Holding(c) /\ MovedBack(call[c]) /\ Done(c)
        /\ UNCHANGED <<row, parts, video, cover, sweep, assembled, stranded, disowned,
                       removed>>
    BY <1>3 DEF PublishFails, Holding
  <2>2. faults' \in 0..MaxFaults
    BY <1>3, FaultTyped DEF PublishFails, UploadsInv
  <2>3. QED
    BY <2>1, <2>2, BackKeeps
<1>4. ASSUME NEW c \in Caller,
             \/ CompletePlace(c) \/ CompleteRecord(c) \/ PublishCover(c) \/ PublishCommit(c)
             \/ PublishUnanswered(c) \/ PublishFails(c) \/ CallDies(c) \/ DeleteWrite(c)
             \/ (\E u \in Upload : CreateUpload(c, u)) \/ (\E n \in Name : PublishMove(c, n))
      PROVE  UploadsInv'
  BY <1>3, <1>4, PlaceKeeps, RecordKeeps, CoverKeeps, CommitKeeps, DeathKeeps, StatusKeeps,
     CreateKeeps, MoveKeeps, Zenon
<1>5. ASSUME \/ \E u \in Upload : Age(u) \/ CleanupFiles(u) \/ CleanupRow(u)
             \/ CleanupList \/ CleanupStops \/ UploadCover
      PROVE  UploadsInv'
  BY <1>5, CleanupKeeps
<1>6. ASSUME NEW n \in Name, Moderate(n) PROVE UploadsInv'
  BY <1>6, StatusKeeps
<1>7. CASE UploadsNext
  BY <1>2, <1>4, <1>5, <1>6, <1>7, Zenon DEF UploadsNext
<1>8. QED
  BY <1>1, <1>7

\* Uploads, files, videos and requests are of their types.
THEOREM UploadsTyped == UploadsSpec => []UploadsTypeOK
<1>1. UploadsInv => UploadsTypeOK
  BY DEF UploadsInv
<1>2. QED
  BY UploadsInvInit, UploadsInvNext, <1>1, PTL DEF UploadsSpec

\* For any number of uploads, requests, names, chunks and faults: every video has
\* the whole file and the cover it was published with, no two videos share a file,
\* and a video its author deleted stays deleted, except that a video whose COMMIT
\* was not answered has lost its file to the rename back (publishVideo,
\* completeUpload, Service.Delete, adminUpdateVideo).
THEOREM LibraryIsSound == UploadsSpec => []LibrarySound
<1>1. UploadsInv => LibrarySound
  <2> SUFFICES ASSUME UploadsInv PROVE LibrarySound
    OBVIOUS
  <2>1. UploadsTypeOK
    BY DEF UploadsInv
  <2>2. FilesWhole
    <3>1. SUFFICES ASSUME NEW n \in Videos
                   PROVE  /\ shelf[n] = "whole" \/ n \in disowned
                          /\ video[n].covered => cover = "media"
      BY DEF FilesWhole
    <3>2. n \in Name /\ video[n] # NoVideo
      BY DEF Videos
    <3>3. video[n].covered \in BOOLEAN
      <4>1. video[n] \in VideoRow
        BY <2>1, <3>2, UploadFacts
      <4>2. QED
        BY <4>1, VideoTypes, Zenon
    <3>4. video[n].covered => video[n].covered = TRUE
      BY <3>3, Zenon
    <3>5. /\ shelf[n] = "whole" \/ n \in disowned
          /\ video[n].covered = TRUE => cover = "media"
      BY <3>2 DEF UploadsInv, FileInv, CoverInv
    <3>6. QED
      BY <3>4, <3>5, Zenon
  <2>3. OneVideoPerFile
    <3>1. SUFFICES ASSUME NEW u \in Upload
                   PROVE  Cardinality({n \in Videos \ disowned : video[n].upload = u}) <= assembled[u]
      BY DEF OneVideoPerFile
    <3>2. {n \in Videos \ disowned : video[n].upload = u} \subseteq Taken(u)
      BY DEF Videos, Taken
    <3>3. PICK S : S = {n \in Videos \ disowned : video[n].upload = u}
      OBVIOUS
    <3>4. IsFiniteSet(S) /\ Cardinality(S) \in Nat /\ Cardinality(S) <= Cardinality(Taken(u))
      <4>1. S \subseteq Taken(u) /\ IsFiniteSet(Taken(u))
        BY <3>2, <3>3, TakenFinite
      <4>2. QED
        BY <4>1, FS_Subset, FS_CardinalityType
    <3>5. Cardinality(Taken(u)) + Waiting(u) <= assembled[u]
      BY DEF UploadsInv, FileCountInv
    <3>6. Waiting(u) \in {0, 1} /\ assembled[u] \in Nat /\ Cardinality(Taken(u)) \in Nat
      BY <2>1, UploadFacts, TakenFinite DEF Waiting
    <3>7. Cardinality(S) <= assembled[u]
      BY <3>4, <3>5, <3>6
    <3>8. QED
      BY <3>3, <3>7
  <2>4. DeletedStays
    BY DEF UploadsInv, DeleteInv, DeletedStays
  <2>5. QED
    BY <2>2, <2>3, <2>4 DEF LibrarySound
<1>2. QED
  BY UploadsInvInit, UploadsInvNext, <1>1, PTL DEF UploadsSpec

\* For any number of uploads, requests and faults: a completed upload that is
\* neither published nor 48 hours old has its file under tmp or with a publication
\* that gives it back, unless a publication died holding it (publishVideo,
\* completeUpload, cleanupUploads).
THEOREM UploadsPublishable == UploadsSpec => []Publishable
<1>1. UploadsInv => Publishable
  <2> SUFFICES ASSUME UploadsInv, NEW u \in Upload, row[u].age \in {"fresh", "old"},
                      row[u].completed /\ ~row[u].published
               PROVE  \/ ready[u] = "whole"
                      \/ u \in stranded
                      \/ \E c \in Caller : call[c].pc \in {"cover", "commit"} /\ call[c].upload = u
    BY Zenon DEF Publishable
  <2>1. row[u] \in UploadRow
    <3>1. row[u] \in UploadRow \cup {NoRow, GoneRow} /\ row[u].age \in {"fresh", "old", "stale"}
      BY UploadFacts DEF UploadsInv
    <3>2. QED
      BY <3>1, RowTypes
  <2>2. row[u].completed \in BOOLEAN /\ row[u].published \in BOOLEAN
    BY <2>1, RowTypes, Zenon
  <2>3. row[u].completed = TRUE /\ row[u].published = FALSE
    BY <2>2, Zenon
  <2>4. Available(u)
    BY <2>3 DEF UploadsInv, RowInv
  <2>5. QED
    BY <2>4 DEF Available, Holding
<1>2. QED
  BY UploadsInvInit, UploadsInvNext, <1>1, PTL DEF UploadsSpec

-----------------------------------------------------------------------------
\* What the run follows is a behaviour of each part.
THEOREM MediaParts == Spec => UploadsSpec /\ MigrationSpec
<1>1. Init => UploadsInit /\ MigrationInit
  BY DEF Init
<1>2. [Next]_<<focus, uploadVars, migrationVars>> =>
         [UploadsNext]_uploadVars /\ [MigrationNext]_migrationVars
  BY Zenon DEF Next
<1>3. QED
  BY <1>1, <1>2, PTL DEF Spec, UploadsSpec, MigrationSpec

\* Files, rows, requests and the migration's state are of their types.
THEOREM MediaTyped == Spec => []MediaTypeOK
<1>1. UploadsTypeOK /\ MigrationTypeOK => MediaTypeOK
  BY DEF MediaTypeOK
<1>2. QED
  BY MediaParts, UploadsTyped, MigrationTyped, <1>1, PTL
=============================================================================
