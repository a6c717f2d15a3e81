----------------------- MODULE ApplicationUpdate_proofs -----------------------
(***************************************************************************)
(* UpdateInvariant is inductive for any number of updaters, files, write   *)
(* calls and interruptions, and implies what the runs check: an            *)
(* interrupted update is always recognised, the configuration is durable   *)
(* only on a durable application, success survives a power loss, and at    *)
(* most one rename is in doubt.                                            *)
(***************************************************************************)
EXTENDS ApplicationUpdate, TLAPS

\* The two directories, and the fields of the records built from them.
LEMMA AreaFacts ==
    /\ "app" \in Area
    /\ "cfg" \in Area
    /\ \A a \in Area : a = "app" \/ a = "cfg"
    /\ "app" # "cfg"
    /\ Files("app") = CHANGED
    /\ Files("cfg") = 1
    /\ \A a \in Area : Files(a) \in Nat \ {0}
  <1>1. CHANGED \in Nat \ {0}
    BY UpdateAssumption
  <1> QED
    BY <1>1 DEF Area, Files

\* The update begins with nothing replaced and nothing in doubt.
LEMMA InitInvariant == Init => UpdateInvariant
  <1> SUFFICES ASSUME Init PROVE UpdateInvariant
    OBVIOUS
  <1>a. \A a \in Area : /\ entry[a] = Entered(0, "absent")
                        /\ may[a] = {Entered(0, "absent")}
                        /\ inode[a] = Complete(0)
                        /\ synced[a] = Complete(0)
    BY DEF Init
  <1>b. Entered(0, "absent") \in Entry /\ Complete(0) \in File
    BY UpdateAssumption DEF Entry, Entered, File, Complete, Stage, Setting
  <1>c. Entered(0, "absent").count = 0 /\ Entered(0, "absent").stage = "absent"
    BY DEF Entered
  <1>d. NoView \in [Area -> View]
    BY UpdateAssumption DEF NoView, View, Stage, Setting
  <1>1. TypeOK
    BY <1>b, <1>d, UpdateAssumption DEF Init, TypeOK
  <1>2. HolderRuns
    BY UpdateAssumption DEF Init, HolderRuns, Running, NoOne
  <1>3. \A a \in Area : DirectoryOrdered(a)
    BY <1>a, <1>c, AreaFacts, UpdateAssumption DEF DirectoryOrdered, Complete
  <1>4. ConfigurationIsLast
    BY <1>a, <1>c, AreaFacts DEF ConfigurationIsLast
  <1>5. \A p \in Updater : UpdaterKnows(p)
    BY DEF Init, UpdaterKnows
  <1>6. SuccessIsDurable
    BY DEF Init, SuccessIsDurable
  <1> QED
    BY <1>1, <1>2, <1>3, <1>4, <1>5, <1>6 DEF UpdateInvariant

\* An updater that is not running after a step knows nothing then.
LEMMA IdleKnows ==
    ASSUME NEW q \in Updater, pc'[q] \notin Running
    PROVE  UpdaterKnows(q)'
  BY DEF UpdaterKnows, Running

\* A step of the lock's holder p leaves the others idle, so only what p knows
\* has to be shown again.
LEMMA OnlyHolder ==
    ASSUME UpdateInvariant, NEW p \in Updater, pc[p] \in Running,
           NEW label, pc' = [pc EXCEPT ![p] = label],
           UpdaterKnows(p)'
    PROVE  \A q \in Updater : UpdaterKnows(q)'
  <1> SUFFICES ASSUME NEW q \in Updater, q # p PROVE UpdaterKnows(q)'
    OBVIOUS
  <1>1. pc[q] \notin Running
    BY DEF UpdateInvariant, HolderRuns
  <1>2. pc'[q] = pc[q]
    BY DEF UpdateInvariant, TypeOK
  <1> QED
    BY <1>1, <1>2, IdleKnows

\* The lock stays with p while p runs on.
LEMMA HolderStays ==
    ASSUME UpdateInvariant, NEW p \in Updater, pc[p] \in Running,
           NEW label \in Running, pc' = [pc EXCEPT ![p] = label], lock' = lock
    PROVE  HolderRuns'
  BY DEF UpdateInvariant, HolderRuns, TypeOK

\* A run that ends gives the lock up and nobody runs.
LEMMA HolderLeaves ==
    ASSUME UpdateInvariant, NEW p \in Updater, pc[p] \in Running,
           NEW label, label \notin Running, pc' = [pc EXCEPT ![p] = label],
           lock' = NoOne
    PROVE  /\ HolderRuns'
           /\ \A q \in Updater : UpdaterKnows(q)'
  <1>1. \A q \in Updater : pc'[q] \notin Running
    BY DEF UpdateInvariant, HolderRuns, TypeOK
  <1> QED
    BY <1>1, IdleKnows, UpdateAssumption DEF HolderRuns, NoOne

\* Steps that leave the disk alone keep what is said of it.
LEMMA DiskKept ==
    ASSUME UpdateInvariant, UNCHANGED disk
    PROVE  /\ \A a \in Area : DirectoryOrdered(a)'
           /\ ConfigurationIsLast'
           /\ Inspection' = Inspection
  BY DEF UpdateInvariant, disk, DirectoryOrdered, ConfigurationIsLast, Inspection

\* Taking the process lock touches nothing else.
LEMMA StartKeeps ==
    ASSUME UpdateInvariant, NEW p \in Updater, Start(p)
    PROVE  UpdateInvariant'
  <1>1. TypeOK'
    BY DEF UpdateInvariant, Start, TypeOK, Goto, disk, Running
  <1>2. HolderRuns'
    BY UpdateAssumption DEF UpdateInvariant, Start, HolderRuns, TypeOK, Goto, Running, NoOne
  <1>3. \A q \in Updater : UpdaterKnows(q)'
    <2> SUFFICES ASSUME NEW q \in Updater PROVE UpdaterKnows(q)'
      OBVIOUS
    <2>1. pc[q] \notin Running
      BY UpdateAssumption DEF UpdateInvariant, HolderRuns, Start, NoOne
    <2>2. CASE q = p
      BY <2>2 DEF Start, Goto, UpdateInvariant, TypeOK, UpdaterKnows
    <2>3. CASE q # p
      BY <2>1, <2>3, IdleKnows DEF Start, Goto, UpdateInvariant, TypeOK
    <2> QED
      BY <2>2, <2>3
  <1>4. SuccessIsDurable'
    BY DEF UpdateInvariant, SuccessIsDurable, Start, Goto, disk, TypeOK
  <1> QED
    BY <1>1, <1>2, <1>3, <1>4, DiskKept DEF UpdateInvariant, Start

\* A run that ends early leaves the disk as it is and nobody running.
LEMMA AbandonKeeps ==
    ASSUME UpdateInvariant, NEW p \in Updater, pc[p] \in Running, Abandon(p),
           UNCHANGED exact, interruptions' \in 0 .. MaxInterruptions
    PROVE  UpdateInvariant'
  <1>1. TypeOK'
    BY UpdateAssumption
       DEF UpdateInvariant, Abandon, TypeOK, Goto, disk, NoView, View, Stage, Setting, Area
  <1>2. HolderRuns' /\ \A q \in Updater : UpdaterKnows(q)'
    BY HolderLeaves DEF Abandon, Goto, Running
  <1>3. SuccessIsDurable'
    BY DEF UpdateInvariant, SuccessIsDurable, Abandon, Goto, disk, TypeOK
  <1> QED
    BY <1>1, <1>2, <1>3, DiskKept DEF UpdateInvariant, Abandon

\* Counts stay within their directories.
LEMMA Counts ==
    ASSUME UpdateInvariant
    PROVE  /\ \A a \in Area : entry[a].count \in Nat
           /\ entry["app"].count \in Nat
           /\ entry["app"].count <= CHANGED
           /\ entry["cfg"].count \in {0, 1}
  <1>1. \A a \in Area : entry[a] \in Entry
    BY DEF UpdateInvariant, TypeOK
  <1>2. \A a \in Area : entry[a].count \in Nat
    BY <1>1 DEF Entry
  <1>3. \A a \in Area : entry[a].count <= Files(a)
    BY DEF UpdateInvariant, DirectoryOrdered
  <1>4. entry["app"].count \in Nat /\ entry["app"].count <= CHANGED
    BY <1>2, <1>3, AreaFacts
  <1>5. entry["cfg"].count \in Nat /\ entry["cfg"].count <= 1
    BY <1>2, <1>3, AreaFacts
  <1>6. entry["cfg"].count \in {0, 1}
    BY <1>5
  <1> QED
    BY <1>2, <1>4, <1>6

\* An inspection is a well formed view of both directories.
LEMMA InspectionType ==
    ASSUME UpdateInvariant
    PROVE  Inspection \in [Area -> View]
  <1> SUFFICES ASSUME NEW a \in Area PROVE Inspection[a] \in View
    BY DEF Inspection
  <1>1. entry[a] \in Entry /\ inode[a] \in File
    BY DEF UpdateInvariant, TypeOK
  <1>2. 0 \in 0 .. Payload
    BY UpdateAssumption
  <1> QED
    BY <1>1, <1>2 DEF Inspection, View, Entry, File, Stage, Setting

\* Qualification stores what is on the host as the view of its run.
LEMMA QualifyKeeps ==
    ASSUME UpdateInvariant, NEW p \in Updater, Qualify(p)
    PROVE  UpdateInvariant'
  <1>0. pc[p] \in Running
    BY DEF Qualify, Running
  <1>a. Inspection \in [Area -> View]
    BY InspectionType
  <1> DEFINE label == IF entry["cfg"].count = 1 THEN "finish"
                      ELSE IF entry["app"].count = 0 THEN "stage" ELSE "sync"
  <1>b. label \in Running /\ pc' = [pc EXCEPT ![p] = label]
    BY DEF Running, Qualify, Goto
  <1>c. pc'[p] = label /\ view'[p] = Inspection
    BY <1>b DEF UpdateInvariant, TypeOK, Qualify
  <1>1. TypeOK'
    BY <1>a, <1>b DEF UpdateInvariant, Qualify, TypeOK, disk
  <1>2. HolderRuns'
    BY <1>0, <1>b, HolderStays DEF Qualify
  <1>d. entry["cfg"].count \in {0, 1} /\ entry["app"].count \in Nat
    BY Counts
  <1>3. UpdaterKnows(p)'
    BY <1>c, <1>d, DiskKept DEF Qualify, disk, UpdaterKnows
  <1>4. \A q \in Updater : UpdaterKnows(q)'
    BY <1>0, <1>b, <1>3, OnlyHolder
  <1>5. SuccessIsDurable'
    BY <1>b DEF UpdateInvariant, SuccessIsDurable, Qualify, disk, TypeOK
  <1> QED
    BY <1>1, <1>2, <1>4, <1>5, DiskKept DEF UpdateInvariant, Qualify

\* A directory fsync of a directory b: the contents seen are the contents kept.
LEMMA DirectorySynced ==
    ASSUME UpdateInvariant, NEW b \in Area,
           may' = [may EXCEPT ![b] = {entry[b]}],
           UNCHANGED <<entry, inode, synced>>
    PROVE  /\ may' \in [Area -> SUBSET Entry]
           /\ \A a \in Area : DirectoryOrdered(a)'
           /\ ConfigurationIsLast'
           /\ Inspection' = Inspection
           /\ \A a \in Area : may'[a] = may[a] \/ may'[a] = {entry[a]}
  <1>1. \A a \in Area : may'[a] = may[a] \/ may'[a] = {entry[a]}
    BY DEF UpdateInvariant, TypeOK
  <1>2. may' \in [Area -> SUBSET Entry]
    BY DEF UpdateInvariant, TypeOK
  <1>3. \A a \in Area : entry[a] \in may[a]
    BY DEF UpdateInvariant, DirectoryOrdered
  <1>4. \A a \in Area : DirectoryOrdered(a)'
    BY <1>1 DEF UpdateInvariant, DirectoryOrdered
  <1>5. ConfigurationIsLast'
    BY <1>1, <1>3, AreaFacts DEF UpdateInvariant, ConfigurationIsLast
  <1> QED
    BY <1>1, <1>2, <1>4, <1>5 DEF UpdateInvariant, Inspection

\* A completed update is kept by every step that only narrows what may be left.
LEMMA SuccessKept ==
    ASSUME UpdateInvariant,
           \A a \in Area : may'[a] = may[a] \/ may'[a] = {entry[a]},
           \A q \in Updater : pc'[q] = "done" => pc[q] = "done"
    PROVE  SuccessIsDurable'
  <1>1. \A a \in Area : entry[a] \in may[a]
    BY DEF UpdateInvariant, DirectoryOrdered
  <1> QED
    BY <1>1, AreaFacts DEF UpdateInvariant, SuccessIsDurable

\* The sync of an earlier run's renames settles the application directory.
LEMMA SyncPrefixKeeps ==
    ASSUME UpdateInvariant, NEW p \in Updater, SyncPrefix(p)
    PROVE  UpdateInvariant'
  <1>0. pc[p] \in Running /\ "recheck" \in Running
    BY DEF SyncPrefix, Running
  <1>a. pc' = [pc EXCEPT ![p] = "recheck"] /\ pc'[p] = "recheck"
    BY DEF SyncPrefix, Goto, UpdateInvariant, TypeOK
  <1>b. "app" \in Area
    BY AreaFacts
  <1>c. /\ may' \in [Area -> SUBSET Entry]
        /\ \A a \in Area : DirectoryOrdered(a)'
        /\ ConfigurationIsLast'
        /\ Inspection' = Inspection
        /\ \A a \in Area : may'[a] = may[a] \/ may'[a] = {entry[a]}
    BY <1>b, DirectorySynced DEF SyncPrefix
  <1>1. TypeOK'
    BY <1>0, <1>a, <1>c DEF UpdateInvariant, TypeOK, SyncPrefix
  <1>2. HolderRuns'
    BY <1>0, <1>a, HolderStays DEF SyncPrefix
  <1>d. may'["app"] = {entry["app"]}
    BY <1>b DEF SyncPrefix, UpdateInvariant, TypeOK
  <1>3. UpdaterKnows(p)'
    BY <1>a, <1>c, <1>d DEF UpdateInvariant, UpdaterKnows, SyncPrefix
  <1>4. \A q \in Updater : UpdaterKnows(q)'
    BY <1>0, <1>a, <1>3, OnlyHolder
  <1>5. SuccessIsDurable'
    BY <1>a, <1>c, SuccessKept DEF UpdateInvariant, TypeOK
  <1> QED
    BY <1>1, <1>2, <1>c, <1>4, <1>5 DEF UpdateInvariant

\* Qualifying again after that sync finds the same view.
LEMMA RecheckKeeps ==
    ASSUME UpdateInvariant, NEW p \in Updater, Recheck(p)
    PROVE  UpdateInvariant'
  <1>0. pc[p] \in Running /\ "stage" \in Running
    BY DEF Recheck, Running
  <1>a. pc' = [pc EXCEPT ![p] = "stage"] /\ pc'[p] = "stage"
    BY DEF Recheck, Goto, UpdateInvariant, TypeOK
  <1>1. TypeOK'
    BY <1>0, <1>a DEF UpdateInvariant, TypeOK, Recheck, disk
  <1>2. HolderRuns'
    BY <1>0, <1>a, HolderStays DEF Recheck
  <1>3. UpdaterKnows(p)'
    BY <1>a, DiskKept DEF UpdateInvariant, UpdaterKnows, Recheck, disk
  <1>4. \A q \in Updater : UpdaterKnows(q)'
    BY <1>0, <1>a, <1>3, OnlyHolder
  <1>5. SuccessIsDurable'
    BY <1>a, SuccessKept DEF UpdateInvariant, TypeOK, Recheck, disk
  <1> QED
    BY <1>1, <1>2, <1>4, <1>5, DiskKept DEF UpdateInvariant, Recheck

\* What an updater about to create or continue a stage knows of its target.
LEMMA StageContext ==
    ASSUME UpdateInvariant, NEW p \in Updater, pc[p] = "stage"
    PROVE  /\ Target(p) \in Area
           /\ view[p] = Inspection
           /\ view[p]["app"].count = entry["app"].count
           /\ entry["cfg"].count = 0
           /\ Target(p) = "app" => entry["app"].count < CHANGED
           /\ Target(p) = "cfg" => may["app"] = {Entered(CHANGED, "absent")}
           /\ entry["app"].count > 0 => may["app"] = {entry["app"]}
  <1>1. view[p] = Inspection /\ entry["cfg"].count = 0
    BY DEF UpdateInvariant, UpdaterKnows
  <1>2. view[p]["app"].count = entry["app"].count
    BY <1>1, AreaFacts DEF Inspection
  <1>3. entry["app"].count > 0 => may["app"] = {entry["app"]}
    BY DEF UpdateInvariant, UpdaterKnows
  <1>4. ASSUME Target(p) = "cfg" PROVE may["app"] = {Entered(CHANGED, "absent")}
    <2>1. entry["app"].count = CHANGED /\ CHANGED > 0
      BY <1>2, <1>4, Counts, UpdateAssumption, AreaFacts DEF Target
    <2>2. entry["app"] \in Entry /\ entry["app"].stage # "present"
      BY <2>1, AreaFacts, UpdateAssumption
         DEF UpdateInvariant, TypeOK, DirectoryOrdered
    <2>3. entry["app"] = Entered(CHANGED, "absent")
      BY <2>1, <2>2 DEF Entered, Entry, Stage
    <2> QED
      BY <1>3, <2>1, <2>3
  <1> QED
    BY <1>1, <1>2, <1>3, <1>4, AreaFacts DEF Target

\* A new stage is created only where no rename is in doubt, and the
\* configuration's only on a durable application.
LEMMA CreateStageKeeps ==
    ASSUME UpdateInvariant, NEW p \in Updater, CreateStage(p)
    PROVE  UpdateInvariant'
  <1> DEFINE t == Target(p)
             new == [file |-> entry[t].count + 1, len |-> 0, mode |-> "initial",
                     owner |-> IF t = "app" THEN "final" ELSE "initial"]
             staged == Entered(entry[t].count, "present")
  <1>0. pc[p] \in Running /\ "own" \in Running /\ pc[p] = "stage"
    BY DEF CreateStage, Running
  <1>a. pc' = [pc EXCEPT ![p] = "own"] /\ pc'[p] = "own"
    BY DEF CreateStage, Goto, UpdateInvariant, TypeOK
  <1>b. t \in Area /\ entry[t].count \in Nat /\ entry[t].stage = "absent"
    BY StageContext, Counts, <1>0 DEF CreateStage
  <1>c. entry[t].count < Files(t)
    BY StageContext, AreaFacts, <1>0
  <1>d. new \in File /\ staged \in Entry
    BY <1>b, UpdateAssumption DEF File, Setting, Entry, Entered, Stage
  <1>e. /\ entry' = [entry EXCEPT ![t] = staged]
        /\ may' = [may EXCEPT ![t] = may[t] \cup {staged}]
        /\ inode' = [inode EXCEPT ![t] = new]
        /\ synced' = [synced EXCEPT ![t] = new]
    BY DEF CreateStage
  <1>f. /\ entry'[t] = staged /\ may'[t] = may[t] \cup {staged}
        /\ inode'[t] = new /\ synced'[t] = new
        /\ \A a \in Area : a # t => /\ entry'[a] = entry[a] /\ may'[a] = may[a]
                                    /\ inode'[a] = inode[a] /\ synced'[a] = synced[a]
    BY <1>b, <1>e DEF UpdateInvariant, TypeOK
  <1>g. staged.count = entry[t].count /\ staged.stage = "present"
    BY DEF Entered
  <1>h. \A e \in may[t] : e.count = entry[t].count
    <2>1. \A e \in may[t] : e = entry[t] \/ e.count + 1 = entry[t].count
      BY <1>b DEF UpdateInvariant, DirectoryOrdered
    <2>2. may[t] \subseteq Entry
      BY <1>b DEF UpdateInvariant, TypeOK
    <2>3. CASE entry[t].count = 0
      BY <2>1, <2>2, <2>3 DEF Entry
    <2>4. CASE entry[t].count > 0
      <3>1. t = "app"
        BY <2>4, <1>0, StageContext, AreaFacts
      <3> QED
        BY <3>1, <2>4, <1>0, StageContext
    <2> QED
      BY <1>b, <2>3, <2>4
  <1>1. TypeOK'
    BY <1>0, <1>a, <1>b, <1>d, <1>e DEF UpdateInvariant, TypeOK, CreateStage
  <1>2. HolderRuns'
    BY <1>0, <1>a, HolderStays DEF CreateStage
  <1>3. \A a \in Area : DirectoryOrdered(a)'
    <2> SUFFICES ASSUME NEW a \in Area PROVE DirectoryOrdered(a)'
      OBVIOUS
    <2>1. CASE a = t
      <3>1. new.file = entry[t].count + 1 /\ new.mode = "initial"
        OBVIOUS
      <3>2. new.len \in Nat
        OBVIOUS
      <3> HIDE DEF new, staged, t
      <3> QED
        BY <2>1, <3>1, <3>2, <1>b, <1>c, <1>f, <1>g, <1>h, AreaFacts DEF DirectoryOrdered, Files
    <2>2. CASE a # t
      BY <2>2, <1>f DEF UpdateInvariant, DirectoryOrdered
    <2> QED
      BY <2>1, <2>2
  <1>4. ConfigurationIsLast'
    <2>1. CASE t = "cfg"
      BY <2>1, <1>0, <1>f, StageContext, AreaFacts DEF ConfigurationIsLast
    <2>2. CASE t = "app"
      <3>1. entry["app"].count < CHANGED
        BY <2>2, <1>0, StageContext
      <3>2. may["app"] # {Entered(CHANGED, "absent")}
        BY <3>1, AreaFacts, Counts, UpdateAssumption DEF UpdateInvariant, DirectoryOrdered, Entered
      <3>3. \A e \in may["cfg"] : ~ (e.count = 1 \/ e.stage = "present")
        BY <3>2 DEF UpdateInvariant, ConfigurationIsLast
      <3> QED
        BY <2>2, <3>3, <1>f, AreaFacts DEF ConfigurationIsLast
    <2> QED
      BY <2>1, <2>2, <1>b, AreaFacts
  <1>5. UpdaterKnows(p)'
    <2>1. Target(p)' = t
      BY DEF CreateStage, Target
    <2>2. entry'["cfg"].count = 0 /\ entry'["app"].count = entry["app"].count
      BY <1>0, <1>b, <1>f, <1>g, StageContext, AreaFacts
    <2>3. view'[p]["app"].count = entry["app"].count
      BY <1>0, StageContext DEF CreateStage
    <2> QED
      BY <2>1, <2>2, <2>3, <1>a, <1>f, <1>g DEF UpdaterKnows
  <1>6. \A q \in Updater : UpdaterKnows(q)'
    BY <1>0, <1>a, <1>5, OnlyHolder
  <1>7. SuccessIsDurable'
    <2>1. \A q \in Updater : pc[q] # "done"
      <3>1. entry["cfg"].count = 0 /\ entry["cfg"] \in may["cfg"]
        BY <1>0, StageContext, AreaFacts DEF UpdateInvariant, DirectoryOrdered
      <3>2. Entered(1, "absent").count = 1
        BY DEF Entered
      <3> QED
        BY <3>1, <3>2 DEF UpdateInvariant, SuccessIsDurable
    <2> QED
      BY <2>1, <1>a DEF SuccessIsDurable, UpdateInvariant, TypeOK
  <1> QED
    BY <1>1, <1>2, <1>3, <1>4, <1>6, <1>7 DEF UpdateInvariant

\* A stage that an earlier run left is picked up as it is.
LEMMA ContinueStageKeeps ==
    ASSUME UpdateInvariant, NEW p \in Updater, ContinueStage(p)
    PROVE  UpdateInvariant'
  <1>0. pc[p] \in Running /\ "own" \in Running /\ pc[p] = "stage"
    BY DEF ContinueStage, Running
  <1>a. pc' = [pc EXCEPT ![p] = "own"] /\ pc'[p] = "own"
    BY DEF ContinueStage, Goto, UpdateInvariant, TypeOK
  <1>1. TypeOK'
    BY <1>0, <1>a DEF UpdateInvariant, TypeOK, ContinueStage, disk
  <1>2. HolderRuns'
    BY <1>0, <1>a, HolderStays DEF ContinueStage
  <1>3. UpdaterKnows(p)'
    <2>1. Target(p)' = Target(p)
      BY DEF ContinueStage, Target
    <2>2. entry[Target(p)].stage = "present"
      BY DEF ContinueStage
    <2> QED
      BY <2>1, <2>2, <1>0, <1>a, StageContext DEF ContinueStage, UpdaterKnows, disk
  <1>4. \A q \in Updater : UpdaterKnows(q)'
    BY <1>0, <1>a, <1>3, OnlyHolder
  <1>5. SuccessIsDurable'
    BY <1>a, SuccessKept DEF UpdateInvariant, TypeOK, ContinueStage, disk
  <1> QED
    BY <1>1, <1>2, <1>4, <1>5, DiskKept DEF UpdateInvariant, ContinueStage

\* The target of an updater that is writing its stage.
LEMMA WritingContext ==
    ASSUME UpdateInvariant, NEW p \in Updater,
           pc[p] \in {"own", "write", "chmod", "seal", "rename"}
    PROVE  /\ Target(p) \in Area
           /\ entry[Target(p)] \in Entry
           /\ entry[Target(p)].stage = "present"
           /\ entry[Target(p)].count < Files(Target(p))
           /\ inode[Target(p)] \in File
           /\ synced[Target(p)] \in File
           /\ inode[Target(p)].file = entry[Target(p)].count + 1
           /\ synced[Target(p)].file = inode[Target(p)].file
           /\ synced[Target(p)].len <= inode[Target(p)].len
           /\ synced[Target(p)].mode = "final" => inode[Target(p)].mode = "final"
           /\ synced[Target(p)].owner = "final" => inode[Target(p)].owner = "final"
           /\ inode[Target(p)].mode = "final" =>
                 synced[Target(p)].len = Payload /\ synced[Target(p)].owner = "final"
           /\ entry["cfg"].count = 0
           /\ view[p]["app"].count = entry["app"].count
  <1>1. Target(p) \in Area
    BY AreaFacts DEF Target
  <1>2. /\ entry[Target(p)].stage = "present"
        /\ entry["cfg"].count = 0
        /\ view[p]["app"].count = entry["app"].count
    BY DEF UpdateInvariant, UpdaterKnows
  <1>3. DirectoryOrdered(Target(p))
    BY <1>1 DEF UpdateInvariant
  <1>4. /\ entry[Target(p)] \in Entry
        /\ inode[Target(p)] \in File
        /\ synced[Target(p)] \in File
    BY <1>1 DEF UpdateInvariant, TypeOK
  <1> QED
    BY <1>1, <1>2, <1>3, <1>4 DEF DirectoryOrdered

\* A step that changes only the stage file i, or its synced image s.
LEMMA StageFileStep ==
    ASSUME UpdateInvariant, NEW p \in Updater,
           pc[p] \in {"own", "write", "chmod", "seal"},
           NEW label \in {"write", "chmod", "seal", "rename"},
           pc' = [pc EXCEPT ![p] = label],
           UNCHANGED <<entry, may, view, lock, exact, interruptions>>,
           NEW i \in File, NEW s \in File,
           inode' = [inode EXCEPT ![Target(p)] = i],
           synced' = [synced EXCEPT ![Target(p)] = s],
           i.file = inode[Target(p)].file, s.file = i.file,
           s.len <= i.len,
           s.mode = "final" => i.mode = "final",
           s.owner = "final" => i.owner = "final",
           i.mode = "final" => s.len = Payload /\ s.owner = "final",
           i.owner = "final",
           label \in {"chmod", "seal", "rename"} =>
               i.len = Payload /\ s.len = Payload /\ s.owner = "final",
           label \in {"seal", "rename"} => i.mode = "final",
           label = "rename" => s = i
    PROVE  UpdateInvariant'
  <1> DEFINE t == Target(p)
  <1>0. pc[p] \in Running /\ label \in Running /\ pc'[p] = label
    BY DEF Running, UpdateInvariant, TypeOK
  <1>a. t \in Area /\ entry[t].stage = "present" /\ Target(p)' = t
    BY WritingContext DEF Target
  <1>b. /\ inode'[t] = i /\ synced'[t] = s
        /\ \A a \in Area : a # t => inode'[a] = inode[a] /\ synced'[a] = synced[a]
    BY <1>a DEF UpdateInvariant, TypeOK
  <1>1. TypeOK'
    BY <1>0, <1>a DEF UpdateInvariant, TypeOK
  <1>2. HolderRuns'
    BY <1>0, HolderStays
  <1>3. \A a \in Area : DirectoryOrdered(a)'
    <2> SUFFICES ASSUME NEW a \in Area PROVE DirectoryOrdered(a)'
      OBVIOUS
    <2>1. DirectoryOrdered(a)
      BY DEF UpdateInvariant
    <2>2. CASE a = t
      BY <2>1, <2>2, <1>a, <1>b DEF DirectoryOrdered, Files
    <2>3. CASE a # t
      BY <2>1, <2>3, <1>b DEF DirectoryOrdered, Files
    <2> QED
      BY <2>2, <2>3
  <1>4. ConfigurationIsLast'
    BY DEF UpdateInvariant, ConfigurationIsLast
  <1>5. UpdaterKnows(p)'
    BY <1>0, <1>a, <1>b, WritingContext DEF UpdaterKnows
  <1>6. \A q \in Updater : UpdaterKnows(q)'
    BY <1>0, <1>5, OnlyHolder
  <1>7. SuccessIsDurable'
    BY <1>0, SuccessKept DEF UpdateInvariant, TypeOK, Running
  <1> QED
    BY <1>1, <1>2, <1>3, <1>4, <1>6, <1>7 DEF UpdateInvariant

\* The owner becomes final while the mode is still initial, or was durable.
LEMMA TakeOwnershipKeeps ==
    ASSUME UpdateInvariant, NEW p \in Updater, TakeOwnership(p)
    PROVE  UpdateInvariant'
  <1> DEFINE t == Target(p)
             i == [inode[t] EXCEPT !.owner = "final"]
             s == synced[t]
  <1>0. pc[p] = "own"
    BY DEF TakeOwnership
  <1>1. t \in Area /\ inode[t] \in File /\ s \in File
    BY <1>0, WritingContext
  <1>2. /\ i \in File /\ i.file = inode[t].file /\ i.len = inode[t].len
        /\ i.mode = inode[t].mode /\ i.owner = "final"
    BY <1>1 DEF File, Setting
  <1>3. inode' = [inode EXCEPT ![t] = i] /\ synced' = [synced EXCEPT ![t] = s]
    BY <1>1 DEF TakeOwnership, UpdateInvariant, TypeOK
  <1>4. pc' = [pc EXCEPT ![p] = "write"]
    BY DEF TakeOwnership, Goto
  <1>5. UNCHANGED <<entry, may, view, lock, exact, interruptions>>
    BY DEF TakeOwnership
  <1>6. /\ s.file = inode[t].file /\ s.len <= inode[t].len
        /\ s.mode = "final" => inode[t].mode = "final"
        /\ inode[t].mode = "final" => s.len = Payload /\ s.owner = "final"
    BY <1>0, WritingContext
  <1> HIDE DEF i, s, t
  <1> QED
    BY <1>0, <1>1, <1>2, <1>3, <1>4, <1>5, <1>6, StageFileStep DEF t

\* Bytes are appended only in the initial mode.
LEMMA WriteChunkKeeps ==
    ASSUME UpdateInvariant, NEW p \in Updater, WriteChunk(p)
    PROVE  UpdateInvariant'
  <1> DEFINE t == Target(p)
             i == [inode[t] EXCEPT !.len = inode[t].len + 1]
             s == synced[t]
  <1>0. pc[p] = "write"
    BY DEF WriteChunk
  <1>1. t \in Area /\ inode[t] \in File /\ synced[t] \in File
    BY <1>0, WritingContext
  <1>2. /\ i \in File /\ i.file = inode[t].file /\ i.len = inode[t].len + 1
        /\ i.mode = "initial" /\ i.owner = inode[t].owner
    BY <1>1, UpdateAssumption DEF WriteChunk, File, Setting
  <1>3. inode' = [inode EXCEPT ![t] = i] /\ synced' = [synced EXCEPT ![t] = s]
    BY <1>1 DEF WriteChunk, UpdateInvariant, TypeOK
  <1>4. pc' = [pc EXCEPT ![p] = "write"]
    BY <1>0 DEF WriteChunk, UpdateInvariant, TypeOK
  <1>5. UNCHANGED <<entry, may, view, lock, exact, interruptions>>
    BY DEF WriteChunk
  <1>6. /\ s \in File /\ s.file = inode[t].file /\ s.len <= inode[t].len + 1
        /\ s.mode # "final" /\ inode[t].owner = "final"
    BY <1>0, <1>1, WritingContext DEF WriteChunk, UpdateInvariant, UpdaterKnows, File
  <1> HIDE DEF i, s, t
  <1> QED
    BY <1>0, <1>1, <1>2, <1>3, <1>4, <1>5, <1>6, StageFileStep DEF t

\* All bytes and the owner are durable before the mode changes.
LEMMA SyncBytesKeeps ==
    ASSUME UpdateInvariant, NEW p \in Updater, SyncBytes(p)
    PROVE  UpdateInvariant'
  <1> DEFINE t == Target(p)
             i == inode[t]
             s == inode[t]
  <1>0. pc[p] = "write"
    BY DEF SyncBytes
  <1>1. t \in Area /\ inode[t] \in File /\ synced[t] \in File
    BY <1>0, WritingContext
  <1>2. i.len = Payload /\ i.owner = "final"
    BY <1>0 DEF SyncBytes, UpdateInvariant, UpdaterKnows
  <1>3. inode' = [inode EXCEPT ![t] = i] /\ synced' = [synced EXCEPT ![t] = s]
    BY <1>1 DEF SyncBytes, UpdateInvariant, TypeOK
  <1>4. pc' = [pc EXCEPT ![p] = "chmod"]
    BY DEF SyncBytes, Goto
  <1>5. UNCHANGED <<entry, may, view, lock, exact, interruptions>>
    BY DEF SyncBytes
  <1>6. i \in File /\ s = i /\ i.len <= i.len /\ i.file = inode[t].file
    BY <1>1 DEF File
  <1> HIDE DEF i, s, t
  <1> QED
    BY <1>0, <1>1, <1>2, <1>3, <1>4, <1>5, <1>6, StageFileStep DEF t

\* The mode changes on durable bytes.
LEMMA ChangeModeKeeps ==
    ASSUME UpdateInvariant, NEW p \in Updater, ChangeMode(p)
    PROVE  UpdateInvariant'
  <1> DEFINE t == Target(p)
             i == [inode[t] EXCEPT !.mode = "final"]
             s == synced[t]
  <1>0. pc[p] = "chmod"
    BY DEF ChangeMode
  <1>1. t \in Area /\ inode[t] \in File /\ synced[t] \in File
    BY <1>0, WritingContext
  <1>2. /\ i \in File /\ i.file = inode[t].file /\ i.len = inode[t].len
        /\ i.mode = "final" /\ i.owner = inode[t].owner
    BY <1>1 DEF File, Setting
  <1>3. inode' = [inode EXCEPT ![t] = i] /\ synced' = [synced EXCEPT ![t] = s]
    BY <1>1 DEF ChangeMode, UpdateInvariant, TypeOK
  <1>4. pc' = [pc EXCEPT ![p] = "seal"]
    BY DEF ChangeMode, Goto
  <1>5. UNCHANGED <<entry, may, view, lock, exact, interruptions>>
    BY DEF ChangeMode
  <1>6. /\ s \in File /\ s.file = inode[t].file /\ s.len <= inode[t].len
        /\ inode[t].len = Payload /\ inode[t].owner = "final"
        /\ s.len = Payload /\ s.owner = "final"
    BY <1>0, <1>1, WritingContext DEF UpdateInvariant, UpdaterKnows
  <1> HIDE DEF i, s, t
  <1> QED
    BY <1>0, <1>1, <1>2, <1>3, <1>4, <1>5, <1>6, StageFileStep DEF t

\* The whole stage is durable before the rename.
LEMMA SyncModeKeeps ==
    ASSUME UpdateInvariant, NEW p \in Updater, SyncMode(p)
    PROVE  UpdateInvariant'
  <1> DEFINE t == Target(p)
             i == inode[t]
             s == inode[t]
  <1>0. pc[p] = "seal"
    BY DEF SyncMode
  <1>1. t \in Area /\ inode[t] \in File /\ synced[t] \in File
    BY <1>0, WritingContext
  <1>2. i.len = Payload /\ i.owner = "final" /\ i.mode = "final"
    BY <1>0 DEF UpdateInvariant, UpdaterKnows
  <1>3. inode' = [inode EXCEPT ![t] = i] /\ synced' = [synced EXCEPT ![t] = s]
    BY <1>1 DEF SyncMode, UpdateInvariant, TypeOK
  <1>4. pc' = [pc EXCEPT ![p] = "rename"]
    BY DEF SyncMode, Goto
  <1>5. UNCHANGED <<entry, may, view, lock, exact, interruptions>>
    BY DEF SyncMode
  <1>6. i \in File /\ s = i /\ i.len <= i.len /\ i.file = inode[t].file
    BY <1>1 DEF File
  <1> HIDE DEF i, s, t
  <1> QED
    BY <1>0, <1>1, <1>2, <1>3, <1>4, <1>5, <1>6, StageFileStep DEF t

\* The rename moves a durable whole file into place, and is itself in doubt.
LEMMA ReplaceKeeps ==
    ASSUME UpdateInvariant, NEW p \in Updater, Replace(p)
    PROVE  UpdateInvariant'
  <1> DEFINE t == Target(p)
             moved == Entered(entry[t].count + 1, "absent")
  <1>0. pc[p] \in Running /\ "publish" \in Running /\ pc[p] = "rename"
    BY DEF Replace, Running
  <1>a. pc' = [pc EXCEPT ![p] = "publish"] /\ pc'[p] = "publish"
    BY DEF Replace, Goto, UpdateInvariant, TypeOK
  <1>b. /\ t \in Area /\ entry[t].count \in Nat /\ entry[t].stage = "present"
        /\ entry[t].count < Files(t) /\ entry[t] \in may[t]
    BY <1>0, WritingContext, Counts DEF UpdateInvariant, DirectoryOrdered
  <1>c. moved \in Entry /\ moved.count = entry[t].count + 1 /\ moved.stage = "absent"
    BY <1>b DEF Entry, Entered, Stage
  <1>d. inode[t] = Complete(entry[t].count + 1) /\ synced[t] = inode[t]
    <2>1. /\ inode[t] \in File /\ inode[t].file = entry[t].count + 1
          /\ inode[t].len = Payload /\ inode[t].mode = "final"
          /\ inode[t].owner = "final" /\ synced[t] = inode[t]
      BY <1>0, WritingContext DEF UpdateInvariant, UpdaterKnows
    <2> QED
      BY <2>1 DEF File, Complete
  <1>e. /\ entry' = [entry EXCEPT ![t] = moved]
        /\ may' = [may EXCEPT ![t] = may[t] \cup {moved}]
        /\ inode' = inode /\ synced' = synced
    BY DEF Replace
  <1>f. /\ entry'[t] = moved /\ may'[t] = may[t] \cup {moved}
        /\ \A a \in Area : a # t => entry'[a] = entry[a] /\ may'[a] = may[a]
    BY <1>b, <1>e DEF UpdateInvariant, TypeOK
  <1>g. \A e \in may[t] : e.count = entry[t].count
    BY <1>b DEF UpdateInvariant, DirectoryOrdered
  <1>1. TypeOK'
    BY <1>0, <1>a, <1>b, <1>c, <1>e DEF UpdateInvariant, TypeOK, Replace
  <1>2. HolderRuns'
    BY <1>0, <1>a, HolderStays DEF Replace
  <1>3. \A a \in Area : DirectoryOrdered(a)'
    <2> SUFFICES ASSUME NEW a \in Area PROVE DirectoryOrdered(a)'
      OBVIOUS
    <2>0. DirectoryOrdered(a)
      BY DEF UpdateInvariant
    <2>1. CASE a = t
      <3> HIDE DEF moved, t
      <3> QED
        BY <2>0, <2>1, <1>b, <1>c, <1>d, <1>e, <1>f, <1>g, AreaFacts
           DEF DirectoryOrdered, Files
    <2>2. CASE a # t
      BY <2>0, <2>2, <1>e, <1>f DEF DirectoryOrdered
    <2> QED
      BY <2>1, <2>2
  <1>4. ConfigurationIsLast'
    <2>1. CASE t = "cfg"
      <3>1. may["app"] = {Entered(CHANGED, "absent")}
        BY <2>1, <1>b DEF UpdateInvariant, ConfigurationIsLast
      <3> QED
        BY <2>1, <3>1, <1>f, AreaFacts DEF ConfigurationIsLast
    <2>2. CASE t = "app"
      <3>1. may["app"] # {Entered(CHANGED, "absent")}
        BY <2>2, <1>b, AreaFacts DEF Entered
      <3>2. \A e \in may["cfg"] : ~ (e.count = 1 \/ e.stage = "present")
        BY <3>1 DEF UpdateInvariant, ConfigurationIsLast
      <3> QED
        BY <2>2, <3>2, <1>f, AreaFacts DEF ConfigurationIsLast
    <2> QED
      BY <2>1, <2>2, <1>b, AreaFacts
  <1>5. UpdaterKnows(p)'
    BY <1>a DEF UpdaterKnows
  <1>6. \A q \in Updater : UpdaterKnows(q)'
    BY <1>0, <1>a, <1>5, OnlyHolder
  <1>7. SuccessIsDurable'
    <2>1. \A q \in Updater : pc[q] # "done"
      <3>1. entry["cfg"].count = 0 /\ entry["cfg"] \in may["cfg"]
        BY <1>0, WritingContext, AreaFacts DEF UpdateInvariant, DirectoryOrdered
      <3>2. Entered(1, "absent").count = 1
        BY DEF Entered
      <3> QED
        BY <3>1, <3>2 DEF UpdateInvariant, SuccessIsDurable
    <2> QED
      BY <2>1, <1>a DEF SuccessIsDurable, UpdateInvariant, TypeOK
  <1> QED
    BY <1>1, <1>2, <1>3, <1>4, <1>6, <1>7 DEF UpdateInvariant

\* The views of the model are well formed before any inspection.
LEMMA NoViewType == NoView \in [Area -> View]
  BY UpdateAssumption DEF NoView, View, Stage, Setting

\* The sync after a rename settles it, and the loop qualifies the host again.
LEMMA SyncRenameKeeps ==
    ASSUME UpdateInvariant, NEW p \in Updater, SyncRename(p)
    PROVE  UpdateInvariant'
  <1>0. pc[p] \in Running /\ "qualify" \in Running
    BY DEF SyncRename, Running
  <1>a. pc' = [pc EXCEPT ![p] = "qualify"] /\ pc'[p] = "qualify"
    BY DEF SyncRename, Goto, UpdateInvariant, TypeOK
  <1>b. Target(p) \in Area
    BY AreaFacts DEF Target
  <1>c. /\ may' \in [Area -> SUBSET Entry]
        /\ \A a \in Area : DirectoryOrdered(a)'
        /\ ConfigurationIsLast'
        /\ \A a \in Area : may'[a] = may[a] \/ may'[a] = {entry[a]}
    BY <1>b, DirectorySynced DEF SyncRename
  <1>1. TypeOK'
    BY <1>0, <1>a, <1>c, NoViewType DEF UpdateInvariant, TypeOK, SyncRename
  <1>2. HolderRuns'
    BY <1>0, <1>a, HolderStays DEF SyncRename
  <1>3. UpdaterKnows(p)'
    BY <1>a DEF UpdaterKnows
  <1>4. \A q \in Updater : UpdaterKnows(q)'
    BY <1>0, <1>a, <1>3, OnlyHolder
  <1>5. SuccessIsDurable'
    BY <1>a, <1>c, SuccessKept DEF UpdateInvariant, TypeOK
  <1> QED
    BY <1>1, <1>2, <1>c, <1>4, <1>5 DEF UpdateInvariant

\* A run returns only with both directories durable in their final contents.
LEMMA FinishKeeps ==
    ASSUME UpdateInvariant, NEW p \in Updater, Finish(p)
    PROVE  UpdateInvariant'
  <1>0. pc[p] \in Running /\ "done" \notin Running
    BY DEF Finish, Running
  <1>a. pc' = [pc EXCEPT ![p] = "done"] /\ lock' = NoOne
    BY DEF Finish, Goto
  <1>b. "cfg" \in Area /\ "app" \in Area /\ "app" # "cfg"
    BY AreaFacts
  <1>c. /\ may' \in [Area -> SUBSET Entry]
        /\ \A a \in Area : DirectoryOrdered(a)'
        /\ ConfigurationIsLast'
        /\ \A a \in Area : may'[a] = may[a] \/ may'[a] = {entry[a]}
    BY <1>b, DirectorySynced DEF Finish
  <1>1. TypeOK'
    BY <1>0, <1>a, <1>c, NoViewType DEF UpdateInvariant, TypeOK, Finish
  <1>2. HolderRuns' /\ \A q \in Updater : UpdaterKnows(q)'
    BY <1>0, <1>a, HolderLeaves
  <1>3. may'["app"] = {Entered(CHANGED, "absent")} /\ may'["cfg"] = {Entered(1, "absent")}
    <2>1. entry["cfg"].count = 1 /\ entry["cfg"] \in may["cfg"]
      BY <1>b DEF UpdateInvariant, UpdaterKnows, Finish, DirectoryOrdered
    <2>2. may["app"] = {Entered(CHANGED, "absent")}
      BY <2>1 DEF UpdateInvariant, ConfigurationIsLast
    <2>3. entry["cfg"] \in Entry /\ entry["cfg"].stage # "present"
      BY <2>1, AreaFacts DEF UpdateInvariant, TypeOK, DirectoryOrdered
    <2>4. entry["cfg"] = Entered(1, "absent")
      BY <2>1, <2>3 DEF Entry, Entered, Stage
    <2> QED
      BY <2>2, <2>4, <1>b DEF Finish, UpdateInvariant, TypeOK
  <1>4. SuccessIsDurable'
    BY <1>3 DEF SuccessIsDurable
  <1> QED
    BY <1>1, <1>2, <1>c, <1>4 DEF UpdateInvariant

\* Each content that a power loss may leave of a directory is orderly: a whole
\* newest file, or a stage for the next one in its initial mode or whole.
LEMMA LossIsOrderly ==
    ASSUME UpdateInvariant, NEW a \in Area, NEW l \in AfterLoss(a)
    PROVE  /\ l.entry \in may[a] /\ l.entry \in Entry /\ l.inode \in File
           /\ l.entry.count <= Files(a)
           /\ l.entry.stage = "present" =>
                 l.entry.count < Files(a) /\ l.inode.file = l.entry.count + 1
           /\ l.entry.stage = "absent" => l.inode = Complete(l.entry.count)
           /\ l.inode.mode = "final" => l.inode.len = Payload /\ l.inode.owner = "final"
  <1>1. PICK e \in may[a], n \in synced[a].len .. inode[a].len,
             m \in {synced[a].mode, inode[a].mode},
             o \in {synced[a].owner, inode[a].owner} :
             l = [entry |-> e,
                  inode |-> IF inode[a].file = Newest(e)
                            THEN [file |-> inode[a].file, len |-> n,
                                  mode |-> m, owner |-> o]
                            ELSE Complete(Newest(e))]
    BY DEF AfterLoss
  <1> DEFINE mixed == [file |-> inode[a].file, len |-> n, mode |-> m, owner |-> o]
  <1>2. l.entry = e /\ l.inode = IF inode[a].file = Newest(e) THEN mixed
                                 ELSE Complete(Newest(e))
    BY <1>1
  <1>3. DirectoryOrdered(a)
    BY DEF UpdateInvariant
  <1>4. /\ e \in Entry /\ entry[a] \in Entry
        /\ inode[a] \in File /\ synced[a] \in File
    BY DEF UpdateInvariant, TypeOK
  <1>5. /\ e.count \in Nat /\ e.stage \in {"absent", "present"}
        /\ entry[a].count \in Nat /\ entry[a].stage \in {"absent", "present"}
    BY <1>4 DEF Entry, Stage
  <1>6. /\ inode[a].file \in Nat /\ inode[a].len \in 0 .. Payload
        /\ inode[a].mode \in Setting /\ inode[a].owner \in Setting
        /\ synced[a].len \in 0 .. Payload
        /\ synced[a].mode \in Setting /\ synced[a].owner \in Setting
    BY <1>4 DEF File
  <1>7. n \in 0 .. Payload /\ m \in Setting /\ o \in Setting
    BY <1>6, UpdateAssumption
  <1>8. mixed \in File
    BY <1>6, <1>7 DEF File
  <1>9. m = "final" => n = Payload /\ o = "final"
    BY <1>3, <1>6, <1>7, UpdateAssumption DEF DirectoryOrdered
  <1>10. Newest(e) \in Nat /\ Complete(Newest(e)) \in File
    BY <1>5, UpdateAssumption DEF Newest, Complete, File, Setting
  <1>11. Files(a) \in Nat \ {0}
    BY AreaFacts
  <1>12. /\ e.count <= Files(a)
         /\ e.stage = "present" => e.count < Files(a) /\ inode[a].file = Newest(e)
    <2>1. CASE entry[a].stage = "present"
      BY <2>1, <1>3, <1>5, <1>11 DEF DirectoryOrdered, Newest
    <2>2. CASE entry[a].stage = "absent"
      <3>1. inode[a].file = entry[a].count
        BY <2>2, <1>3 DEF DirectoryOrdered, Complete
      <3>2. e = entry[a] \/ e.count + 1 = entry[a].count
        BY <2>2, <1>3 DEF DirectoryOrdered
      <3>3. entry[a].count <= Files(a)
        BY <1>3 DEF DirectoryOrdered
      <3> QED
        BY <2>2, <3>1, <3>2, <3>3, <1>5, <1>11 DEF Newest
    <2> QED
      BY <1>5, <2>1, <2>2
  <1>13. e.stage = "absent" => l.inode = Complete(e.count)
    <2> SUFFICES ASSUME e.stage = "absent", inode[a].file = e.count
                 PROVE  mixed = Complete(e.count)
      BY <1>2 DEF Newest
    <2>1. entry[a].stage = "absent"
      BY <1>3, <1>5 DEF DirectoryOrdered
    <2>2. /\ inode[a] = Complete(entry[a].count) /\ synced[a] = inode[a]
          /\ e = entry[a] \/ e.count + 1 = entry[a].count
      BY <2>1, <1>3 DEF DirectoryOrdered
    <2>3. inode[a].len = Payload /\ inode[a].mode = "final" /\ inode[a].owner = "final"
      BY <2>2 DEF Complete
    <2>4. n = Payload /\ m = "final" /\ o = "final"
      BY <2>2, <2>3, UpdateAssumption
    <2> QED
      BY <2>4 DEF Complete
  <1>14. l.inode.mode = "final" => l.inode.len = Payload /\ l.inode.owner = "final"
    <2>1. CASE inode[a].file = Newest(e)
      BY <2>1, <1>2, <1>9
    <2>2. CASE inode[a].file # Newest(e)
      BY <2>2, <1>2 DEF Complete
    <2> QED
      BY <2>1, <2>2
  <1>15. e.stage = "present" => l.inode.file = e.count + 1
    BY <1>2, <1>12 DEF Newest
  <1>16. l.inode \in File
    BY <1>2, <1>8, <1>10
  <1> HIDE DEF mixed
  <1> QED
    BY <1>2, <1>4, <1>12, <1>13, <1>14, <1>15, <1>16

\* After a power loss nobody runs and each directory is one of its orderly
\* contents; the configuration was durable only on a durable application.
LEMMA PowerLossKeeps ==
    ASSUME UpdateInvariant, PowerLoss
    PROVE  UpdateInvariant'
  <1>1. PICK app \in AfterLoss("app"), cfg \in AfterLoss("cfg") :
          LET left == [a \in Area |-> IF a = "app" THEN app ELSE cfg]
          IN  /\ entry' = [a \in Area |-> left[a].entry]
              /\ may' = [a \in Area |-> {left[a].entry}]
              /\ inode' = [a \in Area |-> left[a].inode]
              /\ synced' = [a \in Area |-> left[a].inode]
    BY DEF PowerLoss
  <1> DEFINE left == [a \in Area |-> IF a = "app" THEN app ELSE cfg]
  <1>2. \A a \in Area : left[a] \in AfterLoss(a)
    BY AreaFacts
  <1>3. /\ entry' = [a \in Area |-> left[a].entry]
        /\ may' = [a \in Area |-> {left[a].entry}]
        /\ inode' = [a \in Area |-> left[a].inode]
        /\ synced' = [a \in Area |-> left[a].inode]
    BY <1>1
  <1> HIDE DEF left
  <1>4. \A a \in Area : /\ entry'[a] = left[a].entry /\ may'[a] = {left[a].entry}
                        /\ inode'[a] = left[a].inode /\ synced'[a] = left[a].inode
    BY <1>3
  <1>5. \A a \in Area :
          /\ left[a].entry \in may[a] /\ left[a].entry \in Entry
          /\ left[a].inode \in File
    BY <1>2, LossIsOrderly
  <1>6. \A q \in Updater : pc'[q] = "idle"
    BY DEF PowerLoss
  <1>7. TypeOK'
    <2>1. interruptions' \in 0 .. MaxInterruptions
      BY UpdateAssumption DEF PowerLoss, UpdateInvariant, TypeOK
    <2>2. lock' = NoOne /\ exact' = exact
      BY DEF PowerLoss
    <2>3. pc' \in [Updater -> Running \cup {"idle", "done"}]
      BY DEF PowerLoss
    <2>4. view' \in [Updater -> [Area -> View]]
      BY NoViewType DEF PowerLoss
    <2>5. /\ entry' \in [Area -> Entry] /\ may' \in [Area -> SUBSET Entry]
          /\ inode' \in [Area -> File] /\ synced' \in [Area -> File]
      BY <1>3, <1>5
    <2> QED
      BY <2>1, <2>2, <2>3, <2>4, <2>5 DEF UpdateInvariant, TypeOK
  <1>8. HolderRuns'
    BY <1>6, UpdateAssumption DEF HolderRuns, PowerLoss, Running, NoOne
  <1>9. \A a \in Area : DirectoryOrdered(a)'
    <2> SUFFICES ASSUME NEW a \in Area PROVE DirectoryOrdered(a)'
      OBVIOUS
    <2>1. /\ left[a].entry.count <= Files(a)
          /\ left[a].entry.stage = "present" =>
                /\ left[a].entry.count < Files(a)
                /\ left[a].inode.file = left[a].entry.count + 1
          /\ left[a].entry.stage = "absent" =>
                left[a].inode = Complete(left[a].entry.count)
          /\ left[a].inode.mode = "final" =>
                left[a].inode.len = Payload /\ left[a].inode.owner = "final"
      BY <1>2, LossIsOrderly
    <2>2. left[a].inode.len <= left[a].inode.len
      BY <1>5, UpdateAssumption DEF File
    <2> QED
      BY <1>4, <2>1, <2>2 DEF DirectoryOrdered, Files
  <1>10. ConfigurationIsLast'
    <2>1. /\ may'["cfg"] = {left["cfg"].entry} /\ left["cfg"].entry \in may["cfg"]
          /\ may'["app"] = {left["app"].entry} /\ left["app"].entry \in may["app"]
      BY <1>4, <1>5, AreaFacts
    <2> QED
      BY <2>1 DEF UpdateInvariant, ConfigurationIsLast
  <1>11. \A q \in Updater : UpdaterKnows(q)'
    BY <1>6, IdleKnows DEF Running
  <1>12. SuccessIsDurable'
    BY <1>6 DEF SuccessIsDurable
  <1> QED
    BY <1>7, <1>8, <1>9, <1>10, <1>11, <1>12 DEF UpdateInvariant

\* A change elsewhere on the host, or no change at all, leaves it in place.
LEMMA DriftKeeps ==
    ASSUME UpdateInvariant, Drift \/ UNCHANGED vars
    PROVE  UpdateInvariant'
  <1>1. UNCHANGED <<disk, pc, view, lock, interruptions>> /\ exact' \in BOOLEAN
    BY DEF Drift, vars, disk, UpdateInvariant, TypeOK
  <1>2. TypeOK'
    BY <1>1 DEF UpdateInvariant, TypeOK, disk
  <1>3. HolderRuns' /\ SuccessIsDurable'
    BY <1>1 DEF UpdateInvariant, HolderRuns, SuccessIsDurable, disk
  <1>4. \A q \in Updater : UpdaterKnows(q)'
    BY <1>1, DiskKept DEF UpdateInvariant, UpdaterKnows, Target, disk
  <1> QED
    BY <1>1, <1>2, <1>3, <1>4, DiskKept DEF UpdateInvariant

\* Every step of the update and of its environment preserves the invariant.
LEMMA NextInvariant == UpdateInvariant /\ [Next]_vars => UpdateInvariant'
  <1> SUFFICES ASSUME UpdateInvariant, [Next]_vars PROVE UpdateInvariant'
    OBVIOUS
  <1>1. ASSUME NEW p \in Updater, Refuse(p) PROVE UpdateInvariant'
    BY <1>1, AbandonKeeps DEF Refuse, Running, UpdateInvariant, TypeOK
  <1>2. ASSUME NEW p \in Updater, Interrupt(p) PROVE UpdateInvariant'
    <2>1. interruptions' \in 0 .. MaxInterruptions
      BY <1>2, UpdateAssumption DEF Interrupt, UpdateInvariant, TypeOK
    <2> QED
      BY <1>2, <2>1, AbandonKeeps DEF Interrupt
  <1>3. ASSUME NEW p \in Updater, Step(p) PROVE UpdateInvariant'
    BY <1>1, <1>3, QualifyKeeps, SyncPrefixKeeps, RecheckKeeps, CreateStageKeeps,
       ContinueStageKeeps, TakeOwnershipKeeps, WriteChunkKeeps, SyncBytesKeeps,
       ChangeModeKeeps, SyncModeKeeps, ReplaceKeeps, SyncRenameKeeps, FinishKeeps
       DEF Step
  <1> QED
    BY <1>2, <1>3, StartKeeps, PowerLossKeeps, DriftKeeps DEF Next

\* update_post_c31_application keeps its inductive invariant, whatever is killed
\* or loses power: the argument behind the theorems below.
THEOREM UpdateIsInductive == Spec => []UpdateInvariant
  BY InitInvariant, NextInvariant, PTL DEF Spec

\* The state of every updater, directory and file keeps its type.
THEOREM UpdateTyped == Spec => []TypeOK
  <1>1. UpdateInvariant => TypeOK
    BY DEF UpdateInvariant
  <1> QED
    BY <1>1, UpdateIsInductive, PTL

\* The configuration file and its stage can be found on disk, after a power loss
\* at any point, only with every application file of the target commit
\* (_advance_configuration).
THEOREM ConfigurationComesLast == Spec => []ConfigurationIsLast
  <1>1. UpdateInvariant => ConfigurationIsLast
    BY DEF UpdateInvariant
  <1> QED
    BY <1>1, UpdateIsInductive, PTL

\* What update_post_c31_application returned stays on disk: no power loss
\* undoes it.
THEOREM ReturnIsDurable == Spec => []SuccessIsDurable
  <1>1. UpdateInvariant => SuccessIsDurable
    BY DEF UpdateInvariant
  <1> QED
    BY <1>1, UpdateIsInductive, PTL

\* At every moment the host is one that _application_state and _config_state
\* recognise, so that no interruption leaves an update that cannot go on.
THEOREM InterruptionIsRecognized == Spec => []AlwaysRecognized
  <1>1. ASSUME UpdateInvariant PROVE AlwaysRecognized
    <2>1. \A a \in Area : InstalledExact(a)
      BY <1>1 DEF UpdateInvariant, DirectoryOrdered, InstalledExact
    <2>2. \A a \in Area : entry[a].stage = "present" => entry[a].count < Files(a)
      BY <1>1 DEF UpdateInvariant, DirectoryOrdered
    <2>3. \A a \in Area : StageExact(a)
      <3> SUFFICES ASSUME NEW a \in Area, inode[a].mode = "final"
                   PROVE  inode[a].len = Payload /\ inode[a].owner = "final"
        BY DEF StageExact
      <3>1. DirectoryOrdered(a) /\ inode[a] \in File /\ synced[a] \in File
        BY <1>1 DEF UpdateInvariant, TypeOK
      <3>2. inode[a].len \in 0 .. Payload /\ synced[a].len <= inode[a].len
        BY <3>1 DEF DirectoryOrdered, File
      <3>3. synced[a].len = Payload /\ inode[a].owner = "final"
        BY <3>1 DEF DirectoryOrdered
      <3> QED
        BY <3>2, <3>3, UpdateAssumption
    <2>4. entry["app"] \in may["app"] /\ entry["cfg"] \in may["cfg"]
      BY <1>1, AreaFacts DEF UpdateInvariant, DirectoryOrdered
    <2>5. entry["cfg"].count = 1 \/ entry["cfg"].stage = "present"
            => entry["app"].count = CHANGED
      BY <1>1, <2>4 DEF UpdateInvariant, ConfigurationIsLast, Entered
    <2>6. ApplicationRecognized
      BY <2>1, <2>2, <2>3, AreaFacts DEF ApplicationRecognized
    <2>7. entry["cfg"].stage = "present" => entry["cfg"].count = 0
      BY <1>1, <2>2, Counts, AreaFacts
    <2>8. ConfigurationRecognized
      BY <2>1, <2>3, <2>5, <2>7, AreaFacts DEF ConfigurationRecognized
    <2> QED
      BY <2>6, <2>8 DEF AlwaysRecognized, Recognized
  <1> QED
    BY <1>1, UpdateIsInductive, PTL

\* At most one rename of a directory is in doubt, so what a power loss leaves is
\* at most one file behind what a run saw (_sync_directory before each stage).
THEOREM OneReplacementInDoubt == Spec => []OneUncertainReplacement
  <1>1. ASSUME UpdateInvariant PROVE OneUncertainReplacement
    <2> SUFFICES ASSUME NEW a \in Area, NEW e \in may[a], NEW f \in may[a]
                 PROVE  e.count <= f.count + 1
      BY DEF OneUncertainReplacement
    <2>1. /\ e \in Entry /\ f \in Entry /\ entry[a] \in Entry
          /\ DirectoryOrdered(a)
      BY <1>1 DEF UpdateInvariant, TypeOK
    <2>2. e.count \in Nat /\ f.count \in Nat /\ entry[a].count \in Nat
      BY <2>1 DEF Entry
    <2>3. \A g \in may[a] : g.count = entry[a].count \/ g.count + 1 = entry[a].count
      BY <2>1 DEF DirectoryOrdered, Entry, Stage
    <2> QED
      BY <2>2, <2>3
  <1> QED
    BY <1>1, UpdateIsInductive, PTL

=============================================================================
