-------------------------- MODULE MigrationProofs --------------------------
(***************************************************************************)
(* What the migration command keeps, for any number of files and of        *)
(* overlapping runs.                                                       *)
(***************************************************************************)
EXTENDS Migration, TLAPS

USE DEF Version

\* From its map on, a run works on the files.
Working == {"file", "insert", "commit"}

\* A run is at its first file until it has loaded its map, and inside a
\* transaction it is at a file.
Position ==
    \A m \in Migrators :
        /\ pc[m] \in {"idle", "refresh", "look", "create", "load"} => next[m] = 1
        /\ pc[m] \in {"insert", "commit"} => next[m] \in Files

\* A transaction that is ready to commit will be the first one to record its
\* version, and is the only one about to.
CommitIsFirst ==
    /\ \A m \in OpenTxs : pc[m] = "commit" => VersionOf[next[m]] \notin recorded
    /\ \A m, n \in OpenTxs :
          pc[m] = "commit" /\ pc[n] = "commit" /\ VersionOf[next[m]] = VersionOf[next[n]]
              => m = n

\* So will a run that is about to record a file that has committed itself.
SelfIsFirst ==
    dropped = {} =>
        \A m \in Migrators : pc[m] = "insert" /\ next[m] \in SelfCommitting =>
            /\ VersionOf[next[m]] \notin recorded
            /\ Present(next[m])
            /\ \A n \in Migrators : pc[n] = "insert" /\ next[n] = next[m] => n = m

\* A run that has got as far as its map finds the table there.
TableStays ==
    dropped = {} => \A m \in Migrators : pc[m] \in {"load"} \cup Working => table

\* The records of a run whose schema was not dropped are still there, and so
\* are those of the files it has passed.
PassedIsRecorded ==
    \A m \in Migrators \ dropped :
        pc[m] \in Working =>
            /\ seen[m] \subseteq recorded
            /\ \A f \in Files : f < next[m] => VersionOf[f] \in recorded
            /\ pc[m] = "commit" /\ next[m] \in SelfCommitting => VersionOf[next[m]] \in recorded

\* Whatever is in effect was preceded by the files of earlier names.
AppliedIsPrefix ==
    dropped = {} =>
        \A f, g \in Files : f < g /\ Present(g) => VersionOf[f] \in recorded

\* What a file changes is there as long as the file is in effect or its
\* transaction is open.
NeedsMet ==
    /\ \A g \in Files : Present(g) => \A f \in Needs[g] : Present(f)
    /\ \A m \in OpenTxs : \A f \in Needs[next[m]] : Present(f)

AtomicInv == CommitIsFirst /\ SelfIsFirst /\ TableStays /\ RecordedIffApplied
OrderInv == PassedIsRecorded /\ AppliedIsPrefix /\ AppliedInOrder

-----------------------------------------------------------------------------
LEMMA FilesAreNumbers ==
    /\ Files \subseteq Nat
    /\ \A f \in Files : f \in 1..NumFiles + 1 /\ f + 1 \in 1..NumFiles + 1
    /\ 1 \in 1..NumFiles + 1
  BY MigrationAssumption DEF Files

\* Types and positions are kept together: what a transaction records is the
\* version of a file because the run is at one.
LEMMA PositionInitial == Init => TypeOK /\ Position
<1> SUFFICES ASSUME Init PROVE TypeOK /\ Position
  OBVIOUS
<1>1. Position
  BY DEF Init, Position
<1>2. times \in [Files -> Nat]
  BY DEF Init
<1>3. next \in [Migrators -> 1..NumFiles + 1] /\ pc \in [Migrators -> Steps]
  BY FilesAreNumbers DEF Init, Steps
<1>4. TypeOK
  BY <1>2, <1>3 DEF Init, TypeOK
<1> QED BY <1>1, <1>4

LEMMA PositionInductive == TypeOK /\ Position /\ [Next]_vars => TypeOK' /\ Position'
<1> SUFFICES ASSUME TypeOK, Position, [Next]_vars PROVE TypeOK' /\ Position'
  OBVIOUS
<1> USE MigrationAssumption, FilesAreNumbers
<1>1. CASE UNCHANGED vars
  BY <1>1 DEF TypeOK, Position, vars
<1>2. ASSUME NEW m \in Migrators, Start(m) PROVE TypeOK' /\ Position'
  BY <1>2 DEF TypeOK, Position, Start, Goto, Steps, Running, Working
<1>3. ASSUME NEW m \in Migrators, RefreshPublicSchema(m) PROVE TypeOK' /\ Position'
  BY <1>3 DEF TypeOK, Position, RefreshPublicSchema, Goto, Steps, Running, Working
<1>4. ASSUME NEW m \in Migrators, EnsureLook(m) \/ EnsureCreate(m) PROVE TypeOK' /\ Position'
  BY <1>4 DEF TypeOK, Position, EnsureLook, EnsureCreate, Goto, Steps, Running, Working
<1>5. ASSUME NEW m \in Migrators, LoadAppliedVersions(m) PROVE TypeOK' /\ Position'
  BY <1>5 DEF TypeOK, Position, LoadAppliedVersions, Goto, Steps, Running, Working
<1>6. ASSUME NEW m \in Migrators, Skip(m) PROVE TypeOK' /\ Position'
  BY <1>6 DEF TypeOK, Position, Skip, Running, Working
<1>7. ASSUME NEW m \in Migrators, ExecuteFile(m) PROVE TypeOK' /\ Position'
  <2>1. Position'
    BY <1>7 DEF TypeOK, Position, ExecuteFile, Goto
  <2>2. late' \in BOOLEAN
    <3>1. CASE TakesEffect(next[m])
      BY <3>1, Zenon DEF TakesEffect
    <3> QED BY <1>7, <3>1 DEF TypeOK, ExecuteFile
  <2>3. times' \in [Files -> Nat]
    BY <1>7 DEF TypeOK, ExecuteFile, TakesEffect
  <2>4. pc' \in [Migrators -> Steps]
    BY <1>7 DEF TypeOK, ExecuteFile, Goto, Steps
  <2> QED BY <1>7, <2>1, <2>2, <2>3, <2>4 DEF TypeOK, ExecuteFile
<1>8. ASSUME NEW m \in Migrators, InsertVersion(m) PROVE TypeOK' /\ Position'
  <2>1. next[m] \in Files
    BY <1>8 DEF Position, InsertVersion
  <2> QED
    BY <1>8, <2>1 DEF TypeOK, Position, InsertVersion, Goto, Steps, Running, Working
<1>10. ASSUME NEW m \in Migrators, Commit(m) \/ CommitUnacknowledged(m)
      PROVE  TypeOK' /\ Position'
  <2>1. next[m] \in Files
    BY <1>10 DEF Position, Commit, CommitUnacknowledged
  <2>2. TypeOK'
    <3>1. late' \in BOOLEAN
      <4>1. CASE TakesEffect(next[m])
        BY <4>1, Zenon DEF TakesEffect
      <4> QED
        BY <1>10, <4>1 DEF TypeOK, Commit, CommitUnacknowledged, Committed
    <3>2. recorded' \in SUBSET Versions /\ times' \in [Files -> Nat]
      BY <1>10, <2>1 DEF TypeOK, Commit, CommitUnacknowledged, Committed, TakesEffect
    <3>3. next' \in [Migrators -> 1..NumFiles + 1] /\ pc' \in [Migrators -> Steps]
      BY <1>10, <2>1 DEF TypeOK, Commit, CommitUnacknowledged, Goto, Steps
    <3> QED
      BY <1>10, <3>1, <3>2, <3>3 DEF TypeOK, Commit, CommitUnacknowledged, Committed
  <2>3. Position'
    BY <1>10, <2>1 DEF TypeOK, Position, Commit, CommitUnacknowledged, Goto, Running, Working
  <2> QED BY <2>2, <2>3
<1>9. ASSUME NEW m \in Migrators, Complete(m) \/ Die(m) PROVE TypeOK' /\ Position'
  BY <1>9 DEF TypeOK, Position, Complete, Die, Goto, Steps, Running, Working
<1> QED
  BY <1>1, <1>2, <1>3, <1>4, <1>5, <1>6, <1>7, <1>8, <1>9, <1>10 DEF Next, Advance

\* Variables hold values of their types (TypeOK), for any number of runs.
THEOREM MigrationTypeCorrect == Spec => []TypeOK
  BY PositionInitial, PositionInductive, PTL DEF Spec

-----------------------------------------------------------------------------
\* The three parts of RecordedIffApplied.
Once == \A f \in Files : times[f] <= 1
PlainFiles == \A f \in Files \ SelfCommitting : Present(f) <=> VersionOf[f] \in recorded
SelfFiles ==
    dropped = {} =>
        \A f \in SelfCommitting :
            /\ VersionOf[f] \in recorded => Present(f)
            /\ Present(f) => VersionOf[f] \in recorded \/ Unrecorded(f)

LEMMA Parts == RecordedIffApplied <=> Once /\ PlainFiles /\ SelfFiles
  BY MigrationAssumption DEF RecordedIffApplied, Once, PlainFiles, SelfFiles

LEMMA AtomicInitial ==
    ASSUME Preloaded = {}
    PROVE  Init => AtomicInv
<1> SUFFICES ASSUME Init PROVE AtomicInv
  OBVIOUS
<1>1. \A f \in Files : times[f] = 0
  BY DEF Init
<1>2. Once /\ PlainFiles /\ SelfFiles
  BY <1>1, MigrationAssumption DEF Init, Once, PlainFiles, SelfFiles, Present
<1> QED
  BY <1>2, Parts DEF Init, AtomicInv, CommitIsFirst, SelfIsFirst, TableStays, OpenTxs, Working

LEMMA AtomicInductive ==
    ASSUME UniqueVersions
    PROVE  TypeOK /\ Position /\ AtomicInv /\ [Next]_vars => AtomicInv'
<1> SUFFICES ASSUME TypeOK, Position, AtomicInv, [Next]_vars PROVE AtomicInv'
  OBVIOUS
<1> USE MigrationAssumption, FilesAreNumbers
<1>p. Once /\ PlainFiles /\ SelfFiles /\ CommitIsFirst /\ SelfIsFirst /\ TableStays
  BY Parts DEF AtomicInv
<1> SUFFICES Once' /\ PlainFiles' /\ SelfFiles' /\ CommitIsFirst' /\ SelfIsFirst' /\ TableStays'
  <2>1. RecordedIffApplied' <=> Once' /\ PlainFiles' /\ SelfFiles'
    BY Parts, PTL
  <2> QED BY <2>1 DEF AtomicInv
<1> USE DEF Present
<1>1. CASE UNCHANGED vars
  BY <1>1, <1>p DEF Once, PlainFiles, SelfFiles, CommitIsFirst, SelfIsFirst, TableStays, OpenTxs,
                    Unrecorded, vars
\* Steps that change neither the tables nor the position of a run.
<1>2. ASSUME NEW m \in Migrators, UNCHANGED <<recorded, times, next, dropped>>,
             faulty => faulty', table => table',
             NEW step \in Steps, Goto(m, step), step \notin {"insert", "commit"},
             step \in {"load"} \cup Working => dropped # {} \/ table',
             pc[m] \in {"insert", "failed"} =>
                 step = "failed" /\ (faulty' \/ dropped # {} \/ VersionOf[next[m]] \in recorded)
      PROVE  Once' /\ PlainFiles' /\ SelfFiles' /\ CommitIsFirst' /\ SelfIsFirst' /\ TableStays'
  <2>1. \A n \in Migrators : pc'[n] = IF n = m THEN step ELSE pc[n]
    BY <1>2 DEF Goto, TypeOK
  <2>2. Once' /\ PlainFiles'
    BY <1>2, <1>p DEF Once, PlainFiles
  <2>3. SelfFiles'
    <3> SUFFICES ASSUME dropped = {}, NEW f \in SelfCommitting
                 PROVE  /\ VersionOf[f] \in recorded => Present(f)
                        /\ Present(f) => VersionOf[f] \in recorded \/ Unrecorded(f)'
      BY <1>2 DEF SelfFiles
    <3>1. VersionOf[f] \in recorded => Present(f)
      BY <1>p DEF SelfFiles
    <3>2. ASSUME Unrecorded(f), VersionOf[f] \notin recorded PROVE Unrecorded(f)'
      BY <1>2, <2>1, <3>2 DEF Unrecorded
    <3> QED BY <3>1, <3>2, <1>p DEF SelfFiles
  <2>4. CommitIsFirst'
    BY <1>2, <2>1, <1>p DEF CommitIsFirst, OpenTxs
  <2>5. SelfIsFirst'
    BY <1>2, <2>1, <1>p DEF SelfIsFirst
  <2>6. TableStays'
    BY <1>2, <2>1, <1>p DEF TableStays
  <2> QED BY <2>2, <2>3, <2>4, <2>5, <2>6
<1>3. ASSUME NEW m \in Migrators, RefreshPublicSchema(m)
      PROVE  Once' /\ PlainFiles' /\ SelfFiles' /\ CommitIsFirst' /\ SelfIsFirst' /\ TableStays'
  <2>1. \A f \in Files : times'[f] = 0
    BY <1>3 DEF RefreshPublicSchema
  <2>2. recorded' = {}
    BY <1>3 DEF RefreshPublicSchema
  <2>3. OpenTxs' = {}
    BY <1>3 DEF RefreshPublicSchema, OpenTxs, Goto, TypeOK
  <2>4. dropped' = {} => \A n \in Migrators : pc'[n] \notin {"load"} \cup Working
    BY <1>3 DEF RefreshPublicSchema, Goto, TypeOK, Running, Steps, Working
  <2> QED
    BY <2>1, <2>2, <2>3, <2>4 DEF Once, PlainFiles, SelfFiles, CommitIsFirst, SelfIsFirst,
                                  TableStays, Working
<1>4. ASSUME NEW m \in Migrators, Skip(m)
      PROVE  Once' /\ PlainFiles' /\ SelfFiles' /\ CommitIsFirst' /\ SelfIsFirst' /\ TableStays'
  <2>1. /\ UNCHANGED <<recorded, times, pc, dropped, table, faulty>>
        /\ pc[m] = "file"
        /\ \A n \in Migrators \ {m} : next'[n] = next[n]
    BY <1>4 DEF Skip, TypeOK
  <2>2. Once' /\ PlainFiles' /\ TableStays'
    BY <2>1, <1>p DEF Once, PlainFiles, TableStays
  <2>3. \A f \in Files : Unrecorded(f) => Unrecorded(f)'
    BY <2>1 DEF Unrecorded
  <2>4. SelfFiles'
    BY <2>1, <2>3, <1>p DEF SelfFiles
  <2>5. CommitIsFirst' /\ SelfIsFirst'
    BY <2>1, <1>p DEF CommitIsFirst, SelfIsFirst, OpenTxs
  <2> QED BY <2>2, <2>4, <2>5
<1>5. ASSUME NEW m \in Migrators, ExecuteFile(m)
      PROVE  Once' /\ PlainFiles' /\ SelfFiles' /\ CommitIsFirst' /\ SelfIsFirst' /\ TableStays'
  <2>1. /\ pc[m] = "file" /\ next[m] \in Files
        /\ UNCHANGED <<table, recorded, next, faulty, dropped>>
    BY <1>5 DEF ExecuteFile
  <2>2. CASE ~Succeeds(next[m])
    BY <1>5, <1>2, <2>1, <2>2 DEF ExecuteFile, Steps, Working
  <2>3. CASE Succeeds(next[m])
    <3>1. \A n \in Migrators : pc'[n] = IF n = m THEN "insert" ELSE pc[n]
      BY <1>5, <2>3 DEF ExecuteFile, Goto, TypeOK
    <3>2. TableStays'
      BY <2>1, <3>1, <1>p DEF TableStays, Working
    <3>3. CommitIsFirst'
      BY <2>1, <3>1, <1>p DEF CommitIsFirst, OpenTxs
    <3>4. \A f \in Files : Unrecorded(f) => Unrecorded(f)'
      BY <2>1, <3>1 DEF Unrecorded
    <3>5. Unrecorded(next[m])'
      BY <2>1, <3>1 DEF Unrecorded
    <3>6. CASE next[m] \notin SelfCommitting
      <4>1. times' = times
        BY <1>5, <3>6 DEF ExecuteFile
      <4>2. SelfIsFirst'
        BY <4>1, <2>1, <3>1, <3>6, <1>p DEF SelfIsFirst
      <4> QED
        BY <4>1, <4>2, <2>1, <3>2, <3>3, <3>4, <1>p DEF Once, PlainFiles, SelfFiles
    <3>7. CASE next[m] \in SelfCommitting
      <4>1. times[next[m]] = 0
        BY <2>1, <2>3, <3>7 DEF Succeeds, TypeOK
      <4>2. /\ times'[next[m]] = 1
            /\ \A f \in Files \ {next[m]} : times'[f] = times[f]
        BY <1>5, <2>1, <2>3, <3>7, <4>1 DEF ExecuteFile, TakesEffect, TypeOK
      <4>3. Once' /\ PlainFiles'
        BY <4>2, <2>1, <3>7, <1>p DEF Once, PlainFiles
      <4>4. SelfFiles'
        BY <4>2, <2>1, <3>4, <3>5, <1>p DEF SelfFiles
      <4>5. SelfIsFirst'
        <5> SUFFICES ASSUME dropped = {}, NEW k \in Migrators, pc'[k] = "insert",
                            next[k] \in SelfCommitting
                     PROVE  /\ VersionOf[next[k]] \notin recorded
                            /\ times'[next[k]] > 0
                            /\ \A n \in Migrators : pc'[n] = "insert" /\ next[n] = next[k] => n = k
          BY <2>1 DEF SelfIsFirst
        <5>1. CASE k = m
          <6>1. VersionOf[next[m]] \notin recorded
            <7>1. VersionOf[next[m]] \in recorded => times[next[m]] > 0
              BY <3>7, <1>p DEF SelfFiles
            <7> QED BY <7>1, <4>1
          <6>2. ASSUME NEW n \in Migrators, n # m, pc[n] = "insert", next[n] = next[m] PROVE FALSE
            BY <4>1, <3>7, <6>2, <1>p DEF SelfIsFirst
          <6> QED BY <6>1, <6>2, <5>1, <3>1, <4>2
        <5>2. CASE k # m
          <6>1. /\ pc[k] = "insert" /\ VersionOf[next[k]] \notin recorded
                /\ times[next[k]] > 0
                /\ \A n \in Migrators : pc[n] = "insert" /\ next[n] = next[k] => n = k
            BY <5>2, <3>1, <1>p DEF SelfIsFirst
          <6>2. next[k] # next[m]
            BY <6>1, <4>1
          <6> QED BY <6>1, <6>2, <3>1, <4>2
        <5> QED BY <5>1, <5>2
      <4> QED BY <3>2, <3>3, <4>3, <4>4, <4>5
    <3> QED BY <3>6, <3>7
  <2> QED BY <2>2, <2>3
<1>6. ASSUME NEW m \in Migrators, InsertVersion(m)
      PROVE  Once' /\ PlainFiles' /\ SelfFiles' /\ CommitIsFirst' /\ SelfIsFirst' /\ TableStays'
  <2>1. /\ pc[m] = "insert" /\ next[m] \in Files
        /\ UNCHANGED <<table, times, next, faulty, dropped>>
    BY <1>6 DEF InsertVersion, Position
  <2>2. dropped = {} => table
    BY <2>1, <1>p DEF TableStays, Working
  <2>3. CASE ~(table /\ VersionOf[next[m]] \notin recorded)
    <3>1. recorded' = recorded /\ Goto(m, "failed")
      BY <1>6, <2>3 DEF InsertVersion
    <3> QED BY <1>2, <2>1, <2>2, <2>3, <3>1 DEF Steps, Working
  <2>4. CASE table /\ VersionOf[next[m]] \notin recorded
    <3>1. \A n \in Migrators : pc'[n] = IF n = m THEN "commit" ELSE pc[n]
      BY <1>6, <2>4 DEF InsertVersion, Goto, TypeOK
    <3>2. Once' /\ TableStays'
      BY <2>1, <2>4, <3>1, <1>p DEF Once, TableStays, Working
    <3>3. CASE next[m] \notin SelfCommitting
      <4>1. recorded' = recorded
        BY <1>6, <3>3 DEF InsertVersion
      <4>2. PlainFiles'
        BY <4>1, <2>1, <1>p DEF PlainFiles
      <4>3. \A f \in SelfCommitting : Unrecorded(f) => Unrecorded(f)'
        BY <2>1, <3>1, <3>3 DEF Unrecorded
      <4>4. SelfFiles' /\ SelfIsFirst'
        BY <4>1, <4>3, <2>1, <3>1, <3>3, <1>p DEF SelfFiles, SelfIsFirst
      <4>5. \A n \in OpenTxs : pc[n] = "commit" => VersionOf[next[n]] # VersionOf[next[m]]
        BY <1>6 DEF InsertVersion, Inserting
      <4>6. CommitIsFirst'
        BY <4>1, <4>5, <2>1, <2>4, <3>1, <3>3, <1>p DEF CommitIsFirst, OpenTxs
      <4> QED BY <3>2, <4>2, <4>4, <4>6
    <3>4. CASE next[m] \in SelfCommitting
      <4>1. recorded' = recorded \cup {VersionOf[next[m]]}
        BY <1>6, <2>4, <3>4 DEF InsertVersion
      <4>2. \A f \in Files : VersionOf[f] \in recorded' <=> f = next[m] \/ VersionOf[f] \in recorded
        BY <4>1, <2>1 DEF UniqueVersions
      <4>3. PlainFiles'
        BY <4>2, <2>1, <3>4, <1>p DEF PlainFiles
      <4>4. \A f \in SelfCommitting \ {next[m]} : Unrecorded(f) => Unrecorded(f)'
        BY <2>1, <3>1 DEF Unrecorded
      <4>5. dropped = {} => times[next[m]] > 0
        BY <2>1, <3>4, <1>p DEF SelfIsFirst
      <4>6. SelfFiles'
        <5> SUFFICES ASSUME dropped = {}, NEW f \in SelfCommitting
                     PROVE  /\ VersionOf[f] \in recorded' => Present(f)
                            /\ Present(f) => VersionOf[f] \in recorded' \/ Unrecorded(f)'
          BY <2>1 DEF SelfFiles
        <5>1. CASE f = next[m]
          BY <5>1, <4>5, <4>2, <2>1
        <5>2. CASE f # next[m]
          BY <5>2, <4>2, <4>4, <2>1, <1>p DEF SelfFiles
        <5> QED BY <5>1, <5>2
      <4>7. SelfIsFirst'
        <5> SUFFICES ASSUME dropped = {}, NEW k \in Migrators, pc'[k] = "insert",
                            next[k] \in SelfCommitting
                     PROVE  /\ VersionOf[next[k]] \notin recorded'
                            /\ times[next[k]] > 0
                            /\ \A n \in Migrators : pc'[n] = "insert" /\ next[n] = next[k] => n = k
          BY <2>1 DEF SelfIsFirst
        <5>1. /\ k # m /\ pc[k] = "insert" /\ VersionOf[next[k]] \notin recorded
              /\ times[next[k]] > 0
              /\ \A n \in Migrators : pc[n] = "insert" /\ next[n] = next[k] => n = k
          BY <3>1, <1>p DEF SelfIsFirst
        <5>2. next[k] # next[m]
          BY <5>1, <2>1
        <5> QED BY <5>1, <5>2, <4>2, <3>1
      <4>8. CommitIsFirst'
        BY <4>2, <2>1, <3>1, <3>4, <1>p DEF CommitIsFirst, OpenTxs, Position
      <4> QED BY <3>2, <4>3, <4>6, <4>7, <4>8
    <3> QED BY <3>3, <3>4
  <2> QED BY <2>3, <2>4
<1>7. ASSUME NEW m \in Migrators, Commit(m) \/ CommitUnacknowledged(m)
      PROVE  Once' /\ PlainFiles' /\ SelfFiles' /\ CommitIsFirst' /\ SelfIsFirst' /\ TableStays'
  <2>1. /\ pc[m] = "commit" /\ next[m] \in Files /\ Committed(m)
        /\ UNCHANGED <<table, dropped>> /\ (faulty => faulty')
        /\ \A n \in Migrators \ {m} : pc'[n] = pc[n] /\ next'[n] = next[n]
        /\ pc'[m] \in {"file", "failed"}
    BY <1>7 DEF Commit, CommitUnacknowledged, Committed, Position, Goto, TypeOK
  <2>2. \A f \in Files : Unrecorded(f) => Unrecorded(f)'
    BY <2>1 DEF Unrecorded
  <2>3. TableStays'
    BY <2>1, <1>p DEF TableStays, Working
  <2>4. CASE next[m] \in SelfCommitting
    <3>1. UNCHANGED <<recorded, times>>
      BY <2>1, <2>4 DEF Committed
    <3>2. Once' /\ PlainFiles' /\ SelfFiles'
      BY <3>1, <2>1, <2>2, <1>p DEF Once, PlainFiles, SelfFiles
    <3>3. CommitIsFirst' /\ SelfIsFirst'
      BY <3>1, <2>1, <1>p DEF CommitIsFirst, SelfIsFirst, OpenTxs
    <3> QED BY <3>2, <3>3, <2>3
  <2>5. CASE next[m] \notin SelfCommitting
    <3>1. VersionOf[next[m]] \notin recorded /\ times[next[m]] = 0
      BY <2>1, <2>5, <1>p DEF CommitIsFirst, OpenTxs, PlainFiles, TypeOK
    <3>2. recorded' = recorded \cup {VersionOf[next[m]]}
      BY <2>1, <2>5 DEF Committed
    <3>3. \A f \in Files : VersionOf[f] \in recorded' <=> f = next[m] \/ VersionOf[f] \in recorded
      BY <3>2, <2>1 DEF UniqueVersions
    <3>4. /\ times'[next[m]] = 1
          /\ \A f \in Files \ {next[m]} : times'[f] = times[f]
      BY <2>1, <2>5, <3>1 DEF Committed, TakesEffect, TypeOK
    <3>5. Once' /\ PlainFiles'
      BY <3>3, <3>4, <1>p DEF Once, PlainFiles
    <3>6. SelfFiles'
      BY <3>3, <3>4, <2>1, <2>2, <2>5, <1>p DEF SelfFiles
    <3>7. SelfIsFirst'
      <4> SUFFICES ASSUME dropped = {}, NEW k \in Migrators \ {m}, pc[k] = "insert",
                          next[k] \in SelfCommitting
                   PROVE  /\ VersionOf[next[k]] \notin recorded'
                          /\ times'[next[k]] > 0
                          /\ \A n \in Migrators \ {m} :
                                pc[n] = "insert" /\ next[n] = next[k] => n = k
        BY <2>1 DEF SelfIsFirst
      <4> QED BY <3>3, <3>4, <2>5, <1>p DEF SelfIsFirst
    <3>8. CommitIsFirst'
      <4>1. \A n \in OpenTxs \ {m} : pc[n] = "commit" => next[n] # next[m] /\ next[n] \in Files
        BY <2>1, <2>5, <1>p DEF CommitIsFirst, OpenTxs, Position
      <4>2. \A n \in OpenTxs' : pc'[n] = "commit" => n \in OpenTxs \ {m} /\ next'[n] = next[n] /\ pc[n] = "commit"
        BY <2>1 DEF OpenTxs
      <4> QED BY <4>1, <4>2, <3>3, <1>p DEF CommitIsFirst
    <3> QED BY <2>3, <3>5, <3>6, <3>7, <3>8
  <2> QED BY <2>4, <2>5
<1>8. ASSUME NEW m \in Migrators, Start(m) \/ EnsureLook(m) \/ EnsureCreate(m)
      PROVE  Once' /\ PlainFiles' /\ SelfFiles' /\ CommitIsFirst' /\ SelfIsFirst' /\ TableStays'
  BY <1>8, <1>2 DEF Start, EnsureLook, EnsureCreate, Steps, Working
<1>9. ASSUME NEW m \in Migrators, LoadAppliedVersions(m)
      PROVE  Once' /\ PlainFiles' /\ SelfFiles' /\ CommitIsFirst' /\ SelfIsFirst' /\ TableStays'
  BY <1>9, <1>2 DEF LoadAppliedVersions, Steps, Working
<1>10. ASSUME NEW m \in Migrators, Complete(m) \/ Die(m)
      PROVE  Once' /\ PlainFiles' /\ SelfFiles' /\ CommitIsFirst' /\ SelfIsFirst' /\ TableStays'
  BY <1>10, <1>2 DEF Complete, Die, Steps, Running, Working
<1> QED
  BY <1>1, <1>3, <1>4, <1>5, <1>6, <1>7, <1>8, <1>9, <1>10 DEF Next, Advance

\* No file takes effect twice and none without its record but one that commits
\* itself and whose run is or was stopped before the record
\* (RecordedIffApplied), whatever runs overlap, are killed, lose the answer to
\* a commit or drop the schema: where no two files share a version and nothing
\* but the command applies them.
THEOREM MigrationsAreRecorded ==
    ASSUME UniqueVersions, Preloaded = {}
    PROVE  Spec => []RecordedIffApplied
  BY PositionInitial, PositionInductive, AtomicInitial, AtomicInductive, PTL DEF Spec, AtomicInv

-----------------------------------------------------------------------------
\* While the schema stays, a record means that the file is in effect.
LEMMA RecordsAreTrue ==
    AtomicInv /\ dropped = {} => \A f \in Files : VersionOf[f] \in recorded => Present(f)
  BY Parts DEF AtomicInv, PlainFiles, SelfFiles

\* What the steps do to the effects of the files.
LEMMA EffectSteps ==
    ASSUME TypeOK, Position, AtomicInv, NEW m \in Migrators,
           \/ ExecuteFile(m) /\ Succeeds(next[m]) /\ next[m] \in SelfCommitting
           \/ (Commit(m) \/ CommitUnacknowledged(m)) /\ next[m] \notin SelfCommitting
    PROVE  /\ next[m] \in Files /\ pc[m] \in Working
           /\ ~Present(next[m])
           /\ \A f \in Files : Present(f)' <=> Present(f) \/ f = next[m]
           /\ late' = (late \/ \E g \in Files : g > next[m] /\ Present(g))
           /\ dropped' = dropped
<1> USE MigrationAssumption DEF Present
<1>1. next[m] \in Files /\ pc[m] \in Working
  BY DEF ExecuteFile, Commit, CommitUnacknowledged, Position, Working
<1>2. ~Present(next[m])
  <2>1. CASE next[m] \in SelfCommitting
    BY <2>1 DEF Succeeds
  <2>2. CASE next[m] \notin SelfCommitting
    <3>1. VersionOf[next[m]] \notin recorded
      BY <2>2 DEF AtomicInv, CommitIsFirst, OpenTxs, Commit, CommitUnacknowledged
    <3>2. PlainFiles
      BY Parts DEF AtomicInv
    <3> QED BY <3>1, <3>2, <1>1, <2>2 DEF PlainFiles
  <2> QED BY <2>1, <2>2
<1>3. TakesEffect(next[m])
  BY DEF ExecuteFile, Commit, CommitUnacknowledged, Committed
<1>4. \A f \in Files : times'[f] = IF f = next[m] THEN times[f] + 1 ELSE times[f]
  BY <1>1, <1>3 DEF TakesEffect, TypeOK
<1>5. \A f \in Files : Present(f)' <=> Present(f) \/ f = next[m]
  BY <1>4 DEF TypeOK
<1>6. late' = (late \/ \E g \in Files : g > next[m] /\ Present(g))
  BY <1>3, Zenon DEF TakesEffect
<1>7. dropped' = dropped
  BY DEF ExecuteFile, Commit, CommitUnacknowledged
<1> QED BY <1>1, <1>2, <1>5, <1>6, <1>7

LEMMA OrderInitial ==
    ASSUME Preloaded = {}
    PROVE  Init => OrderInv
  BY DEF Init, OrderInv, PassedIsRecorded, AppliedIsPrefix, AppliedInOrder, Working, Present

LEMMA OrderInductive ==
    ASSUME UniqueVersions
    PROVE  TypeOK /\ Position /\ AtomicInv /\ OrderInv /\ [Next]_vars => OrderInv'
<1> SUFFICES ASSUME TypeOK, Position, AtomicInv, OrderInv, [Next]_vars PROVE OrderInv'
  OBVIOUS
<1> USE MigrationAssumption, FilesAreNumbers DEF OrderInv
<1>1. CASE UNCHANGED vars
  BY <1>1 DEF PassedIsRecorded, AppliedIsPrefix, AppliedInOrder, Present, vars
\* Steps that move on no run and that let no file take effect.
<1>2. ASSUME NEW m \in Migrators, UNCHANGED <<times, next, seen, dropped, late>>,
             recorded \subseteq recorded',
             NEW step \in Steps, Goto(m, step), step \in Working => pc[m] \in Working,
             step = "commit" /\ next[m] \in SelfCommitting => VersionOf[next[m]] \in recorded'
      PROVE  OrderInv'
  <2>1. PassedIsRecorded'
    BY <1>2 DEF PassedIsRecorded, TypeOK, Goto
  <2>2. AppliedIsPrefix' /\ AppliedInOrder'
    BY <1>2 DEF AppliedIsPrefix, AppliedInOrder, Present
  <2> QED BY <2>1, <2>2
<1>3. ASSUME NEW m \in Migrators, RefreshPublicSchema(m) PROVE OrderInv'
  <2>1. \A n \in Migrators \ dropped' : pc'[n] \notin Working
    BY <1>3 DEF RefreshPublicSchema, TypeOK, Goto, Running, Working, Steps
  <2>2. late' = FALSE /\ \A f \in Files : ~Present(f)'
    BY <1>3 DEF RefreshPublicSchema, Present
  <2> QED
    BY <2>1, <2>2 DEF PassedIsRecorded, AppliedIsPrefix, AppliedInOrder
<1>4. ASSUME NEW m \in Migrators, LoadAppliedVersions(m) PROVE OrderInv'
  <2>1. next[m] = 1
    BY <1>4 DEF Position, LoadAppliedVersions
  <2>2. PassedIsRecorded'
    BY <1>4, <2>1 DEF PassedIsRecorded, LoadAppliedVersions, TypeOK, Goto, Files
  <2> QED
    BY <1>4, <2>2 DEF AppliedIsPrefix, AppliedInOrder, LoadAppliedVersions, Present
<1>5. ASSUME NEW m \in Migrators, Skip(m) PROVE OrderInv'
  <2>1. ASSUME m \notin dropped
        PROVE  \A f \in Files : f < next[m] + 1 => VersionOf[f] \in recorded
    <3>1. VersionOf[next[m]] \in recorded
      BY <1>5, <2>1 DEF PassedIsRecorded, Skip, Working
    <3> QED
      BY <1>5, <2>1, <3>1 DEF PassedIsRecorded, Skip, Working, TypeOK, Files
  <2>2. PassedIsRecorded'
    BY <1>5, <2>1 DEF PassedIsRecorded, Skip, TypeOK
  <2> QED
    BY <1>5, <2>2 DEF AppliedIsPrefix, AppliedInOrder, Skip, Present
\* A file takes effect only after those of earlier names and before all others.
<1>6. ASSUME NEW m \in Migrators,
             \/ ExecuteFile(m) /\ Succeeds(next[m]) /\ next[m] \in SelfCommitting
             \/ (Commit(m) \/ CommitUnacknowledged(m)) /\ next[m] \notin SelfCommitting,
             recorded \subseteq recorded'
      PROVE  AppliedIsPrefix' /\ AppliedInOrder'
  <2>1. /\ next[m] \in Files /\ pc[m] \in Working
        /\ ~Present(next[m])
        /\ \A f \in Files : Present(f)' <=> Present(f) \/ f = next[m]
        /\ late' = (late \/ \E g \in Files : g > next[m] /\ Present(g))
        /\ dropped' = dropped
    BY <1>6, EffectSteps
  <2>2. ASSUME dropped = {} PROVE \A f \in Files : f < next[m] => VersionOf[f] \in recorded
    BY <2>1, <2>2 DEF PassedIsRecorded
  <2>3. ASSUME dropped = {}, NEW g \in Files, g > next[m], Present(g) PROVE FALSE
    <3>1. VersionOf[next[m]] \in recorded
      BY <2>1, <2>3 DEF AppliedIsPrefix
    <3> QED BY <3>1, <2>1, <2>3, RecordsAreTrue
  <2>4. AppliedIsPrefix'
    <3> SUFFICES ASSUME dropped = {}, NEW f \in Files, NEW g \in Files, f < g, Present(g)'
                 PROVE  VersionOf[f] \in recorded
      BY <2>1, <1>6 DEF AppliedIsPrefix
    <3>1. CASE Present(g)
      BY <3>1 DEF AppliedIsPrefix
    <3>2. CASE g = next[m]
      BY <3>2, <2>2
    <3> QED BY <3>1, <3>2, <2>1
  <2>5. AppliedInOrder'
    <3> SUFFICES ASSUME dropped = {} PROVE ~late'
      BY <2>1 DEF AppliedInOrder
    <3>1. ~late
      BY DEF AppliedInOrder
    <3> QED BY <3>1, <2>1, <2>3, Zenon
  <2> QED BY <2>4, <2>5
<1>7. ASSUME NEW m \in Migrators, ExecuteFile(m) PROVE OrderInv'
  <2>1. PICK step \in {"insert", "failed"} : Goto(m, step)
    BY <1>7 DEF ExecuteFile
  <2>2. /\ UNCHANGED <<recorded, next, seen, dropped>>
        /\ pc[m] = "file"
    BY <1>7 DEF ExecuteFile
  <2>3. CASE Succeeds(next[m]) /\ next[m] \in SelfCommitting
    <3>1. PassedIsRecorded'
      BY <2>1, <2>2 DEF PassedIsRecorded, TypeOK, Goto, Working
    <3> QED BY <3>1, <1>6, <1>7, <2>2, <2>3
  <2>4. CASE ~(Succeeds(next[m]) /\ next[m] \in SelfCommitting)
    <3>1. UNCHANGED <<times, late>>
      BY <1>7, <2>4 DEF ExecuteFile
    <3> QED BY <3>1, <1>2, <2>1, <2>2 DEF Steps, Working
  <2> QED BY <2>3, <2>4
<1>8. ASSUME NEW m \in Migrators, InsertVersion(m) PROVE OrderInv'
  <2>1. PICK step \in {"commit", "failed"} : Goto(m, step)
    BY <1>8 DEF InsertVersion
  <2>2. /\ UNCHANGED <<times, late, next, seen, dropped>>
        /\ recorded \subseteq recorded'
        /\ pc[m] = "insert"
    BY <1>8 DEF InsertVersion
  <2>3. step = "commit" /\ next[m] \in SelfCommitting => VersionOf[next[m]] \in recorded'
    BY <1>8, <2>1 DEF InsertVersion, Goto, TypeOK
  <2> QED BY <2>3, <1>2, <2>1, <2>2 DEF Steps, Working
<1>9. ASSUME NEW m \in Migrators, Commit(m) \/ CommitUnacknowledged(m) PROVE OrderInv'
  <2>1. /\ pc[m] = "commit" /\ next[m] \in Files /\ Committed(m)
        /\ UNCHANGED <<dropped, seen>>
        /\ \A n \in Migrators \ {m} : pc'[n] = pc[n] /\ next'[n] = next[n]
        /\ next'[m] \in {next[m], next[m] + 1}
        /\ pc'[m] # "commit"
    BY <1>9 DEF Commit, CommitUnacknowledged, Position, Goto, TypeOK
  <2>2. recorded \subseteq recorded'
    BY <2>1 DEF Committed
  <2>3. m \notin dropped => VersionOf[next[m]] \in recorded'
    <3>1. CASE next[m] \notin SelfCommitting
      BY <3>1, <2>1 DEF Committed
    <3>2. CASE next[m] \in SelfCommitting
      BY <3>2, <2>1, <2>2 DEF PassedIsRecorded, Working
    <3> QED BY <3>1, <3>2
  <2>4. PassedIsRecorded'
    <3> SUFFICES ASSUME NEW n \in Migrators \ dropped, pc'[n] \in Working
                 PROVE  /\ seen[n] \subseteq recorded'
                        /\ \A f \in Files : f < next'[n] => VersionOf[f] \in recorded'
                        /\ pc'[n] = "commit" /\ next'[n] \in SelfCommitting
                               => VersionOf[next'[n]] \in recorded'
      BY <2>1 DEF PassedIsRecorded
    <3>1. /\ seen[n] \subseteq recorded
          /\ \A f \in Files : f < next[n] => VersionOf[f] \in recorded
          /\ pc[n] = "commit" /\ next[n] \in SelfCommitting => VersionOf[next[n]] \in recorded
      BY <2>1 DEF PassedIsRecorded, Working
    <3>2. CASE n # m
      BY <3>1, <3>2, <2>1, <2>2
    <3>3. CASE n = m
      BY <3>1, <3>3, <2>1, <2>2, <2>3 DEF Files
    <3> QED BY <3>2, <3>3
  <2>5. CASE next[m] \in SelfCommitting
    <3>1. UNCHANGED <<times, late, recorded>>
      BY <2>1, <2>5 DEF Committed
    <3> QED BY <3>1, <2>1, <2>4 DEF AppliedIsPrefix, AppliedInOrder, Present
  <2>6. CASE next[m] \notin SelfCommitting
    BY <1>6, <1>9, <2>2, <2>4, <2>6
  <2> QED BY <2>5, <2>6
<1>10. ASSUME NEW m \in Migrators, Start(m) \/ EnsureLook(m) \/ EnsureCreate(m) PROVE OrderInv'
  <2>1. PICK step \in Steps \ Working : Goto(m, step)
    BY <1>10 DEF Start, EnsureLook, EnsureCreate, Steps, Working
  <2> QED BY <1>10, <2>1, <1>2 DEF Start, EnsureLook, EnsureCreate, Working
<1>11. ASSUME NEW m \in Migrators, Complete(m) \/ Die(m) PROVE OrderInv'
  BY <1>11, <1>2 DEF Complete, Die, Steps, Working
<1> QED
  BY <1>1, <1>3, <1>4, <1>5, <1>7, <1>8, <1>9, <1>10, <1>11 DEF Next, Advance

\* Files take effect in the order of their names (AppliedInOrder), for any
\* number of files and of overlapping runs.
THEOREM MigrationsInOrder ==
    ASSUME UniqueVersions, Preloaded = {}
    PROVE  Spec => []AppliedInOrder
  BY PositionInitial, PositionInductive, AtomicInitial, AtomicInductive, OrderInitial,
     OrderInductive, PTL DEF Spec, OrderInv

-----------------------------------------------------------------------------
LEMMA NeedsInitial ==
    ASSUME Preloaded = {}
    PROVE  Init => NeedsMet
  BY DEF Init, NeedsMet, Present, OpenTxs

LEMMA NeedsInductive == TypeOK /\ Position /\ AtomicInv /\ NeedsMet /\ [Next]_vars => NeedsMet'
<1> SUFFICES ASSUME TypeOK, Position, AtomicInv, NeedsMet, [Next]_vars PROVE NeedsMet'
  OBVIOUS
<1> USE MigrationAssumption, FilesAreNumbers
<1>1. CASE UNCHANGED vars
  BY <1>1 DEF NeedsMet, Present, OpenTxs, vars
<1>2. ASSUME times' = times, OpenTxs' \subseteq OpenTxs,
             \A n \in OpenTxs' : next'[n] = next[n]
      PROVE  NeedsMet'
  BY <1>2 DEF NeedsMet, Present
<1>3. ASSUME NEW m \in Migrators, RefreshPublicSchema(m) PROVE NeedsMet'
  <2>1. OpenTxs' = {} /\ \A f \in Files : ~Present(f)'
    BY <1>3 DEF RefreshPublicSchema, OpenTxs, Goto, TypeOK, Present
  <2> QED BY <2>1 DEF NeedsMet
<1>4. ASSUME NEW m \in Migrators, Skip(m) PROVE NeedsMet'
  BY <1>4, <1>2 DEF Skip, OpenTxs, TypeOK
<1>5. ASSUME NEW m \in Migrators, ExecuteFile(m) PROVE NeedsMet'
  <2>1. next' = next /\ next[m] \in Files
    BY <1>5 DEF ExecuteFile
  <2>2. CASE ~Succeeds(next[m])
    BY <1>5, <1>2, <2>2 DEF ExecuteFile, OpenTxs, Goto, TypeOK
  <2>3. CASE Succeeds(next[m])
    <3>1. OpenTxs' \subseteq OpenTxs \cup {m}
      BY <1>5 DEF ExecuteFile, OpenTxs, Goto, TypeOK
    <3>2. \A f \in Needs[next[m]] : Present(f)
      BY <2>3 DEF Succeeds
    <3>3. CASE next[m] \notin SelfCommitting
      <4>1. times' = times
        BY <1>5, <3>3 DEF ExecuteFile
      <4> QED BY <4>1, <3>1, <3>2, <2>1 DEF NeedsMet, Present
    <3>4. CASE next[m] \in SelfCommitting
      <4>1. \A f \in Files : Present(f)' <=> Present(f) \/ f = next[m]
        BY <1>5, <2>3, <3>4, EffectSteps
      <4> QED BY <4>1, <3>1, <3>2, <2>1 DEF NeedsMet, OpenTxs, Position
    <3> QED BY <3>3, <3>4
  <2> QED BY <2>2, <2>3
<1>6. ASSUME NEW m \in Migrators, InsertVersion(m) PROVE NeedsMet'
  BY <1>6, <1>2 DEF InsertVersion, OpenTxs, Goto, TypeOK
<1>7. ASSUME NEW m \in Migrators, Commit(m) \/ CommitUnacknowledged(m) PROVE NeedsMet'
  <2>1. /\ OpenTxs' \subseteq OpenTxs \ {m}
        /\ \A n \in OpenTxs' : next'[n] = next[n] /\ next[n] \in Files
    BY <1>7 DEF Commit, CommitUnacknowledged, OpenTxs, Goto, TypeOK, Position
  <2>2. CASE next[m] \in SelfCommitting
    BY <1>7, <1>2, <2>1, <2>2 DEF Commit, CommitUnacknowledged, Committed
  <2>3. CASE next[m] \notin SelfCommitting
    <3>1. next[m] \in Files /\ \A f \in Files : Present(f)' <=> Present(f) \/ f = next[m]
      BY <1>7, <2>3, EffectSteps
    <3>2. \A f \in Needs[next[m]] : Present(f)
      BY <1>7, <2>3 DEF NeedsMet, OpenTxs, Commit, CommitUnacknowledged
    <3> QED BY <3>1, <3>2, <2>1 DEF NeedsMet
  <2> QED BY <2>2, <2>3
<1>8. ASSUME NEW m \in Migrators,
             \/ Start(m) \/ EnsureLook(m) \/ EnsureCreate(m) \/ LoadAppliedVersions(m)
             \/ Complete(m) \/ Die(m)
      PROVE  NeedsMet'
  <2>1. PICK step \in Steps \ {"insert", "commit"} : Goto(m, step)
    BY <1>8 DEF Start, EnsureLook, EnsureCreate, LoadAppliedVersions, Complete, Die, Steps
  <2>2. UNCHANGED <<times, next>>
    BY <1>8 DEF Start, EnsureLook, EnsureCreate, LoadAppliedVersions, Complete, Die
  <2> QED BY <2>1, <2>2, <1>2 DEF OpenTxs, Goto, TypeOK
<1> QED
  BY <1>1, <1>3, <1>4, <1>5, <1>6, <1>7, <1>8 DEF Next, Advance

\* What a self-committing file creates is changed by some other file.
SelfCommittingNeeded == \A f \in SelfCommitting : \E g \in Files \ SelfCommitting : f \in Needs[g]

LEMMA CompletionStep ==
    ASSUME SelfCommittingNeeded
    PROVE  TypeOK /\ AtomicInv /\ OrderInv /\ NeedsMet /\ [Next]_vars =>
               \A m \in Migrators \ dropped :
                   pc[m] # "complete" /\ pc'[m] = "complete" => \A f \in Files : Present(f)
<1> SUFFICES ASSUME TypeOK, AtomicInv, OrderInv, NeedsMet, [Next]_vars,
                    NEW m \in Migrators \ dropped, pc[m] # "complete", pc'[m] = "complete",
                    NEW f \in Files
             PROVE  Present(f)
  OBVIOUS
<1>1. Complete(m)
  <2> USE DEF TypeOK, Goto
  <2>1. ~UNCHANGED vars
    BY DEF vars
  <2>2. PICK n \in Migrators : Start(n) \/ Advance(n) \/ CommitUnacknowledged(n) \/ Die(n)
    BY <2>1 DEF Next
  <2>3. ~(Start(n) \/ RefreshPublicSchema(n) \/ EnsureLook(n) \/ EnsureCreate(n))
    BY DEF Start, RefreshPublicSchema, EnsureLook, EnsureCreate
  <2>4. ~(LoadAppliedVersions(n) \/ Skip(n) \/ ExecuteFile(n) \/ InsertVersion(n))
    BY DEF LoadAppliedVersions, Skip, ExecuteFile, InsertVersion
  <2>5. ~(Commit(n) \/ CommitUnacknowledged(n) \/ Die(n))
    BY DEF Commit, CommitUnacknowledged, Die
  <2>6. Complete(n)
    BY <2>2, <2>3, <2>4, <2>5 DEF Advance
  <2> QED
    BY <2>6 DEF Complete
<1>2. next[m] = NumFiles + 1
  BY <1>1, MigrationAssumption DEF Complete, TypeOK, Files
<1>3. \A g \in Files : VersionOf[g] \in recorded
  BY <1>1, <1>2, MigrationAssumption DEF OrderInv, PassedIsRecorded, Complete, Working, Files
<1>4. \A g \in Files \ SelfCommitting : Present(g)
  BY <1>3, Parts DEF AtomicInv, PlainFiles
<1>5. CASE f \in SelfCommitting
  BY <1>4, <1>5 DEF NeedsMet, SelfCommittingNeeded
<1> QED BY <1>4, <1>5

\* A run that reports completion has seen to it that every file has taken
\* effect (CompleteMeansAll), whichever runs overlapped with it, even when the
\* record of a file that commits itself comes from a run under which the
\* schema was dropped: where another file needs it.
THEOREM CompletionIsTrue ==
    ASSUME UniqueVersions, SelfCommittingNeeded, Preloaded = {}
    PROVE  Spec => CompleteMeansAll
<1>1. Init => TypeOK /\ Position /\ AtomicInv /\ OrderInv /\ NeedsMet
  BY PositionInitial, AtomicInitial, OrderInitial, NeedsInitial
<1>2. TypeOK /\ Position /\ AtomicInv /\ OrderInv /\ NeedsMet /\ [Next]_vars
          => (TypeOK /\ Position /\ AtomicInv /\ OrderInv /\ NeedsMet)'
  BY PositionInductive, AtomicInductive, OrderInductive, NeedsInductive
<1> QED
  BY <1>1, <1>2, CompletionStep, PTL DEF Spec, CompleteMeansAll

-----------------------------------------------------------------------------
\* A file changes only what files of earlier names create.
NeedsEarlier == \A f \in Files : \A g \in Needs[f] : g < f

\* Nothing that is in effect can stop m: it will load a map that has all of it,
\* or every file in effect is behind m, in its map or the one it has just
\* executed; or m has completed, and that is still true.
Leads(m) ==
    \/ pc[m] = "complete" /\ \A f \in Files : VersionOf[f] \in recorded
    \/ pc[m] = "load" /\ \A f \in Files : Present(f) => VersionOf[f] \in recorded
    \/ /\ pc[m] \in Working
       /\ \A f \in Files : Present(f) =>
             \/ f < next[m]
             \/ VersionOf[f] \in seen[m]
             \/ f = next[m] /\ f \in SelfCommitting /\ pc[m] \in {"insert", "commit"}

\* As long as nothing fails from outside some run can still complete: one that
\* leads or, before the table exists, one that has yet to look for it.
SomeoneLeads ==
    ~faulty /\ dropped = {} =>
        /\ (\E m \in Migrators : pc[m] # "idle")
               => \E m \in Migrators : pc[m] \in {"refresh", "look", "create"} \/ Leads(m)
        /\ table => \E m \in Migrators : Leads(m)
        /\ ~table => \A f \in Files : ~Present(f)
        /\ \A m \in Migrators : pc[m] \in {"insert", "commit"} => VersionOf[next[m]] \notin seen[m]

LEMMA SomeoneLeadsInitial ==
    ASSUME Preloaded = {}
    PROVE  Init => SomeoneLeads
  BY DEF Init, SomeoneLeads, Working, Present

\* A leader is not stopped by its own statements, and who overtakes it leads.
LEMMA SomeoneLeadsInductive ==
    ASSUME UniqueVersions, NeedsEarlier
    PROVE  TypeOK /\ Position /\ AtomicInv /\ OrderInv /\ SomeoneLeads /\ [Next]_vars
               => SomeoneLeads'
<1> SUFFICES ASSUME TypeOK, Position, AtomicInv, OrderInv, SomeoneLeads, [Next]_vars,
                    ~faulty', dropped' = {}
             PROVE  SomeoneLeads'
  BY DEF SomeoneLeads
<1> USE MigrationAssumption, FilesAreNumbers
<1>1. CASE UNCHANGED vars
  BY <1>1 DEF SomeoneLeads, Leads, Present, vars
<1>2. CASE \E m \in Migrators : Start(m)
  BY <1>2 DEF SomeoneLeads, Leads, Working, Start, Goto, TypeOK, Present
<1>3. CASE \E m \in Migrators : RefreshPublicSchema(m)
  <2>1. PICK m \in Migrators : RefreshPublicSchema(m)
    BY <1>3
  <2>2. pc'[m] = "look" /\ ~table' /\ \A f \in Files : ~Present(f)'
    BY <2>1 DEF RefreshPublicSchema, Goto, TypeOK, Present
  <2>3. \A n \in Migrators : pc'[n] \notin {"insert", "commit"}
    BY <2>1 DEF RefreshPublicSchema, Goto, TypeOK, Running, Working, Steps
  <2> QED
    BY <2>2, <2>3 DEF SomeoneLeads
<1>4. CASE \E m \in Migrators : EnsureLook(m)
  BY <1>4 DEF SomeoneLeads, Leads, Working, EnsureLook, Goto, TypeOK, Present
<1>5. ASSUME NEW m \in Migrators, EnsureCreate(m) PROVE SomeoneLeads'
  <2>1. /\ UNCHANGED <<recorded, times, next, seen>> /\ table'
        /\ ~faulty /\ dropped = {} /\ pc[m] = "create"
        /\ \A n \in Migrators \ {m} : pc'[n] = pc[n]
        /\ pc'[m] = IF table THEN "failed" ELSE "load"
    BY <1>5 DEF EnsureCreate, Goto, TypeOK
  <2>2. \E n \in Migrators : Leads(n)'
    <3>1. CASE table
      <4>1. PICK n \in Migrators : Leads(n)
        BY <3>1, <2>1 DEF SomeoneLeads
      <4> QED BY <4>1, <2>1 DEF Leads, Working, Present
    <3>2. CASE ~table
      <4>1. Leads(m)'
        BY <3>2, <2>1 DEF Leads, SomeoneLeads, Present
      <4> QED BY <4>1
    <3> QED BY <3>1, <3>2
  <2> QED BY <2>1, <2>2 DEF SomeoneLeads
<1>6. CASE \E m \in Migrators : LoadAppliedVersions(m)
  <2>1. PICK m \in Migrators : LoadAppliedVersions(m)
    BY <1>6
  <2>2. /\ UNCHANGED <<table, recorded, times, next>>
        /\ ~faulty /\ dropped = {} /\ pc[m] = "load"
        /\ \A n \in Migrators \ {m} : pc'[n] = pc[n] /\ seen'[n] = seen[n]
        /\ seen'[m] = recorded
    BY <2>1 DEF LoadAppliedVersions, Goto, TypeOK
  <2>3. table /\ pc'[m] = "file"
    BY <2>1, <2>2 DEF AtomicInv, TableStays, LoadAppliedVersions, Goto, TypeOK
  <2>4. PICK n \in Migrators : Leads(n)
    BY <2>2, <2>3 DEF SomeoneLeads
  <2>5. Leads(n)'
    <3>1. CASE n # m
      BY <3>1, <2>2, <2>4 DEF Leads, Present
    <3>2. CASE n = m
      BY <3>2, <2>2, <2>3, <2>4 DEF Leads, Present, Working
    <3> QED BY <3>1, <3>2
  <2> QED BY <2>2, <2>3, <2>5 DEF SomeoneLeads, Present
<1>7. CASE \E m \in Migrators : Skip(m)
  <2>1. PICK m \in Migrators : Skip(m)
    BY <1>7
  <2>2. /\ UNCHANGED <<table, recorded, times, pc, seen>>
        /\ ~faulty /\ dropped = {} /\ pc[m] = "file"
        /\ \A n \in Migrators \ {m} : next'[n] = next[n]
        /\ next'[m] = next[m] + 1 /\ next[m] \in Files
    BY <2>1 DEF Skip, TypeOK
  <2>3. table
    BY <2>2 DEF AtomicInv, TableStays, Working
  <2>4. PICK n \in Migrators : Leads(n)
    BY <2>2, <2>3 DEF SomeoneLeads
  <2>5. Leads(n)'
    <3>1. CASE n # m
      BY <3>1, <2>2, <2>4 DEF Leads, Present
    <3>2. CASE n = m
      BY <3>2, <2>2, <2>4 DEF Leads, Present, Working, Files
    <3> QED BY <3>1, <3>2
  <2> QED BY <2>2, <2>3, <2>5 DEF SomeoneLeads, Present
\* Who lets a file take effect leads from there on.
<1>8. ASSUME NEW m \in Migrators,
             \/ ExecuteFile(m) /\ Succeeds(next[m]) /\ next[m] \in SelfCommitting
             \/ Commit(m) /\ next[m] \notin SelfCommitting
      PROVE  Leads(m)'
  <2>1. /\ next[m] \in Files /\ pc[m] \in Working
        /\ ~Present(next[m])
        /\ \A f \in Files : Present(f)' <=> Present(f) \/ f = next[m]
        /\ dropped = {}
    BY <1>8, EffectSteps
  <2>2. ASSUME NEW f \in Files, Present(f)' PROVE f < next[m] \/ f = next[m]
    <3>1. ASSUME Present(f), f > next[m] PROVE FALSE
      <4>1. VersionOf[next[m]] \in recorded
        BY <3>1, <2>1 DEF OrderInv, AppliedIsPrefix
      <4> QED BY <4>1, <2>1, RecordsAreTrue
    <3> QED BY <3>1, <2>1, <2>2 DEF Files
  <2>3. CASE ExecuteFile(m)
    <3>1. next'[m] = next[m] /\ pc'[m] = "insert" /\ next[m] \in SelfCommitting
      BY <1>8, <2>3 DEF ExecuteFile, Commit, Goto, TypeOK
    <3> QED BY <2>2, <3>1 DEF Leads, Working
  <2>4. CASE Commit(m)
    <3>1. next'[m] = next[m] + 1 /\ pc'[m] = "file"
      BY <2>4 DEF Commit, Goto, TypeOK
    <3> QED BY <2>1, <2>2, <3>1 DEF Leads, Working, Files
  <2> QED BY <1>8, <2>3, <2>4
<1>9. ASSUME NEW m \in Migrators, ExecuteFile(m) \/ InsertVersion(m) PROVE SomeoneLeads'
  <2>1. ~faulty /\ dropped = {} /\ pc[m] \in Working /\ next[m] \in Files
    BY <1>9 DEF ExecuteFile, InsertVersion, Working, Position
  <2>2. table
    BY <2>1 DEF AtomicInv, TableStays
  <2>3. UNCHANGED <<table, next, seen, dropped, faulty>> /\ recorded \subseteq recorded'
    BY <1>9 DEF ExecuteFile, InsertVersion
  <2>4. \A n \in Migrators \ {m} : pc'[n] = pc[n]
    BY <1>9 DEF ExecuteFile, InsertVersion, Goto, TypeOK
  <2>5. pc'[m] \in {"insert", "commit", "failed"}
    BY <1>9 DEF ExecuteFile, InsertVersion, Goto, TypeOK
  \* A leader is at a file that is not in effect, after all those it needs.
  <2>6. ASSUME Leads(m) PROVE pc'[m] # "failed"
    <3>1. CASE ExecuteFile(m)
      <4>1. ~Present(next[m])
        BY <3>1, <2>1, <2>6 DEF Leads, ExecuteFile, Working, Files
      <4>2. \A g \in Needs[next[m]] : Present(g)
        <5> SUFFICES ASSUME NEW g \in Needs[next[m]] PROVE Present(g)
          OBVIOUS
        <5>1. g \in Files /\ g < next[m]
          BY <2>1 DEF NeedsEarlier
        <5>2. VersionOf[g] \in recorded
          BY <5>1, <2>1 DEF OrderInv, PassedIsRecorded
        <5> QED BY <5>1, <5>2, <2>1, RecordsAreTrue
      <4> QED BY <3>1, <4>1, <4>2 DEF ExecuteFile, Succeeds, Goto, TypeOK
    <3>2. CASE InsertVersion(m)
      <4>1. pc[m] = "insert" /\ VersionOf[next[m]] \notin seen[m]
        BY <3>2, <2>1 DEF InsertVersion, SomeoneLeads
      <4>2. VersionOf[next[m]] \notin recorded
        <5>1. CASE next[m] \in SelfCommitting
          BY <5>1, <4>1, <2>1 DEF AtomicInv, SelfIsFirst
        <5>2. CASE next[m] \notin SelfCommitting
          <6>1. ~Present(next[m])
            BY <5>2, <4>1, <2>1, <2>6 DEF Leads, Working, Files
          <6> QED BY <6>1, <2>1, RecordsAreTrue
        <5> QED BY <5>1, <5>2
      <4> QED BY <3>2, <4>2, <2>2 DEF InsertVersion, Goto, TypeOK
    <3> QED BY <3>1, <3>2, <1>9
  <2>7. \E n \in Migrators : Leads(n)'
    <3>1. CASE ExecuteFile(m) /\ Succeeds(next[m]) /\ next[m] \in SelfCommitting
      BY <3>1, <1>8
    <3>2. CASE ~(ExecuteFile(m) /\ Succeeds(next[m]) /\ next[m] \in SelfCommitting)
      <4>1. times' = times
        BY <1>9, <3>2 DEF ExecuteFile, InsertVersion
      <4>2. PICK n \in Migrators : Leads(n)
        BY <2>1, <2>2 DEF SomeoneLeads
      <4>3. CASE n # m
        BY <4>1, <4>2, <4>3, <2>3, <2>4 DEF Leads, Present
      <4>4. CASE n = m
        <5>1. pc'[m] \in {"insert", "commit"} /\ pc[m] \in Working
          BY <4>2, <4>4, <2>1, <2>5, <2>6
        <5>2. ASSUME NEW f \in Files, Present(f)'
              PROVE  \/ f < next[m] \/ VersionOf[f] \in seen[m]
                     \/ f = next[m] /\ f \in SelfCommitting
          BY <5>2, <4>1, <4>2, <4>4, <2>1 DEF Leads, Present, Working
        <5> QED BY <5>1, <5>2, <4>4, <2>3 DEF Leads, Working
      <4> QED BY <4>3, <4>4
    <3> QED BY <3>1, <3>2
  <2>8. ASSUME NEW k \in Migrators, pc'[k] \in {"insert", "commit"}
        PROVE  VersionOf[next[k]] \notin seen[k]
    BY <1>9, <2>1, <2>4, <2>8 DEF ExecuteFile, InsertVersion, SomeoneLeads
  <2> QED
    BY <2>2, <2>3, <2>7, <2>8 DEF SomeoneLeads
<1>10. ASSUME NEW m \in Migrators, Commit(m) PROVE SomeoneLeads'
  <2>1. /\ ~faulty /\ dropped = {} /\ pc[m] = "commit" /\ next[m] \in Files
        /\ UNCHANGED <<table, seen>>
        /\ \A n \in Migrators \ {m} : pc'[n] = pc[n] /\ next'[n] = next[n]
        /\ pc'[m] = "file" /\ next'[m] = next[m] + 1
    BY <1>10 DEF Commit, Committed, Position, Goto, TypeOK
  <2>2. table
    BY <2>1 DEF AtomicInv, TableStays, Working
  <2>3. \E n \in Migrators : Leads(n)'
    <3>1. CASE next[m] \notin SelfCommitting
      BY <3>1, <1>8, <1>10
    <3>2. CASE next[m] \in SelfCommitting
      <4>1. UNCHANGED <<times, recorded>>
        BY <3>2, <1>10 DEF Commit, Committed
      <4>2. PICK n \in Migrators : Leads(n)
        BY <2>1, <2>2 DEF SomeoneLeads
      <4>3. CASE n # m
        BY <4>1, <4>2, <4>3, <2>1 DEF Leads, Present
      <4>4. CASE n = m
        BY <4>1, <4>2, <4>4, <2>1 DEF Leads, Present, Working, Files
      <4> QED BY <4>3, <4>4
    <3> QED BY <3>1, <3>2
  <2>4. \A n \in Migrators : pc'[n] \in {"insert", "commit"} => VersionOf[next'[n]] \notin seen'[n]
    BY <2>1 DEF SomeoneLeads
  <2> QED BY <2>1, <2>2, <2>3, <2>4 DEF SomeoneLeads
<1>11. ASSUME NEW m \in Migrators, Complete(m) PROVE SomeoneLeads'
  <2>1. /\ UNCHANGED <<table, recorded, times, next, seen>>
        /\ ~faulty /\ dropped = {} /\ pc[m] = "file" /\ next[m] \notin Files
        /\ \A n \in Migrators \ {m} : pc'[n] = pc[n]
        /\ pc'[m] = "complete"
    BY <1>11 DEF Complete, Goto, TypeOK
  <2>2. \A f \in Files : f < next[m]
    BY <2>1 DEF TypeOK, Files
  <2>3. \A f \in Files : VersionOf[f] \in recorded
    BY <2>1, <2>2 DEF OrderInv, PassedIsRecorded, Working
  <2>4. Leads(m)'
    BY <2>1, <2>3 DEF Leads
  <2>5. table
    BY <2>1 DEF AtomicInv, TableStays, Working
  <2> QED BY <2>1, <2>4, <2>5 DEF SomeoneLeads
<1>12. ASSUME NEW m \in Migrators, CommitUnacknowledged(m) \/ Die(m) PROVE FALSE
  BY <1>12 DEF CommitUnacknowledged, Die
<1> QED
  BY <1>1, <1>2, <1>3, <1>4, <1>5, <1>6, <1>7, <1>9, <1>10, <1>11, <1>12 DEF Next, Advance

\* However the runs overlap, their own statements never stop all of them, and
\* when they have ended everything is in effect and recorded
\* (SomeoneCompletes): where files build on files of earlier names only.
THEOREM SomeRunCompletes ==
    ASSUME UniqueVersions, NeedsEarlier, Preloaded = {}
    PROVE  Spec => []SomeoneCompletes
<1>1. Init => TypeOK /\ Position /\ AtomicInv /\ OrderInv /\ SomeoneLeads
  BY PositionInitial, AtomicInitial, OrderInitial, SomeoneLeadsInitial
<1>2. TypeOK /\ Position /\ AtomicInv /\ OrderInv /\ SomeoneLeads /\ [Next]_vars
          => (TypeOK /\ Position /\ AtomicInv /\ OrderInv /\ SomeoneLeads)'
  BY PositionInductive, AtomicInductive, OrderInductive, SomeoneLeadsInductive
<1>3. TypeOK /\ AtomicInv /\ SomeoneLeads => SomeoneCompletes
  <2> SUFFICES ASSUME TypeOK, AtomicInv, SomeoneLeads, Ended, ~faulty, dropped = {},
                      NEW m \in Migrators, pc[m] # "idle"
               PROVE  /\ \E n \in Migrators : pc[n] = "complete"
                      /\ \A f \in Files : Present(f) /\ VersionOf[f] \in recorded
    BY DEF SomeoneCompletes
  <2>1. PICK n \in Migrators : pc[n] \in {"refresh", "look", "create"} \/ Leads(n)
    BY DEF SomeoneLeads
  <2>2. pc[n] = "complete" /\ \A f \in Files : VersionOf[f] \in recorded
    BY <2>1 DEF Ended, Leads, Running, Working, Steps
  <2> QED BY <2>2, RecordsAreTrue
<1> QED
  BY <1>1, <1>2, <1>3, PTL DEF Spec
=============================================================================
