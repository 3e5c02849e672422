------------------------- MODULE ProjectUpgradeProofs -------------------------
(***************************************************************************)
(* What `project init` and `project upgrade` guarantee for any set of       *)
(* files, whatever the user, the template's author and failures do between  *)
(* two file operations.                                                     *)
(***************************************************************************)
EXTENDS ProjectUpgrade, TLAPS

\* An upgrade about to overwrite a file has a reason to: the content has a
\* backup, or the lock never knew the file or knows exactly this content.
CopyInv ==
  pc = "copy" /\ ~late /\ disk[file] # Missing =>
    disk[file] \in saved[file] \/ baseline[file] \in {Missing, disk[file]}

\* What an undisturbed command has done so far.
InitProgress ==
  /\ pc = "initcopy" =>
       todo \subseteq Managed /\ \A f \in Managed \ todo : disk[f] = template[f]
  /\ pc = "inithash" =>
       /\ todo \subseteq Managed
       /\ \A f \in Managed : disk[f] = template[f]
       /\ \A f \in Managed \ todo : baseline[f] = template[f]

UpgradeProgress ==
  pc \in {"next", "hash", "backup", "copy", "record"} =>
    /\ todo \subseteq Managed
    /\ pc # "next" => file \in Managed \ todo /\ srcSum = template[file]
    /\ pc = "record" => disk[file] = template[file]
    /\ ~dry => \A f \in Managed \ (todo \cup conflicts) :
         (pc # "next" /\ f = file) \/ (disk[f] = template[f] /\ baseline[f] = template[f])

ProgressInv == quiet => InitProgress /\ UpgradeProgress /\ QuietSuccessConverges

\* Nothing is a conflict under --force, and a command that runs has no result yet.
OutcomeInv ==
  /\ pc # "idle" => result = "none"
  /\ pc # "idle" /\ force => conflicts = {}
  /\ pc \in {"initcopy", "inithash"} => conflicts = {} /\ ~dry
  /\ pc \in {"backup", "copy", "record"} => ~dry

\* What an undisturbed upgrade without --force has called a conflict so far is what
\* the next one would find, although its copies have changed the files since; of a
\* file it has not looked at yet the baseline still is the lock.
Differs(f) == lock[f] # Missing /\ disk[f] \notin {Missing, lock[f], template[f]}

Unseen == todo \cup (IF pc = "hash" THEN {file} ELSE {})

ConflictProgress ==
  pc \in {"next", "hash", "copy", "record"} =>
    /\ \A f \in Unseen : baseline[f] = lock[f]
    /\ conflicts = {f \in Managed \ Unseen : Differs(f)}
    /\ pc = "copy" => ~Differs(file)

ConflictInv ==
  /\ pc = "backup" => force
  /\ quiet /\ ~force => ConflictProgress /\ QuietConflictsExact

IInv == TypeOK /\ CopyInv /\ OutcomeInv /\ ProgressInv /\ ConflictInv

-------------------------------------------------------------------------------

\* An interference uses up one event.
LEMMA EventFacts == TypeOK /\ Event => events' \in 0..MaxEvents /\ quiet' \in BOOLEAN
<1> SUFFICES ASSUME TypeOK, Event PROVE events' \in 0..MaxEvents /\ quiet' \in BOOLEAN
  OBVIOUS
<1>1. events' \in 0..MaxEvents
  BY ProjectUpgradeAssumption DEF TypeOK, Event
<1>2. quiet' \in BOOLEAN
  BY DEF Event
<1> QED BY <1>1, <1>2

\* The variables of every action, split into the groups the module names.
LEMMA TypeStep == TypeOK /\ [Next]_vars => TypeOK'
<1> SUFFICES ASSUME TypeOK, [Next]_vars PROVE TypeOK'
  OBVIOUS
<1> USE ProjectUpgradeAssumption DEF TypeOK, Store, Nothing, PCs, At, Goto, project, flags,
        work, outcome, history
<1>1. ASSUME NEW f \in BOOLEAN, InitBegin(f) PROVE TypeOK'
  BY <1>1 DEF InitBegin, Start, Managed
<1>2. ASSUME NEW f \in BOOLEAN, NEW d \in BOOLEAN, UpgradeBegin(f, d) PROVE TypeOK'
  BY <1>2 DEF UpgradeBegin, Start, Managed
<1>3. ASSUME NEW f \in Files, InitCopy(f) PROVE TypeOK'
  BY <1>3 DEF InitCopy, Overwrite
<1>4. ASSUME NEW f \in Files, InitHash(f) PROVE TypeOK'
  BY <1>4 DEF InitHash
<1>5. CASE InitCopied
  BY <1>5 DEF InitCopied, Managed
<1>6. CASE InitFinish
  BY <1>6 DEF InitFinish, WriteLock, End
<1>7. ASSUME NEW f \in Files, HashTemplate(f) PROVE TypeOK'
  BY <1>7 DEF HashTemplate
<1>8. CASE HashProject
  BY <1>8, EventFacts DEF HashProject, NextFile
<1>9. CASE Backup
  BY <1>9 DEF Backup
<1>10. CASE Copy
  BY <1>10 DEF Copy, Overwrite
<1>11. CASE Record
  BY <1>11 DEF Record, NextFile
<1>12. CASE UpgradeFinish
  BY <1>12 DEF UpgradeFinish, WriteLock, End
<1>13. CASE Stop
  BY <1>13, EventFacts DEF Stop, End
<1>14. CASE LoseLock
  BY <1>14, EventFacts DEF LoseLock
<1>15. ASSUME NEW f \in Files, UserEdits(f) PROVE TypeOK'
  BY <1>15, EventFacts DEF UserEdits
<1>16. ASSUME NEW f \in Files, Publish(f) PROVE TypeOK'
  BY <1>16, EventFacts DEF Publish
<1>17. CASE UNCHANGED vars
  BY <1>17 DEF vars
<1> QED
  BY <1>1, <1>2, <1>3, <1>4, <1>5, <1>6, <1>7, <1>8, <1>9, <1>10, <1>11, <1>12, <1>13, <1>14,
     <1>15, <1>16, <1>17 DEF Next, InitStep, UpgradeStep, World

\* A copy stays justified until it is made.
LEMMA CopyStep == TypeOK /\ CopyInv /\ [Next]_vars => CopyInv'
<1> SUFFICES ASSUME TypeOK /\ CopyInv, [Next]_vars PROVE CopyInv'
  OBVIOUS
<1> USE ProjectUpgradeAssumption
    DEF CopyInv, TypeOK, Store, Nothing, PCs, At, Goto, project, flags, work, outcome, history
<1>1. ASSUME NEW f \in BOOLEAN, InitBegin(f) PROVE CopyInv'
  BY <1>1 DEF InitBegin, Start
<1>2. ASSUME NEW f \in BOOLEAN, NEW d \in BOOLEAN, UpgradeBegin(f, d) PROVE CopyInv'
  BY <1>2 DEF UpgradeBegin, Start
<1>3. ASSUME NEW f \in Files, InitCopy(f) PROVE CopyInv'
  BY <1>3 DEF InitCopy, Overwrite
<1>4. ASSUME NEW f \in Files, InitHash(f) PROVE CopyInv'
  BY <1>4 DEF InitHash
<1>5. CASE InitCopied
  BY <1>5 DEF InitCopied
<1>6. CASE InitFinish
  BY <1>6 DEF InitFinish, WriteLock, End
<1>7. ASSUME NEW f \in Files, HashTemplate(f) PROVE CopyInv'
  BY <1>7 DEF HashTemplate
<1>8. CASE HashProject
  BY <1>8 DEF HashProject, NextFile, Decision, LocallyModified
<1>9. CASE Backup
  BY <1>9 DEF Backup
<1>10. CASE Copy
  BY <1>10 DEF Copy, Overwrite
<1>11. CASE Record
  BY <1>11 DEF Record, NextFile
<1>12. CASE UpgradeFinish
  BY <1>12 DEF UpgradeFinish, WriteLock, End
<1>13. CASE Stop
  BY <1>13 DEF Stop, End
<1>14. CASE LoseLock
  BY <1>14 DEF LoseLock
<1>15. ASSUME NEW f \in Files, UserEdits(f) PROVE CopyInv'
  BY <1>15 DEF UserEdits
<1>16. ASSUME NEW f \in Files, Publish(f) PROVE CopyInv'
  BY <1>16 DEF Publish
<1>17. CASE UNCHANGED vars
  BY <1>17 DEF vars
<1> QED
  BY <1>1, <1>2, <1>3, <1>4, <1>5, <1>6, <1>7, <1>8,
     <1>9, <1>10, <1>11, <1>12, <1>13, <1>14, <1>15, <1>16, <1>17
     DEF Next, InitStep, UpgradeStep, World

\* No conflicts under --force, no result before the end.
LEMMA OutcomeStep == TypeOK /\ OutcomeInv /\ [Next]_vars => OutcomeInv'
<1> SUFFICES ASSUME TypeOK /\ OutcomeInv, [Next]_vars PROVE OutcomeInv'
  OBVIOUS
<1> USE ProjectUpgradeAssumption
    DEF OutcomeInv, TypeOK, At, Goto, PCs, project, flags, work, outcome, history
<1>1. ASSUME NEW f \in BOOLEAN, InitBegin(f) PROVE OutcomeInv'
  BY <1>1 DEF InitBegin, Start
<1>2. ASSUME NEW f \in BOOLEAN, NEW d \in BOOLEAN, UpgradeBegin(f, d) PROVE OutcomeInv'
  BY <1>2 DEF UpgradeBegin, Start
<1>3. ASSUME NEW f \in Files, InitCopy(f) PROVE OutcomeInv'
  BY <1>3 DEF InitCopy, Overwrite
<1>4. ASSUME NEW f \in Files, InitHash(f) PROVE OutcomeInv'
  BY <1>4 DEF InitHash
<1>5. CASE InitCopied
  BY <1>5 DEF InitCopied
<1>6. CASE InitFinish
  BY <1>6 DEF InitFinish, WriteLock, End
<1>7. ASSUME NEW f \in Files, HashTemplate(f) PROVE OutcomeInv'
  BY <1>7 DEF HashTemplate
<1>8. CASE HashProject
  BY <1>8 DEF HashProject, NextFile, Decision, LocallyModified
<1>9. CASE Backup
  BY <1>9 DEF Backup
<1>10. CASE Copy
  BY <1>10 DEF Copy, Overwrite
<1>11. CASE Record
  BY <1>11 DEF Record, NextFile
<1>12. CASE UpgradeFinish
  BY <1>12 DEF UpgradeFinish, WriteLock, End
<1>13. CASE Stop
  BY <1>13 DEF Stop, End
<1>14. CASE LoseLock
  BY <1>14 DEF LoseLock
<1>15. ASSUME NEW f \in Files, UserEdits(f) PROVE OutcomeInv'
  BY <1>15 DEF UserEdits
<1>16. ASSUME NEW f \in Files, Publish(f) PROVE OutcomeInv'
  BY <1>16 DEF Publish
<1>17. CASE UNCHANGED vars
  BY <1>17 DEF vars
<1> QED
  BY <1>1, <1>2, <1>3, <1>4, <1>5, <1>6, <1>7, <1>8,
     <1>9, <1>10, <1>11, <1>12, <1>13, <1>14, <1>15, <1>16, <1>17
     DEF Next, InitStep, UpgradeStep, World

\* The look at one file of an undisturbed upgrade: a file skipped is equal to the
\* template and goes into the baseline, a conflict is set aside.
LEMMA HashProjectProgress ==
  TypeOK /\ OutcomeInv /\ ProgressInv /\ HashProject => ProgressInv'
<1> SUFFICES ASSUME TypeOK, OutcomeInv, ProgressInv, HashProject, quiet' PROVE ProgressInv'
  BY DEF ProgressInv
<1>1. file \in Managed \ todo /\ srcSum = template[file] /\ quiet /\ pc = "hash"
  BY DEF HashProject, At, Event, ProgressInv, UpgradeProgress, history
<1>2. /\ todo \subseteq Managed
      /\ ~dry => \A f \in Managed \ (todo \cup conflicts) :
                  f = file \/ (disk[f] = template[f] /\ baseline[f] = template[f])
  BY <1>1 DEF ProgressInv, UpgradeProgress
<1>3. UNCHANGED <<template, disk, lock, dry, todo, result>> /\ Managed' = Managed
  BY DEF HashProject, project, flags, Managed
<1>4. result = "none" /\ pc' \in {"next", "backup", "copy"}
  BY <1>1 DEF HashProject, OutcomeInv, NextFile, Goto, Decision
<1>5. InitProgress' /\ QuietSuccessConverges'
  BY <1>3, <1>4 DEF InitProgress, QuietSuccessConverges
<1>6. pc' # "next" => file' = file /\ srcSum' = srcSum
  BY DEF HashProject, NextFile, Goto
<1>7. ASSUME ~dry, NEW f \in Managed, f \notin todo, f \notin conflicts'
      PROVE  \/ pc' # "next" /\ f = file'
             \/ disk[f] = template[f] /\ baseline'[f] = template[f]
  <2> DEFINE d == Decision(file, srcSum, disk[file])
  <2>1. /\ conflicts' = IF d = "conflict" THEN conflicts \cup {file} ELSE conflicts
        /\ baseline' = IF d = "skip" THEN [baseline EXCEPT ![file] = disk[file]] ELSE baseline
        /\ d \in {"backup", "copy"} => pc' # "next"
    BY <1>7 DEF HashProject, Event, Goto
  <2>2. d \in {"conflict", "backup", "skip", "copy"}
    BY <1>7 DEF Decision
  <2>3. d = "skip" => disk[file] = srcSum
    BY DEF Decision
  <2>4. baseline \in [Files -> Contents \cup {Missing}] /\ file \in Files /\ f \in Files
    BY <1>1 DEF TypeOK, Store, Managed
  <2> HIDE DEF d
  <2>5. CASE f # file
    BY <2>5, <2>1, <2>4, <1>2, <1>7
  <2>6. CASE f = file /\ d = "skip"
    BY <2>6, <2>1, <2>3, <2>4, <1>1
  <2>7. CASE f = file /\ d \in {"backup", "copy"}
    BY <2>7, <2>1, <1>6
  <2>8. CASE f = file /\ d = "conflict"
    BY <2>8, <2>1, <1>7
  <2> QED BY <2>2, <2>5, <2>6, <2>7, <2>8
<1>8. UpgradeProgress'
  BY <1>1, <1>2, <1>3, <1>4, <1>6, <1>7 DEF UpgradeProgress
<1> QED BY <1>5, <1>8 DEF ProgressInv

\* Progress of an undisturbed command.
LEMMA ProgressStep == TypeOK /\ OutcomeInv /\ ProgressInv /\ [Next]_vars => ProgressInv'
<1> SUFFICES ASSUME TypeOK /\ OutcomeInv /\ ProgressInv, [Next]_vars PROVE ProgressInv'
  OBVIOUS
<1> USE ProjectUpgradeAssumption
    DEF ProgressInv, InitProgress, UpgradeProgress, QuietSuccessConverges, Managed, TypeOK,
        OutcomeInv, At, Goto, Store, Nothing, PCs, project, flags, work, outcome, history
<1>1. ASSUME NEW f \in BOOLEAN, InitBegin(f) PROVE ProgressInv'
  BY <1>1 DEF InitBegin, Start
<1>2. ASSUME NEW f \in BOOLEAN, NEW d \in BOOLEAN, UpgradeBegin(f, d) PROVE ProgressInv'
  BY <1>2 DEF UpgradeBegin, Start
<1>3. ASSUME NEW f \in Files, InitCopy(f) PROVE ProgressInv'
  BY <1>3 DEF InitCopy, Overwrite
<1>4. ASSUME NEW f \in Files, InitHash(f) PROVE ProgressInv'
  BY <1>4 DEF InitHash
<1>5. CASE InitCopied
  BY <1>5 DEF InitCopied
<1>6. CASE InitFinish
  BY <1>6 DEF InitFinish, WriteLock, End
<1>7. ASSUME NEW f \in Files, HashTemplate(f) PROVE ProgressInv'
  BY <1>7 DEF HashTemplate
<1>8. CASE HashProject
  <2> HIDE DEF ProgressInv, TypeOK, OutcomeInv
  <2> QED BY <1>8, HashProjectProgress
<1>9. CASE Backup
  BY <1>9 DEF Backup
<1>10. CASE Copy
  BY <1>10 DEF Copy, Overwrite
<1>11. CASE Record
  BY <1>11 DEF Record, NextFile
<1>12. CASE UpgradeFinish
  BY <1>12 DEF UpgradeFinish, WriteLock, End
<1>13. CASE Stop
  BY <1>13 DEF Stop, End, Event
<1>14. CASE LoseLock
  BY <1>14 DEF LoseLock, Event
<1>15. ASSUME NEW f \in Files, UserEdits(f) PROVE ProgressInv'
  BY <1>15 DEF UserEdits, Event
<1>16. ASSUME NEW f \in Files, Publish(f) PROVE ProgressInv'
  BY <1>16 DEF Publish, Event
<1>17. CASE UNCHANGED vars
  BY <1>17 DEF vars
<1> QED
  BY <1>1, <1>2, <1>3, <1>4, <1>5, <1>6, <1>7, <1>8,
     <1>9, <1>10, <1>11, <1>12, <1>13, <1>14, <1>15, <1>16, <1>17
     DEF Next, InitStep, UpgradeStep, World

\* The look at a file decides whether it is a conflict as the property does, for
\* the lock has not been written yet.
LEMMA HashProjectConflicts ==
  TypeOK /\ OutcomeInv /\ ProgressInv /\ ConflictInv /\ HashProject => ConflictInv'
<1> SUFFICES ASSUME TypeOK, OutcomeInv, ProgressInv, ConflictInv, HashProject PROVE ConflictInv'
  OBVIOUS
<1>1. pc = "hash" /\ result = "none" /\ UNCHANGED <<template, disk, lock, force, dry, todo, result>>
  BY DEF HashProject, At, OutcomeInv, project, flags
<1>2. pc' = "backup" => force'
  BY <1>1 DEF HashProject, NextFile, Goto, Decision
<1>3. SUFFICES ASSUME quiet', ~force' PROVE ConflictProgress'
  BY <1>1, <1>2 DEF ConflictInv, QuietConflictsExact
<1>4. quiet /\ ~force
  BY <1>1, <1>3 DEF HashProject, Event, history
<1>5. file \in Managed \ todo /\ srcSum = template[file] /\ file \in Files /\ todo \subseteq Files
  BY <1>1, <1>4 DEF ProgressInv, UpgradeProgress, Managed, TypeOK
<1>6. /\ \A f \in todo \cup {file} : baseline[f] = lock[f]
      /\ conflicts = {f \in Managed \ (todo \cup {file}) : Differs(f)}
  BY <1>1, <1>4 DEF ConflictInv, ConflictProgress, Unseen
<1>7. Unseen' = todo /\ Managed' = Managed /\ \A f \in Files : Differs(f)' = Differs(f)
  <2>1. pc' # "hash"
    BY DEF HashProject, NextFile, Goto
  <2> QED BY <2>1, <1>1 DEF Unseen, Managed, Differs
<1>8. \A f \in todo : baseline'[f] = lock'[f]
  BY <1>1, <1>5, <1>6 DEF HashProject, TypeOK, Store
<1> DEFINE d == Decision(file, srcSum, disk[file])
<1>9. conflicts' = IF d = "conflict" THEN conflicts \cup {file} ELSE conflicts
  BY <1>3 DEF HashProject, Event
<1>10. d = "conflict" <=> Differs(file)
  BY <1>4, <1>5, <1>6 DEF Decision, LocallyModified, Differs
<1>11. conflicts' = {f \in Managed \ todo : Differs(f)}
  <2> HIDE DEF d
  <2> QED BY <1>5, <1>6, <1>9, <1>10
<1>12. \A f \in Managed : f \in Files
  BY DEF Managed
<1>13. conflicts' = {f \in (Managed \ Unseen)' : Differs(f)'}
  BY <1>7, <1>11, <1>12
<1>14. pc' = "copy" => ~Differs(file)'
  <2>1. pc' = "copy" => d = "copy" /\ file' = file
    BY <1>3 DEF HashProject, Event, NextFile, Goto
  <2> QED BY <2>1, <1>5, <1>7, <1>10
<1> QED BY <1>7, <1>8, <1>13, <1>14 DEF ConflictProgress

\* The conflicts found so far stay what the next upgrade will find.
LEMMA ConflictStep ==
  TypeOK /\ OutcomeInv /\ ProgressInv /\ ConflictInv /\ [Next]_vars => ConflictInv'
<1> SUFFICES ASSUME TypeOK /\ OutcomeInv /\ ProgressInv /\ ConflictInv, [Next]_vars
             PROVE  ConflictInv'
  OBVIOUS
<1> USE ProjectUpgradeAssumption
    DEF ConflictInv, ConflictProgress, Unseen, Differs, QuietConflictsExact, Managed, TypeOK,
        OutcomeInv, At, Goto, Store, Nothing, PCs, project, flags, work, outcome, history
<1>1. ASSUME NEW f \in BOOLEAN, InitBegin(f) PROVE ConflictInv'
  BY <1>1 DEF InitBegin, Start
<1>2. ASSUME NEW f \in BOOLEAN, NEW d \in BOOLEAN, UpgradeBegin(f, d) PROVE ConflictInv'
  BY <1>2 DEF UpgradeBegin, Start
<1>3. ASSUME NEW f \in Files, InitCopy(f) PROVE ConflictInv'
  BY <1>3 DEF InitCopy, Overwrite
<1>4. ASSUME NEW f \in Files, InitHash(f) PROVE ConflictInv'
  BY <1>4 DEF InitHash
<1>5. CASE InitCopied
  BY <1>5 DEF InitCopied
<1>6. CASE InitFinish
  BY <1>6 DEF InitFinish, WriteLock, End, ProgressInv, InitProgress
<1>7. ASSUME NEW f \in Files, HashTemplate(f) PROVE ConflictInv'
  BY <1>7 DEF HashTemplate
<1>8. CASE HashProject
  <2> HIDE DEF ConflictInv, TypeOK, OutcomeInv
  <2> QED BY <1>8, HashProjectConflicts
<1>9. CASE Backup
  BY <1>9 DEF Backup
<1>10. CASE Copy
  BY <1>10 DEF Copy, Overwrite, ProgressInv, UpgradeProgress
<1>11. CASE Record
  BY <1>11 DEF Record, NextFile, ProgressInv, UpgradeProgress
<1>12. CASE UpgradeFinish
  BY <1>12 DEF UpgradeFinish, WriteLock, End, ProgressInv, UpgradeProgress
<1>13. CASE Stop
  BY <1>13 DEF Stop, End, Event
<1>14. CASE LoseLock
  BY <1>14 DEF LoseLock, Event
<1>15. ASSUME NEW f \in Files, UserEdits(f) PROVE ConflictInv'
  BY <1>15 DEF UserEdits, Event
<1>16. ASSUME NEW f \in Files, Publish(f) PROVE ConflictInv'
  BY <1>16 DEF Publish, Event
<1>17. CASE UNCHANGED vars
  BY <1>17 DEF vars
<1> QED
  BY <1>1, <1>2, <1>3, <1>4, <1>5, <1>6, <1>7, <1>8,
     <1>9, <1>10, <1>11, <1>12, <1>13, <1>14, <1>15, <1>16, <1>17
     DEF Next, InitStep, UpgradeStep, World

\* The invariant holds at the start and is inductive.
THEOREM Inductive == Spec => []IInv
<1>1. Init => IInv
  <2> SUFFICES ASSUME Init PROVE IInv
    OBVIOUS
  <2>1. events \in 0..MaxEvents
    BY ProjectUpgradeAssumption DEF Init
  <2>2. force \in BOOLEAN /\ dry \in BOOLEAN /\ late \in BOOLEAN /\ quiet \in BOOLEAN
    BY DEF Init
  <2>3. template \in Store /\ disk \in Store /\ lock \in Store /\ baseline \in Store
    BY DEF Init, Store, Nothing
  <2>4. saved \in [Files -> SUBSET Contents]
    BY DEF Init
  <2>5. TypeOK
    BY <2>1, <2>2, <2>3, <2>4 DEF Init, TypeOK, PCs
  <2>6. CopyInv /\ OutcomeInv /\ ProgressInv /\ ConflictInv
    BY DEF Init, CopyInv, OutcomeInv, ProgressInv, ConflictInv
  <2> QED BY <2>5, <2>6 DEF IInv
<1>2. IInv /\ [Next]_vars => IInv'
  BY TypeStep, CopyStep, OutcomeStep, ProgressStep, ConflictStep DEF IInv
<1> QED BY <1>1, <1>2, PTL DEF Spec

\* Every variable keeps its type.
THEOREM TypeCorrect == Spec => []TypeOK
<1>1. IInv => TypeOK
  BY DEF IInv
<1> QED BY Inductive, <1>1, PTL

\* No upgrade destroys, unsaved and unseen, what the user wrote into a file the
\* lock knows.
THEOREM EditsSurvive == Spec => EditsSurviveUpgrade
<1> DEFINE Kept ==
      \A f \in edited : At("copy") /\ f \notin edited' /\ disk[f] # Missing =>
        \/ disk'[f] = disk[f]
        \/ disk[f] \in saved[f]
        \/ late
        \/ baseline[f] \in {Missing, disk[f]}
<1>1. IInv /\ [Next]_vars => [Kept]_vars
  <2> SUFFICES ASSUME IInv, Next, NEW f \in edited,
                      At("copy"), f \notin edited', disk[f] # Missing
               PROVE  \/ disk[f] \in saved[f]
                      \/ late
                      \/ baseline[f] \in {Missing, disk[f]}
    OBVIOUS
  <2>1. f = file
    BY DEF Next, At, InitBegin, UpgradeBegin, Start, InitStep, InitCopy, InitHash, InitCopied,
           InitFinish, UpgradeStep, HashTemplate, HashProject, Backup, Copy, Overwrite, Record,
           UpgradeFinish, End, World, Stop, LoseLock, UserEdits, Publish
  <2> QED BY <2>1 DEF IInv, CopyInv, At
<1> QED BY Inductive, <1>1, PTL DEF Spec, EditsSurviveUpgrade

\* An undisturbed init or upgrade that succeeds leaves project and lock equal to
\* the template.
THEOREM SuccessConverges == Spec => []QuietSuccessConverges
<1>1. IInv => QuietSuccessConverges
  BY DEF IInv, ProgressInv, QuietSuccessConverges
<1> QED BY Inductive, <1>1, PTL

\* The conflicts an undisturbed upgrade reports are those the next one would find.
THEOREM ConflictsExact == Spec => []QuietConflictsExact
<1>1. IInv => QuietConflictsExact
  BY DEF IInv, ConflictInv, QuietConflictsExact
<1> QED BY Inductive, <1>1, PTL

\* A dry run writes neither a file nor a backup nor the lock.
THEOREM DryRunsWriteNothing == Spec => DryRunWritesNothing
<1>1. IInv /\ [Next]_vars =>
        [dry /\ ~At("idle") /\ UpgradeStep => UNCHANGED <<disk, saved, lock>>]_vars
  <2> SUFFICES ASSUME IInv, dry, UpgradeStep PROVE UNCHANGED <<disk, saved, lock>>
    OBVIOUS
  <2>1. pc \notin {"backup", "copy"}
    BY DEF IInv, OutcomeInv
  <2> QED BY <2>1 DEF UpgradeStep, At, HashTemplate, HashProject, Backup, Copy, Record,
                      UpgradeFinish, End, project
<1> QED BY Inductive, <1>1, PTL DEF Spec, DryRunWritesNothing
===============================================================================
