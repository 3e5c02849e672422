------------------------- MODULE CapsuleReleaseProofs -------------------------
(***************************************************************************)
(* What compile, release and verify guarantee for any number of commands,   *)
(* however their file operations mix and wherever one of them dies.         *)
(***************************************************************************)
EXTENDS CapsuleRelease, TLAPS

\* Where p can be, what it knows there, and how far its sequences have come.
PhaseOf(p) ==
  /\ pc[p] = "idle" => claw[p] = NoVersion
  /\ pc[p] \in {"idle", "parse", "lock"} => ~clean[p]
  /\ pc[p] = "lock" => claw[p] \in Versions
  /\ pc[p] \notin {"idle", "parse", "lock", "stopped"} => id[p] \in Capsules
  /\ clean[p] => id[p] \in Capsules
  /\ pc[p] \in {"truncate", "fill", "open", "copy"} => step[p] \in 0..3
  /\ pc[p] \in {"create", "publish"} => step[p] \in 0..4
  /\ pc[p] \notin {"truncate", "fill", "open", "copy", "create", "publish", "stopped"} => step[p] = 0
  /\ pc[p] \in {"load", "check", "open", "copy", "key", "genkey", "savekey", "create", "publish"}
       => job[p] = "release"
  /\ pc[p] \in {"create", "publish"} \/ (pc[p] = "done" /\ job[p] = "release") => signer[p] \in Procs
  /\ touched[p] # {} => pc[p] = "done"

PhaseInv == \A p \in Procs : PhaseOf(p)

\* The documents p has written, as far as it has come.
Wrote(p, d) ==
  \/ pc[p] \notin {"truncate", "fill", "stopped"}
  \/ pc[p] \in {"truncate", "fill"} /\ \E i \in 1..step[p] : d = WriteOrder[i]

CleanOf(p) == clean[p] => \A d \in Docs : Wrote(p, d) => caps[id[p]][d] = "ok"
CleanInv == \A p \in Procs : CleanOf(p)

\* A capsule that p has loaded holds what it should, or another command is writing it.
LoadedOf(p) ==
  Copying(p) => \A d \in Digested :
    caps[id[p]][d] = "ok" \/ (raced[p] /\ caps[id[p]][d] = "torn")
LoadedInv == \A p \in Procs : LoadedOf(p)

Copied(p, d) ==
  \/ pc[p] \in {"key", "genkey", "savekey", "create", "publish"}
  \/ pc[p] = "done" /\ job[p] = "release"
  \/ pc[p] \in {"open", "copy"} /\ \E i \in 1..step[p] : d = CopyOrder[i]

\* So does its copy, as far as it goes.
CopyOf(p) ==
  \A d \in Digested : Copied(p, d) /\ d \notin touched[p] =>
    copy[p][d] = "ok" \/ (raced[p] /\ copy[p][d] = "torn")
CopyInv == \A p \in Procs : CopyOf(p)

Published(p, a) ==
  \/ pc[p] = "done" /\ job[p] = "release"
  \/ pc[p] \in {"create", "publish"} /\ \E i \in 1..step[p] : a = ArtifactOrder[i]

\* A strict release has passed the checks, what it published is its own, its
\* signature comes last, and what was altered stays altered.
ArtifactsOf(p) ==
  /\ pc[p] \in {"open", "copy", "key", "genkey", "savekey", "create", "publish"}
       \/ (pc[p] = "done" /\ job[p] = "release") => Acceptable(p)
  /\ \A a \in Artifacts : Published(p, a) /\ a \notin touched[p] => arts[p][a] = Content(p, a)
  /\ pc[p] # "done" => arts[p]["signature"] \in {"absent", "torn"}
  /\ pc[p] = "done" /\ job[p] = "compile" => arts[p]["signature"] \in {"absent", "torn"}
  /\ \A d \in Docs \cap touched[p] : copy[p][d] = "altered"
  /\ \A a \in Artifacts \cap touched[p] : arts[p][a] = "altered"
ArtifactInv == \A p \in Procs : ArtifactsOf(p)

IInv == TypeOK /\ PhaseInv /\ CleanInv /\ LoadedInv /\ CopyInv /\ ArtifactInv

-------------------------------------------------------------------------------

\* The sequences, element by element.
LEMMA OrderFacts ==
  /\ Len(WriteOrder) = 4 /\ Len(CopyOrder) = 4 /\ Len(ArtifactOrder) = 5
  /\ WriteOrder[1] = "manifest" /\ WriteOrder[2] = "ir" /\ WriteOrder[3] = "source"
  /\ WriteOrder[4] = "portable"
  /\ CopyOrder[1] = "portable" /\ CopyOrder[2] = "ir" /\ CopyOrder[3] = "source"
  /\ CopyOrder[4] = "manifest"
  /\ ArtifactOrder[1] = "public_key" /\ ArtifactOrder[2] = "release"
  /\ ArtifactOrder[3] = "provenance" /\ ArtifactOrder[4] = "attestation"
  /\ ArtifactOrder[5] = "signature"
BY DEF WriteOrder, CopyOrder, ArtifactOrder

\* No file comes twice in a sequence.
LEMMA OrderDistinct ==
  /\ \A i, j \in 1..4 : i # j => WriteOrder[i] # WriteOrder[j] /\ CopyOrder[i] # CopyOrder[j]
  /\ \A i, j \in 1..5 : i # j => ArtifactOrder[i] # ArtifactOrder[j]
BY OrderFacts

\* The next file of a sequence is one of its files.
LEMMA NextDocFacts ==
  ASSUME NEW p \in Procs
  PROVE  /\ step[p] \in 0..3 => NextDoc(p, WriteOrder) \in Docs /\ NextDoc(p, CopyOrder) \in Docs
         /\ step[p] \in 0..4 => NextDoc(p, ArtifactOrder) \in Artifacts
BY OrderFacts DEF NextDoc, Docs, Artifacts

\* Advance moves on within the sequence or starts the next from zero.
LEMMA AdvanceFacts ==
  ASSUME TypeOK, NEW p \in Procs, NEW n \in 1..5, NEW order, Len(order) = n,
         NEW again \in PCs, NEW after \in PCs, step[p] \in 0..(n - 1),
         Advance(p, order, again, after)
  PROVE  /\ step' \in [Procs -> 0..Len(ArtifactOrder)] /\ pc' \in [Procs -> PCs]
         /\ \A q \in Procs \ {p} : step'[q] = step[q] /\ pc'[q] = pc[q]
         /\ \/ step[p] + 1 < n /\ step'[p] = step[p] + 1 /\ pc'[p] = again
            \/ step[p] + 1 = n /\ step'[p] = 0 /\ pc'[p] = after
<1>1. step \in [Procs -> 0..5] /\ pc \in [Procs -> PCs]
  BY OrderFacts DEF TypeOK
<1>2. CASE step[p] + 1 < n
  <2>1. step' = [step EXCEPT ![p] = @ + 1] /\ pc' = [pc EXCEPT ![p] = again]
    BY <1>2 DEF Advance, Goto
  <2>2. step[p] + 1 \in 0..5
    BY <1>1, <1>2
  <2> QED BY <1>1, <1>2, <2>1, <2>2, OrderFacts
<1>3. CASE ~(step[p] + 1 < n)
  <2>1. step' = [step EXCEPT ![p] = 0] /\ pc' = [pc EXCEPT ![p] = after]
    BY <1>3 DEF Advance, Goto
  <2>2. step[p] + 1 = n
    BY <1>1, <1>3
  <2> QED BY <1>1, <2>1, <2>2, OrderFacts
<1> QED BY <1>2, <1>3

\* An interference uses up one event.
LEMMA EventFacts == TypeOK /\ Event => events' \in 0..MaxEvents
BY CapsuleReleaseAssumption DEF TypeOK, Event

\* The three steps that work through a sequence, spelled out.
LEMMA FillEffect ==
  ASSUME TypeOK, PhaseInv, NEW p \in Procs, Fill(p)
  PROVE  /\ pc[p] = "fill" /\ id[p] \in Capsules /\ step[p] \in 0..3
         /\ NextDoc(p, WriteOrder) \in Docs
         /\ caps' = [caps EXCEPT ![id[p]][NextDoc(p, WriteOrder)] = "ok"]
         /\ step' \in [Procs -> 0..Len(ArtifactOrder)] /\ pc' \in [Procs -> PCs]
         /\ \A q \in Procs \ {p} : step'[q] = step[q] /\ pc'[q] = pc[q]
         /\ \/ step[p] \in 0..2 /\ step'[p] = step[p] + 1 /\ pc'[p] = "truncate"
            \/ step[p] = 3 /\ step'[p] = 0 /\ pc'[p] = IF job[p] = "compile" THEN "done" ELSE "load"
         /\ UNCHANGED <<source, key, job, strict, claw, id, signer, copy, arts, clean, raced, touched, events>>
<1> DEFINE after == IF job[p] = "compile" THEN "done" ELSE "load"
<1>1. pc[p] = "fill" /\ id[p] \in Capsules /\ step[p] \in 0..3
  BY DEF Fill, At, PhaseInv, PhaseOf
<1>2. Advance(p, WriteOrder, "truncate", after)
  BY DEF Fill
<1>3. "truncate" \in PCs /\ after \in PCs
  BY DEF PCs
<1> HIDE DEF after
<1>4. /\ step' \in [Procs -> 0..Len(ArtifactOrder)] /\ pc' \in [Procs -> PCs]
      /\ \A q \in Procs \ {p} : step'[q] = step[q] /\ pc'[q] = pc[q]
      /\ \/ step[p] + 1 < 4 /\ step'[p] = step[p] + 1 /\ pc'[p] = "truncate"
         \/ step[p] + 1 = 4 /\ step'[p] = 0 /\ pc'[p] = after
  BY <1>1, <1>2, <1>3, OrderFacts, AdvanceFacts
<1> QED BY <1>1, <1>4, NextDocFacts DEF Fill, after, store, history

LEMMA CopyDocEffect ==
  ASSUME TypeOK, PhaseInv, NEW p \in Procs, CopyDoc(p)
  PROVE  /\ pc[p] = "copy" /\ id[p] \in Capsules /\ step[p] \in 0..3
         /\ NextDoc(p, CopyOrder) \in Docs
         /\ copy' = [copy EXCEPT ![p][NextDoc(p, CopyOrder)] = caps[id[p]][NextDoc(p, CopyOrder)]]
         /\ step' \in [Procs -> 0..Len(ArtifactOrder)] /\ pc' \in [Procs -> PCs]
         /\ \A q \in Procs \ {p} : step'[q] = step[q] /\ pc'[q] = pc[q]
         /\ \/ step[p] \in 0..2 /\ step'[p] = step[p] + 1 /\ pc'[p] = "open"
            \/ step[p] = 3 /\ step'[p] = 0 /\ pc'[p] = "key"
         /\ UNCHANGED <<source, caps, key, job, strict, claw, id, signer, arts, clean, raced, touched, events>>
<1>1. pc[p] = "copy" /\ id[p] \in Capsules /\ step[p] \in 0..3
  BY DEF CopyDoc, At, PhaseInv, PhaseOf
<1>2. Advance(p, CopyOrder, "open", "key")
  BY DEF CopyDoc
<1>3. "open" \in PCs /\ "key" \in PCs
  BY DEF PCs
<1>4. /\ step' \in [Procs -> 0..Len(ArtifactOrder)] /\ pc' \in [Procs -> PCs]
      /\ \A q \in Procs \ {p} : step'[q] = step[q] /\ pc'[q] = pc[q]
      /\ \/ step[p] + 1 < 4 /\ step'[p] = step[p] + 1 /\ pc'[p] = "open"
         \/ step[p] + 1 = 4 /\ step'[p] = 0 /\ pc'[p] = "key"
  BY <1>1, <1>2, <1>3, OrderFacts, AdvanceFacts
<1> QED BY <1>1, <1>4, NextDocFacts DEF CopyDoc, store, history

LEMMA PublishEffect ==
  ASSUME TypeOK, PhaseInv, NEW p \in Procs, Publish(p)
  PROVE  /\ pc[p] = "publish" /\ signer[p] \in Procs /\ step[p] \in 0..4
         /\ NextDoc(p, ArtifactOrder) \in Artifacts
         /\ arts' = [arts EXCEPT ![p][NextDoc(p, ArtifactOrder)] = Content(p, NextDoc(p, ArtifactOrder))]
         /\ step' \in [Procs -> 0..Len(ArtifactOrder)] /\ pc' \in [Procs -> PCs]
         /\ \A q \in Procs \ {p} : step'[q] = step[q] /\ pc'[q] = pc[q]
         /\ \/ step[p] \in 0..3 /\ step'[p] = step[p] + 1 /\ pc'[p] = "create"
            \/ step[p] = 4 /\ step'[p] = 0 /\ pc'[p] = "done"
         /\ UNCHANGED <<source, caps, key, job, strict, claw, id, signer, copy, clean, raced, touched, events>>
<1>1. pc[p] = "publish" /\ signer[p] \in Procs /\ step[p] \in 0..4
  BY DEF Publish, At, PhaseInv, PhaseOf
<1>2. Advance(p, ArtifactOrder, "create", "done")
  BY DEF Publish
<1>3. "create" \in PCs /\ "done" \in PCs
  BY DEF PCs
<1>4. /\ step' \in [Procs -> 0..Len(ArtifactOrder)] /\ pc' \in [Procs -> PCs]
      /\ \A q \in Procs \ {p} : step'[q] = step[q] /\ pc'[q] = pc[q]
      /\ \/ step[p] + 1 < 5 /\ step'[p] = step[p] + 1 /\ pc'[p] = "create"
         \/ step[p] + 1 = 5 /\ step'[p] = 0 /\ pc'[p] = "done"
  BY <1>1, <1>2, <1>3, OrderFacts, AdvanceFacts
<1> QED BY <1>1, <1>4, NextDocFacts DEF Publish, store, history

\* An alteration, spelled out.
LEMMA AlterEffect ==
  ASSUME TypeOK, NEW p \in Procs, Alter(p)
  PROVE  /\ copy' \in [Procs -> [Docs -> FileState]]
         /\ arts' \in [Procs -> [Artifacts -> FileState \cup Procs]]
         /\ \E x \in Docs \cup Artifacts \cup {"padding"} :
              /\ touched' = [touched EXCEPT ![p] = @ \cup {x}]
              /\ \A q \in Procs, d \in Docs :
                   copy'[q][d] = IF q = p /\ d = x THEN "altered" ELSE copy[q][d]
              /\ \A q \in Procs, a \in Artifacts :
                   arts'[q][a] = IF q = p /\ a = x THEN "altered" ELSE arts[q][a]
<1> PICK x \in Docs \cup Artifacts \cup {"padding"} :
      /\ touched' = [touched EXCEPT ![p] = @ \cup {x}]
      /\ copy' = IF x \in Docs THEN [copy EXCEPT ![p][x] = "altered"] ELSE copy
      /\ arts' = IF x \in Artifacts THEN [arts EXCEPT ![p][x] = "altered"] ELSE arts
  BY DEF Alter
<1>1. copy \in [Procs -> [Docs -> FileState]] /\ arts \in [Procs -> [Artifacts -> FileState \cup Procs]]
  BY DEF TypeOK
<1>2. "altered" \in FileState /\ "altered" \in FileState \cup Procs
  BY DEF FileState
<1>3. copy' \in [Procs -> [Docs -> FileState]] /\ arts' \in [Procs -> [Artifacts -> FileState \cup Procs]]
  BY <1>1, <1>2
<1>4. \A q \in Procs, d \in Docs : copy'[q][d] = IF q = p /\ d = x THEN "altered" ELSE copy[q][d]
  BY <1>1
<1>5. \A q \in Procs, a \in Artifacts : arts'[q][a] = IF q = p /\ a = x THEN "altered" ELSE arts[q][a]
  BY <1>1
<1> QED BY <1>3, <1>4, <1>5

\* Every action keeps the types.
LEMMA TypeStep == TypeOK /\ PhaseInv /\ [Next]_vars => TypeOK'
<1> SUFFICES ASSUME TypeOK, PhaseInv, [Next]_vars PROVE TypeOK'
  OBVIOUS
<1>a. Len(ArtifactOrder) = 5
  BY OrderFacts
<1> USE CapsuleReleaseAssumption, <1>a DEF TypeOK, At, Goto, Return, store, own, history
<1>1. ASSUME NEW p \in Procs, StartClaw(p) PROVE TypeOK'
  BY <1>1 DEF StartClaw, PCs
<1>2. ASSUME NEW p \in Procs, Parse(p) PROVE TypeOK'
  BY <1>2 DEF Parse, PCs
<1>3. ASSUME NEW p \in Procs, GenerateLocks(p) PROVE TypeOK'
  <2>1. claw[p] \in Versions /\ Leftovers \in SUBSET (IF StateInTree THEN Procs ELSE {})
    BY <1>3 DEF GenerateLocks, PhaseInv, PhaseOf, Leftovers
  <2> QED BY <1>3, <2>1 DEF GenerateLocks, Capsules, PCs
<1>4. ASSUME NEW p \in Procs, Truncate(p) PROVE TypeOK'
  <2>1. step[p] \in 0..3 /\ id[p] \in Capsules
    BY <1>4 DEF Truncate, PhaseInv, PhaseOf
  <2> QED BY <1>4, <2>1, NextDocFacts DEF Truncate, PCs
<1>5. ASSUME NEW p \in Procs, Fill(p) PROVE TypeOK'
  BY <1>5, FillEffect DEF Fill
<1>6. ASSUME NEW p \in Procs, StartCapsule(p) PROVE TypeOK'
  BY <1>6 DEF StartCapsule, PCs
<1>7. ASSUME NEW p \in Procs, Load(p) PROVE TypeOK'
  BY <1>7 DEF Load, PCs
<1>8. ASSUME NEW p \in Procs, Check(p) PROVE TypeOK'
  BY <1>8 DEF Check, PCs
<1>9. ASSUME NEW p \in Procs, CopyDoc(p) PROVE TypeOK'
  <2>1. caps[id[p]][NextDoc(p, CopyOrder)] \in FileState
    BY <1>9, CopyDocEffect DEF FileState
  <2>2. copy' \in [Procs -> [Docs -> FileState]]
    <3>1. copy \in [Procs -> [Docs -> FileState]]
      OBVIOUS
    <3> DEFINE d == NextDoc(p, CopyOrder)
               c == caps[id[p]][d]
    <3>2. d \in Docs /\ c \in FileState /\ copy' = [copy EXCEPT ![p][d] = c]
      BY <1>9, <2>1, CopyDocEffect
    <3> HIDE DEF TypeOK, c, d
    <3> QED BY <3>1, <3>2
  <2> QED BY <1>9, <2>2, CopyDocEffect DEF CopyDoc
<1>10. ASSUME NEW p \in Procs, ReadKey(p) PROVE TypeOK'
  <2>1. pc' \in [Procs -> PCs]
    <3>1. pc \in [Procs -> PCs] /\ \E to \in {"genkey", "failed", "create"} : pc' = [pc EXCEPT ![p] = to]
      BY <1>10 DEF ReadKey
    <3> HIDE DEF TypeOK
    <3> QED BY <3>1 DEF PCs
  <2>2. signer' \in [Procs -> Procs \cup {"none"}]
    <3>1. /\ signer \in [Procs -> Procs \cup {"none"}]
          /\ signer' = signer \/ (key \in Procs /\ signer' = [signer EXCEPT ![p] = key])
      BY <1>10 DEF ReadKey
    <3> HIDE DEF TypeOK
    <3> QED BY <3>1
  <2> QED BY <1>10, <2>1, <2>2 DEF ReadKey
<1>11. ASSUME NEW p \in Procs, TruncateKey(p) PROVE TypeOK'
  BY <1>11 DEF TruncateKey, PCs
<1>12. ASSUME NEW p \in Procs, SaveKey(p) PROVE TypeOK'
  BY <1>12 DEF SaveKey, PCs
<1>13. ASSUME NEW p \in Procs, Publish(p) PROVE TypeOK'
  <2>1. Content(p, NextDoc(p, ArtifactOrder)) \in FileState \cup Procs
    BY <1>13, PublishEffect DEF Content, FileState
  <2> QED BY <1>13, <2>1, PublishEffect DEF Publish
<1>14. ASSUME NEW p \in Procs, Stop(p) PROVE TypeOK'
  BY <1>14, EventFacts DEF Stop, PCs
<1>15. ASSUME NEW p \in Procs, Alter(p) PROVE TypeOK'
  <2>1. copy' \in [Procs -> [Docs -> FileState]] /\ arts' \in [Procs -> [Artifacts -> FileState \cup Procs]]
    BY <1>15, AlterEffect
  <2> QED BY <1>15, <2>1, EventFacts DEF Alter
<1>16. CASE EditSource
  BY <1>16, EventFacts DEF EditSource
<1>17. CASE UNCHANGED vars
  BY <1>17 DEF vars
<1>18. ASSUME NEW p \in Procs, OpenCopy(p) PROVE TypeOK'
  <2>1. NextDoc(p, CopyOrder) \in Docs /\ "torn" \in FileState
    BY <1>18, NextDocFacts DEF OpenCopy, PhaseInv, PhaseOf, FileState
  <2> QED BY <1>18, <2>1 DEF OpenCopy, PCs
<1>19. ASSUME NEW p \in Procs, CreateArtifact(p) PROVE TypeOK'
  <2>1. NextDoc(p, ArtifactOrder) \in Artifacts /\ "torn" \in FileState \cup Procs
    BY <1>19, NextDocFacts DEF CreateArtifact, PhaseInv, PhaseOf, FileState
  <2> QED BY <1>19, <2>1 DEF CreateArtifact, PCs
<1> QED
  BY <1>1, <1>2, <1>3, <1>4, <1>5, <1>6, <1>7, <1>8, <1>9, <1>10, <1>11, <1>12, <1>13, <1>14,
     <1>15, <1>16, <1>17, <1>18, <1>19
     DEF Next, Compile, Create, Rest

\* A process goes from phase to phase as the code does.
LEMMA PhaseStep == TypeOK /\ PhaseInv /\ [Next]_vars => PhaseInv'
<1> SUFFICES ASSUME TypeOK, PhaseInv, [Next]_vars, NEW q \in Procs PROVE PhaseOf(q)'
  BY DEF PhaseInv
<1>a. PhaseOf(q) /\ Len(ArtifactOrder) = 5
  BY OrderFacts DEF PhaseInv
<1> USE CapsuleReleaseAssumption, <1>a DEF TypeOK, PhaseOf, At, Goto, Return, store, own, history
<1>1. ASSUME NEW p \in Procs, StartClaw(p) PROVE PhaseOf(q)'
  BY <1>1 DEF StartClaw
<1>2. ASSUME NEW p \in Procs, Parse(p) PROVE PhaseOf(q)'
  BY <1>2 DEF Parse
<1>3. ASSUME NEW p \in Procs, GenerateLocks(p) PROVE PhaseOf(q)'
  <2>1. claw[p] \in Versions /\ Leftovers \in SUBSET (IF StateInTree THEN Procs ELSE {})
    BY <1>3 DEF GenerateLocks, PhaseInv, Leftovers
  <2>2. [ir |-> claw[p], source |-> source, leftovers |-> Leftovers] \in Capsules
    BY <2>1 DEF Capsules
  <2> QED BY <1>3, <2>2 DEF GenerateLocks
<1>4. ASSUME NEW p \in Procs, Truncate(p) PROVE PhaseOf(q)'
  BY <1>4 DEF Truncate
<1>5. ASSUME NEW p \in Procs, Fill(p) PROVE PhaseOf(q)'
  BY <1>5, FillEffect
<1>6. ASSUME NEW p \in Procs, StartCapsule(p) PROVE PhaseOf(q)'
  BY <1>6 DEF StartCapsule
<1>7. ASSUME NEW p \in Procs, Load(p) PROVE PhaseOf(q)'
  BY <1>7 DEF Load
<1>8. ASSUME NEW p \in Procs, Check(p) PROVE PhaseOf(q)'
  BY <1>8 DEF Check
<1>9. ASSUME NEW p \in Procs, CopyDoc(p) PROVE PhaseOf(q)'
  BY <1>9, CopyDocEffect
<1>10. ASSUME NEW p \in Procs, ReadKey(p) PROVE PhaseOf(q)'
  BY <1>10 DEF ReadKey
<1>11. ASSUME NEW p \in Procs, TruncateKey(p) PROVE PhaseOf(q)'
  BY <1>11 DEF TruncateKey
<1>12. ASSUME NEW p \in Procs, SaveKey(p) PROVE PhaseOf(q)'
  BY <1>12 DEF SaveKey
<1>13. ASSUME NEW p \in Procs, Publish(p) PROVE PhaseOf(q)'
  BY <1>13, PublishEffect
<1>14. ASSUME NEW p \in Procs, Stop(p) PROVE PhaseOf(q)'
  BY <1>14 DEF Stop
<1>15. ASSUME NEW p \in Procs, Alter(p) PROVE PhaseOf(q)'
  BY <1>15 DEF Alter
<1>16. CASE EditSource
  BY <1>16 DEF EditSource
<1>17. CASE UNCHANGED vars
  BY <1>17 DEF vars
<1>18. ASSUME NEW p \in Procs, OpenCopy(p) PROVE PhaseOf(q)'
  BY <1>18, NextDocFacts DEF OpenCopy
<1>19. ASSUME NEW p \in Procs, CreateArtifact(p) PROVE PhaseOf(q)'
  BY <1>19, NextDocFacts DEF CreateArtifact
<1> QED
  BY <1>1, <1>2, <1>3, <1>4, <1>5, <1>6, <1>7, <1>8, <1>9, <1>10, <1>11, <1>12, <1>13, <1>14,
     <1>15, <1>16, <1>17, <1>18, <1>19
     DEF Next, Compile, Create, Rest

\* What a process has written stays, as long as no other writes there.
LEMMA CleanStep == TypeOK /\ PhaseInv /\ CleanInv /\ [Next]_vars => CleanInv'
<1> SUFFICES ASSUME TypeOK, PhaseInv, CleanInv, [Next]_vars, NEW q \in Procs PROVE CleanOf(q)'
  BY DEF CleanInv
<1>a. PhaseOf(q) /\ CleanOf(q)
  BY DEF PhaseInv, CleanInv
<1> USE CapsuleReleaseAssumption, <1>a, OrderFacts
    DEF TypeOK, PhaseOf, CleanOf, Wrote, Docs, At, Goto, Return, store, own, history
<1>1. ASSUME NEW p \in Procs, StartClaw(p) PROVE CleanOf(q)'
  BY <1>1 DEF StartClaw
<1>2. ASSUME NEW p \in Procs, Parse(p) PROVE CleanOf(q)'
  BY <1>2 DEF Parse
<1>3. ASSUME NEW p \in Procs, GenerateLocks(p) PROVE CleanOf(q)'
  BY <1>3 DEF GenerateLocks
<1>4. ASSUME NEW p \in Procs, Truncate(p) PROVE CleanOf(q)'
  <2> DEFINE f == NextDoc(p, WriteOrder)
  <2>1. id[p] \in Capsules /\ f \in Docs /\ pc[p] = "truncate" /\ step[p] \in 0..3
    BY <1>4, NextDocFacts DEF Truncate, PhaseInv
  <2>2. \A c \in Capsules, e \in Docs : caps'[c][e] = IF c = id[p] /\ e = f THEN "torn" ELSE caps[c][e]
    BY <1>4, <2>1 DEF Truncate
  <2>3. id' = id /\ (clean'[q] => clean[q] /\ (q = p \/ id[q] # id[p]))
    BY <1>4 DEF Truncate
  <2>4. CASE q # p
    <3>1. \A e \in Docs : Wrote(q, e)' => Wrote(q, e)
      BY <1>4, <2>4 DEF Truncate
    <3> QED BY <2>2, <2>3, <2>4, <3>1
  <2>5. CASE q = p
    <3>1. pc'[p] = "fill" /\ step' = step
      BY <1>4 DEF Truncate
    <3>2. ASSUME NEW e \in Docs, Wrote(p, e)' PROVE e # f /\ Wrote(p, e)
      <4>1. PICK i \in 1..step[p] : e = WriteOrder[i]
        BY <3>1, <3>2
      <4>2. step[p] + 1 \in 1..4 /\ i \in 1..4 /\ i # step[p] + 1
        BY <2>1
      <4> QED BY <2>1, <4>1, <4>2, OrderDistinct DEF NextDoc
    <3> QED BY <2>1, <2>2, <2>3, <2>5, <3>2
  <2> QED BY <2>4, <2>5
<1>5. ASSUME NEW p \in Procs, Fill(p) PROVE CleanOf(q)'
  <2> DEFINE d == NextDoc(p, WriteOrder)
  <2>1. id[p] \in Capsules /\ d \in Docs /\ id' = id /\ clean' = clean
    BY <1>5, FillEffect
  <2>2. \A c \in Capsules, e \in Docs : caps'[c][e] = IF c = id[p] /\ e = d THEN "ok" ELSE caps[c][e]
    BY <1>5, <2>1, FillEffect
  <2>3. CASE q # p
    BY <1>5, <2>1, <2>2, <2>3, FillEffect
  <2>4. CASE q = p
    <3>1. ASSUME NEW e \in Docs, Wrote(p, e)' PROVE e = d \/ Wrote(p, e)
      <4>1. step[p] \in 0..2 /\ step'[p] = step[p] + 1 => e = WriteOrder[step[p] + 1] \/ Wrote(p, e)
        BY <1>5, <3>1, FillEffect
      <4>2. step[p] = 3 => \E i \in 1..4 : e = WriteOrder[i]
        OBVIOUS
      <4>3. step[p] = 3 => e = d \/ Wrote(p, e)
        BY <1>5, <4>2, FillEffect DEF NextDoc
      <4> QED BY <1>5, <4>1, <4>3, FillEffect DEF NextDoc
    <3> QED BY <2>1, <2>2, <2>4, <3>1
  <2> QED BY <2>3, <2>4
<1>6. ASSUME NEW p \in Procs, StartCapsule(p) PROVE CleanOf(q)'
  BY <1>6 DEF StartCapsule
<1>7. ASSUME NEW p \in Procs, Load(p) PROVE CleanOf(q)'
  BY <1>7 DEF Load
<1>8. ASSUME NEW p \in Procs, Check(p) PROVE CleanOf(q)'
  BY <1>8 DEF Check
<1>9. ASSUME NEW p \in Procs, CopyDoc(p) PROVE CleanOf(q)'
  BY <1>9, CopyDocEffect
<1>10. ASSUME NEW p \in Procs, ReadKey(p) PROVE CleanOf(q)'
  BY <1>10 DEF ReadKey
<1>11. ASSUME NEW p \in Procs, TruncateKey(p) PROVE CleanOf(q)'
  BY <1>11 DEF TruncateKey
<1>12. ASSUME NEW p \in Procs, SaveKey(p) PROVE CleanOf(q)'
  BY <1>12 DEF SaveKey
<1>13. ASSUME NEW p \in Procs, Publish(p) PROVE CleanOf(q)'
  BY <1>13, PublishEffect
<1>14. ASSUME NEW p \in Procs, Stop(p) PROVE CleanOf(q)'
  BY <1>14 DEF Stop
<1>15. ASSUME NEW p \in Procs, Alter(p) PROVE CleanOf(q)'
  BY <1>15 DEF Alter
<1>16. CASE EditSource
  BY <1>16 DEF EditSource
<1>17. CASE UNCHANGED vars
  BY <1>17 DEF vars
<1>18. ASSUME NEW p \in Procs, OpenCopy(p) PROVE CleanOf(q)'
  BY <1>18, NextDocFacts DEF OpenCopy
<1>19. ASSUME NEW p \in Procs, CreateArtifact(p) PROVE CleanOf(q)'
  BY <1>19, NextDocFacts DEF CreateArtifact
<1> QED
  BY <1>1, <1>2, <1>3, <1>4, <1>5, <1>6, <1>7, <1>8, <1>9, <1>10, <1>11, <1>12, <1>13, <1>14,
     <1>15, <1>16, <1>17, <1>18, <1>19
     DEF Next, Compile, Create, Rest

\* Between the check of a capsule and the end of its copy, only another command
\* writes it.
LEMMA LoadedStep == TypeOK /\ PhaseInv /\ LoadedInv /\ [Next]_vars => LoadedInv'
<1> SUFFICES ASSUME TypeOK, PhaseInv, LoadedInv, [Next]_vars, NEW q \in Procs PROVE LoadedOf(q)'
  BY DEF LoadedInv
<1>a. PhaseOf(q) /\ LoadedOf(q)
  BY DEF PhaseInv, LoadedInv
<1> USE CapsuleReleaseAssumption, <1>a
    DEF TypeOK, PhaseOf, LoadedOf, Copying, Docs, Digested, At, Goto, Return, store, own, history
<1>1. ASSUME NEW p \in Procs, StartClaw(p) PROVE LoadedOf(q)'
  BY <1>1 DEF StartClaw
<1>2. ASSUME NEW p \in Procs, Parse(p) PROVE LoadedOf(q)'
  BY <1>2 DEF Parse
<1>3. ASSUME NEW p \in Procs, GenerateLocks(p) PROVE LoadedOf(q)'
  BY <1>3 DEF GenerateLocks
<1>4. ASSUME NEW p \in Procs, Truncate(p) PROVE LoadedOf(q)'
  <2> DEFINE f == NextDoc(p, WriteOrder)
  <2>1. id[p] \in Capsules /\ f \in Docs /\ pc[p] = "truncate"
    BY <1>4, NextDocFacts DEF Truncate, PhaseInv
  <2>2. \A c \in Capsules, e \in Docs : caps'[c][e] = IF c = id[p] /\ e = f THEN "torn" ELSE caps[c][e]
    BY <1>4, <2>1 DEF Truncate
  <2>3. id' = id /\ (raced[q] \/ (Copying(q) /\ id[q] = id[p]) => raced'[q])
    BY <1>4 DEF Truncate
  <2>4. Copying(q)' => Copying(q)
    BY <1>4, <2>1 DEF Truncate
  <2> SUFFICES ASSUME Copying(q)', NEW d \in Digested
               PROVE  caps'[id[q]][d] = "ok" \/ (raced'[q] /\ caps'[id[q]][d] = "torn")
    BY <2>3
  <2>5. id[q] \in Capsules /\ d \in Docs /\ (caps[id[q]][d] = "ok" \/ (raced[q] /\ caps[id[q]][d] = "torn"))
    BY <2>4
  <2>6. CASE id[q] = id[p] /\ d = f
    BY <2>2, <2>3, <2>4, <2>5, <2>6
  <2>7. CASE ~(id[q] = id[p] /\ d = f)
    BY <2>2, <2>3, <2>5, <2>7
  <2> QED BY <2>6, <2>7
<1>5. ASSUME NEW p \in Procs, Fill(p) PROVE LoadedOf(q)'
  <2> DEFINE f == NextDoc(p, WriteOrder)
  <2>1. id[p] \in Capsules /\ f \in Docs /\ id' = id /\ raced' = raced
    BY <1>5, FillEffect
  <2>2. \A c \in Capsules, e \in Docs : caps'[c][e] = IF c = id[p] /\ e = f THEN "ok" ELSE caps[c][e]
    BY <1>5, <2>1, FillEffect
  <2>3. Copying(q)' => Copying(q)
    BY <1>5, FillEffect
  <2> QED BY <2>1, <2>2, <2>3
<1>6. ASSUME NEW p \in Procs, StartCapsule(p) PROVE LoadedOf(q)'
  BY <1>6 DEF StartCapsule
<1>7. ASSUME NEW p \in Procs, Load(p) PROVE LoadedOf(q)'
  BY <1>7 DEF Load, Loads
<1>8. ASSUME NEW p \in Procs, Check(p) PROVE LoadedOf(q)'
  BY <1>8 DEF Check
<1>9. ASSUME NEW p \in Procs, CopyDoc(p) PROVE LoadedOf(q)'
  BY <1>9, CopyDocEffect
<1>10. ASSUME NEW p \in Procs, ReadKey(p) PROVE LoadedOf(q)'
  BY <1>10 DEF ReadKey
<1>11. ASSUME NEW p \in Procs, TruncateKey(p) PROVE LoadedOf(q)'
  BY <1>11 DEF TruncateKey
<1>12. ASSUME NEW p \in Procs, SaveKey(p) PROVE LoadedOf(q)'
  BY <1>12 DEF SaveKey
<1>13. ASSUME NEW p \in Procs, Publish(p) PROVE LoadedOf(q)'
  BY <1>13, PublishEffect
<1>14. ASSUME NEW p \in Procs, Stop(p) PROVE LoadedOf(q)'
  BY <1>14 DEF Stop
<1>15. ASSUME NEW p \in Procs, Alter(p) PROVE LoadedOf(q)'
  BY <1>15 DEF Alter
<1>16. CASE EditSource
  BY <1>16 DEF EditSource
<1>17. CASE UNCHANGED vars
  BY <1>17 DEF vars
<1>18. ASSUME NEW p \in Procs, OpenCopy(p) PROVE LoadedOf(q)'
  BY <1>18 DEF OpenCopy
<1>19. ASSUME NEW p \in Procs, CreateArtifact(p) PROVE LoadedOf(q)'
  BY <1>19 DEF CreateArtifact
<1> QED
  BY <1>1, <1>2, <1>3, <1>4, <1>5, <1>6, <1>7, <1>8, <1>9, <1>10, <1>11, <1>12, <1>13, <1>14,
     <1>15, <1>16, <1>17, <1>18, <1>19
     DEF Next, Compile, Create, Rest

\* The copy of a capsule nobody else has written is whole as far as it goes.
LEMMA CopyStep == TypeOK /\ PhaseInv /\ LoadedInv /\ CopyInv /\ [Next]_vars => CopyInv'
<1> SUFFICES ASSUME TypeOK, PhaseInv, LoadedInv, CopyInv, [Next]_vars, NEW q \in Procs
             PROVE  CopyOf(q)'
  BY DEF CopyInv
<1>a. PhaseOf(q) /\ LoadedOf(q) /\ CopyOf(q)
  BY DEF PhaseInv, LoadedInv, CopyInv
<1> USE CapsuleReleaseAssumption, <1>a, OrderFacts
    DEF TypeOK, PhaseOf, CopyOf, Copied, Docs, Digested, At, Goto, Return, store, own, history
<1>1. ASSUME NEW p \in Procs, StartClaw(p) PROVE CopyOf(q)'
  BY <1>1 DEF StartClaw
<1>2. ASSUME NEW p \in Procs, Parse(p) PROVE CopyOf(q)'
  BY <1>2 DEF Parse
<1>3. ASSUME NEW p \in Procs, GenerateLocks(p) PROVE CopyOf(q)'
  BY <1>3 DEF GenerateLocks
<1>4. ASSUME NEW p \in Procs, Truncate(p) PROVE CopyOf(q)'
  BY <1>4 DEF Truncate
<1>5. ASSUME NEW p \in Procs, Fill(p) PROVE CopyOf(q)'
  BY <1>5, FillEffect
<1>6. ASSUME NEW p \in Procs, StartCapsule(p) PROVE CopyOf(q)'
  BY <1>6 DEF StartCapsule
<1>7. ASSUME NEW p \in Procs, Load(p) PROVE CopyOf(q)'
  BY <1>7 DEF Load
<1>8. ASSUME NEW p \in Procs, Check(p) PROVE CopyOf(q)'
  BY <1>8 DEF Check
<1>9. ASSUME NEW p \in Procs, CopyDoc(p) PROVE CopyOf(q)'
  <2> DEFINE d == NextDoc(p, CopyOrder)
  <2>1. id[p] \in Capsules /\ d \in Docs /\ id' = id /\ raced' = raced /\ touched' = touched
    BY <1>9, CopyDocEffect
  <2>2. \A r \in Procs, e \in Docs : copy'[r][e] = IF r = p /\ e = d THEN caps[id[p]][d] ELSE copy[r][e]
    BY <1>9, <2>1, CopyDocEffect
  <2>3. CASE q # p
    BY <1>9, <2>1, <2>2, <2>3, CopyDocEffect
  <2>4. CASE q = p
    <3>1. ASSUME NEW e \in Docs, Copied(p, e)' PROVE e = d \/ Copied(p, e)
      <4>1. step[p] \in 0..2 /\ step'[p] = step[p] + 1 => e = CopyOrder[step[p] + 1] \/ Copied(p, e)
        BY <1>9, <3>1, CopyDocEffect
      <4>2. step[p] = 3 => \E i \in 1..4 : e = CopyOrder[i]
        OBVIOUS
      <4>3. step[p] = 3 => e = d \/ Copied(p, e)
        BY <1>9, <4>2, CopyDocEffect DEF NextDoc
      <4> QED BY <1>9, <4>1, <4>3, CopyDocEffect DEF NextDoc
    <3>2. d \in Digested => caps[id[p]][d] = "ok" \/ (raced[p] /\ caps[id[p]][d] = "torn")
      BY <1>9, <2>1, <2>4, CopyDocEffect DEF LoadedOf, Copying
    <3> QED BY <2>1, <2>2, <2>4, <3>1, <3>2
  <2> QED BY <2>3, <2>4
<1>10. ASSUME NEW p \in Procs, ReadKey(p) PROVE CopyOf(q)'
  BY <1>10 DEF ReadKey
<1>11. ASSUME NEW p \in Procs, TruncateKey(p) PROVE CopyOf(q)'
  BY <1>11 DEF TruncateKey
<1>12. ASSUME NEW p \in Procs, SaveKey(p) PROVE CopyOf(q)'
  BY <1>12 DEF SaveKey
<1>13. ASSUME NEW p \in Procs, Publish(p) PROVE CopyOf(q)'
  BY <1>13, PublishEffect
<1>14. ASSUME NEW p \in Procs, Stop(p) PROVE CopyOf(q)'
  BY <1>14 DEF Stop
<1>15. ASSUME NEW p \in Procs, Alter(p) PROVE CopyOf(q)'
  BY <1>15, AlterEffect DEF Alter
<1>16. CASE EditSource
  BY <1>16 DEF EditSource
<1>17. CASE UNCHANGED vars
  BY <1>17 DEF vars
<1>18. ASSUME NEW p \in Procs, OpenCopy(p) PROVE CopyOf(q)'
  <2> DEFINE f == NextDoc(p, CopyOrder)
  <2>1. f \in Docs /\ step[p] \in 0..3 /\ pc[p] = "open"
    BY <1>18, NextDocFacts DEF OpenCopy, PhaseInv
  <2>2. \A r \in Procs, e \in Docs : copy'[r][e] = IF r = p /\ e = f THEN "torn" ELSE copy[r][e]
    BY <1>18, <2>1 DEF OpenCopy
  <2>3. ASSUME NEW e \in Docs, Copied(p, e)' PROVE e # f
    <3>1. PICK i \in 1..step[p] : e = CopyOrder[i]
      BY <1>18, <2>1, <2>3 DEF OpenCopy
    <3>2. step[p] + 1 \in 1..4 /\ i \in 1..4 /\ i # step[p] + 1
      BY <2>1
    <3> QED BY <3>1, <3>2, OrderDistinct DEF NextDoc
  <2>4. \A e \in Docs : Copied(q, e)' => Copied(q, e)
    BY <1>18, <2>1 DEF OpenCopy
  <2> QED BY <1>18, <2>2, <2>3, <2>4 DEF OpenCopy
<1>19. ASSUME NEW p \in Procs, CreateArtifact(p) PROVE CopyOf(q)'
  BY <1>19, NextDocFacts DEF CreateArtifact
<1> QED
  BY <1>1, <1>2, <1>3, <1>4, <1>5, <1>6, <1>7, <1>8, <1>9, <1>10, <1>11, <1>12, <1>13, <1>14,
     <1>15, <1>16, <1>17, <1>18, <1>19
     DEF Next, Compile, Create, Rest

\* What p publishes is what it should be, the signature comes last, and an
\* alteration remains.
LEMMA ArtifactStep == TypeOK /\ PhaseInv /\ ArtifactInv /\ [Next]_vars => ArtifactInv'
<1> SUFFICES ASSUME TypeOK, PhaseInv, ArtifactInv, [Next]_vars, NEW q \in Procs
             PROVE  ArtifactsOf(q)'
  BY DEF ArtifactInv
<1>a. PhaseOf(q) /\ ArtifactsOf(q)
  BY DEF PhaseInv, ArtifactInv
<1> USE CapsuleReleaseAssumption, <1>a, OrderFacts
    DEF TypeOK, PhaseOf, ArtifactsOf, Published, Content, Acceptable, Artifacts,
        At, Goto, Return, store, own, history
<1>1. ASSUME NEW p \in Procs, StartClaw(p) PROVE ArtifactsOf(q)'
  BY <1>1 DEF StartClaw
<1>2. ASSUME NEW p \in Procs, Parse(p) PROVE ArtifactsOf(q)'
  BY <1>2 DEF Parse
<1>3. ASSUME NEW p \in Procs, GenerateLocks(p) PROVE ArtifactsOf(q)'
  BY <1>3 DEF GenerateLocks
<1>4. ASSUME NEW p \in Procs, Truncate(p) PROVE ArtifactsOf(q)'
  BY <1>4 DEF Truncate
<1>5. ASSUME NEW p \in Procs, Fill(p) PROVE ArtifactsOf(q)'
  BY <1>5, FillEffect
<1>6. ASSUME NEW p \in Procs, StartCapsule(p) PROVE ArtifactsOf(q)'
  BY <1>6 DEF StartCapsule
<1>7. ASSUME NEW p \in Procs, Load(p) PROVE ArtifactsOf(q)'
  BY <1>7 DEF Load
<1>8. ASSUME NEW p \in Procs, Check(p) PROVE ArtifactsOf(q)'
  BY <1>8 DEF Check
<1>9. ASSUME NEW p \in Procs, CopyDoc(p) PROVE ArtifactsOf(q)'
  <2>1. CASE q # p
    BY <1>9, <2>1, CopyDocEffect
  <2>2. CASE q = p
    <3>1. touched[p] = {} /\ touched' = touched
      BY <1>9, CopyDocEffect DEF PhaseInv
    <3> QED BY <1>9, <2>2, <3>1, CopyDocEffect
  <2> QED BY <2>1, <2>2
<1>10. ASSUME NEW p \in Procs, ReadKey(p) PROVE ArtifactsOf(q)'
  <2>1. CASE q # p
    BY <1>10, <2>1 DEF ReadKey
  <2>2. CASE q = p
    BY <1>10, <2>2 DEF ReadKey
  <2> QED BY <2>1, <2>2
<1>11. ASSUME NEW p \in Procs, TruncateKey(p) PROVE ArtifactsOf(q)'
  BY <1>11 DEF TruncateKey
<1>12. ASSUME NEW p \in Procs, SaveKey(p) PROVE ArtifactsOf(q)'
  BY <1>12 DEF SaveKey
<1>13. ASSUME NEW p \in Procs, Publish(p) PROVE ArtifactsOf(q)'
  <2> DEFINE a == NextDoc(p, ArtifactOrder)
  <2>1. a \in Artifacts /\ signer[p] \in Procs
    BY <1>13, PublishEffect
  <2>2. \A r \in Procs, b \in Artifacts : arts'[r][b] = IF r = p /\ b = a THEN Content(p, a) ELSE arts[r][b]
    BY <1>13, <2>1, PublishEffect
  <2>3. CASE q # p
    BY <1>13, <2>1, <2>2, <2>3, PublishEffect
  <2>4. CASE q = p
    <3>1. ASSUME NEW b \in Artifacts, Published(p, b)' PROVE b = a \/ Published(p, b)
      <4>1. step[p] \in 0..3 => b = a \/ Published(p, b)
        BY <1>13, <3>1, PublishEffect DEF NextDoc
      <4>2. step[p] = 4 => \E i \in 1..5 : b = ArtifactOrder[i]
        OBVIOUS
      <4>3. step[p] = 4 => b = a \/ Published(p, b)
        BY <1>13, <4>2, PublishEffect DEF NextDoc
      <4> QED BY <1>13, <4>1, <4>3, PublishEffect
    <3>2. a = "signature" => pc'[p] = "done"
      <4>1. step[p] \in 0..3 => a # "signature"
        BY DEF NextDoc
      <4> QED BY <1>13, <4>1, PublishEffect
    <3>3. \A b \in Artifacts : Published(q, b)' /\ b \notin touched'[q] => arts'[q][b] = Content(q, b)'
      BY <1>13, <2>1, <2>2, <2>4, <3>1, PublishEffect
    <3>4. pc'[q] # "done" => arts'[q]["signature"] \in {"absent", "torn"}
      BY <1>13, <2>2, <2>4, <3>2, PublishEffect
    <3> QED BY <1>13, <2>4, <3>3, <3>4, PublishEffect
  <2> QED BY <2>3, <2>4
<1>14. ASSUME NEW p \in Procs, Stop(p) PROVE ArtifactsOf(q)'
  BY <1>14 DEF Stop
<1>15. ASSUME NEW p \in Procs, Alter(p) PROVE ArtifactsOf(q)'
  BY <1>15, AlterEffect DEF Alter
<1>16. CASE EditSource
  BY <1>16 DEF EditSource
<1>17. CASE UNCHANGED vars
  BY <1>17 DEF vars
<1>18. ASSUME NEW p \in Procs, OpenCopy(p) PROVE ArtifactsOf(q)'
  BY <1>18 DEF OpenCopy
<1>19. ASSUME NEW p \in Procs, CreateArtifact(p) PROVE ArtifactsOf(q)'
  <2> DEFINE a == NextDoc(p, ArtifactOrder)
  <2>1. a \in Artifacts /\ step[p] \in 0..4 /\ pc[p] = "create"
    BY <1>19, NextDocFacts DEF CreateArtifact, PhaseInv
  <2>2. \A r \in Procs, b \in Artifacts : arts'[r][b] = IF r = p /\ b = a THEN "torn" ELSE arts[r][b]
    BY <1>19, <2>1 DEF CreateArtifact
  <2>3. ASSUME NEW b \in Artifacts, Published(p, b)' PROVE b # a
    <3>1. PICK i \in 1..step[p] : b = ArtifactOrder[i]
      BY <1>19, <2>1, <2>3 DEF CreateArtifact
    <3>2. step[p] + 1 \in 1..5 /\ i \in 1..5 /\ i # step[p] + 1
      <4>1. step[p] \in 0..4 /\ i \in 1..step[p]
        BY <2>1
      <4> HIDE <1>a DEF TypeOK, PhaseOf, ArtifactsOf, Published
      <4> QED BY <4>1
    <3> QED BY <3>1, <3>2, OrderDistinct DEF NextDoc
  <2>4. \A b \in Artifacts : Published(q, b)' => Published(q, b)
    BY <1>19, <2>1 DEF CreateArtifact
  <2> QED BY <1>19, <2>2, <2>3, <2>4 DEF CreateArtifact
<1> QED
  BY <1>1, <1>2, <1>3, <1>4, <1>5, <1>6, <1>7, <1>8, <1>9, <1>10, <1>11, <1>12, <1>13, <1>14,
     <1>15, <1>16, <1>17, <1>18, <1>19
     DEF Next, Compile, Create, Rest

\* The invariant holds at the start and is inductive.
THEOREM Inductive == Spec => []IInv
<1>1. Init => IInv
  <2> SUFFICES ASSUME Init PROVE IInv
    OBVIOUS
  <2>1. events \in 0..MaxEvents /\ 0 \in 0..Len(ArtifactOrder)
    BY CapsuleReleaseAssumption, OrderFacts DEF Init
  <2>2. TypeOK
    BY <2>1 DEF Init, TypeOK, NoDocs, PCs, FileState
  <2>3. PhaseInv /\ CleanInv /\ LoadedInv /\ CopyInv
    BY DEF Init, PhaseInv, PhaseOf, CleanInv, CleanOf, LoadedInv, LoadedOf,
           Copying, CopyInv, CopyOf, Copied
  <2>4. ArtifactInv
    BY DEF Init, ArtifactInv, ArtifactsOf, Published, Artifacts
  <2> QED BY <2>2, <2>3, <2>4 DEF IInv
<1>2. IInv /\ [Next]_vars => IInv'
  BY TypeStep, PhaseStep, CleanStep, LoadedStep, CopyStep, ArtifactStep DEF IInv
<1> QED BY <1>1, <1>2, PTL DEF Spec

\* Every variable keeps its type.
THEOREM TypeCorrect == Spec => []TypeOK
<1>1. IInv => TypeOK
  BY DEF IInv
<1> QED BY Inductive, <1>1, PTL

\* A compile that ended leaves a loadable capsule, whatever it found there.
THEOREM CompilesHeal == Spec => []FinishedCompileLoads
<1>1. IInv => FinishedCompileLoads
  BY DEF IInv, CleanInv, CleanOf, Wrote, FinishedCompileLoads, Loads, Docs, Digested
<1> QED BY Inductive, <1>1, PTL

\* A release that was reported as made passes verification, or its copy took along a
\* file another command had truncated between the check of the capsule and its copy.
THEOREM ReleasesVerify == Spec => []CreatedVerifies
<1>1. IInv => CreatedVerifies
  <2> SUFFICES ASSUME IInv, NEW p \in Releases, pc[p] = "done", touched[p] \subseteq Unseen,
                      ~(raced[p] /\ \E d \in Digested : copy[p][d] = "torn")
               PROVE  Verifies(p)
    BY DEF CreatedVerifies
  <2>1. p \in Procs /\ job[p] = "release" /\ signer[p] \in Procs
    BY DEF Releases, IInv, PhaseInv, PhaseOf
  <2>2. Loads(copy[p])
    BY <2>1 DEF IInv, CopyInv, CopyOf, Copied, Loads, Digested, Unseen
  <2>3. \A a \in Artifacts : arts[p][a] = Content(p, a)
    BY <2>1 DEF IInv, ArtifactInv, ArtifactsOf, Published, Artifacts, Unseen
  <2>4. Acceptable(p)
    BY <2>1 DEF IInv, ArtifactInv, ArtifactsOf
  <2> QED BY <2>1, <2>2, <2>3, <2>4 DEF Verifies, Content, Artifacts
<1> QED BY Inductive, <1>1, PTL

\* Nothing passes verification but a finished release whose every file, except the
\* portable run spec and padding, is as it was made.
THEOREM OnlyWholeVerifies == Spec => []VerifiedIsWhole
<1>1. IInv => VerifiedIsWhole
  <2> SUFFICES ASSUME IInv, NEW p \in Procs, Verifies(p)
               PROVE  pc[p] = "done" /\ touched[p] \subseteq Unseen
    BY DEF VerifiedIsWhole
  <2>1. ArtifactsOf(p) /\ touched[p] \subseteq Docs \cup Artifacts \cup {"padding"}
    BY DEF IInv, ArtifactInv, TypeOK
  <2>2. "absent" \notin Procs /\ "torn" \notin Procs /\ "altered" \notin Procs
    BY CapsuleReleaseAssumption
  <2>3. pc[p] = "done"
    BY <2>1, <2>2 DEF Verifies, ArtifactsOf
  <2>4. \A d \in Digested : d \notin touched[p]
    BY <2>1 DEF Verifies, Loads, ArtifactsOf, Digested, Docs
  <2>5. \A a \in Artifacts : a \notin touched[p]
    BY <2>1, <2>2 DEF Verifies, ArtifactsOf, Artifacts
  <2> QED BY <2>1, <2>3, <2>4, <2>5 DEF Docs, Digested, Unseen
<1> QED BY Inductive, <1>1, PTL
===============================================================================
