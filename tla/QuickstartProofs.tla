---------------------------- MODULE QuickstartProofs ----------------------------
(***************************************************************************)
(* What `quickstart` and `onboard` guarantee for any set of runtimes, key   *)
(* variables and manifests, and any number of edits and removed images.     *)
(* The properties speak of what the command leaves behind; IInv says what   *)
(* it has got done at each of its stages, and whose files those are.        *)
(***************************************************************************)
EXTENDS Quickstart, WellFoundedInduction, NaturalsInduction, TLAPS

Copied    == {"agent", "chat"}
Fitted    == {"ignore", "lock", "build"}
Finishing == {"default", "env", "launch"}

\* What a command has not done yet at each stage.
ProgressInv ==
  /\ pc = "copy" => copied < 3
  /\ pc \in {"copy", "agent", "chat", "ignore", "lock"} => ~recorded
  /\ pc \in {"copy"} \cup Copied \cup Fitted => ~built /\ ~fellBack
  /\ pc = "default" => fellBack

\* A file of the user's in the way of a command that is under way was forced
\* aside, is the vault's, or came after the command looked.
UserInv ==
  pc # "idle" => \A f \in Files : disk[f].by = "user" => opts.force \/ f \in touched

\* chat.sh as nobody but the command has written it.
ChatInv ==
  "chat" \notin touched =>
    /\ pc \in Copied \/ (pc = "copy" /\ copied >= 2) => disk["chat"].key = DefaultKey
    /\ pc \in Fitted \cup Finishing =>
         disk["chat"].key = IF own THEN DefaultKey ELSE opts.key
    /\ pc \in Fitted /\ ~own => disk["chat"].runtime = selected

\* The image of a build that got through, as long as nobody removes or unpins it.
ImageInv ==
  built /\ "agent" \notin touched =>
    /\ pinned \in Images /\ tagged[pinned.on] = pinned.of
    /\ pc \in Finishing => effective = pinned.on
    /\ pc # "default" /\ "chat" \notin touched =>
         (own /\ ~fellBack) \/ disk["chat"].runtime = pinned.on

\* .env holds nothing while a command runs, or the key it was given, or what was
\* there before or came in between.
EnvInv ==
  pc # "idle" /\ "env" \notin touched /\ Holds("env") => current /\ disk["env"].key = opts.key

IInv == TypeOK /\ ProgressInv /\ UserInv /\ ChatInv /\ ImageInv /\ EnvInv /\ NoFalseConflicts

-------------------------------------------------------------------------------
(* The operators the steps are built from *)

\* The first of some runtimes is one of them.
LEMMA FirstIsMember ==
  ASSUME NEW S \in SUBSET Runtimes, S # {} PROVE First(S) \in S
<1> DEFINE Ranks == {ProbeRank[r] : r \in S}
           R == {ss \in Nat \X Nat : ss[1] < ss[2]}
<1>1. Ranks \subseteq Nat /\ Ranks # {}
  BY QuickstartAssumption
<1>2. IsWellFoundedOn(R, Nat)
  BY NatLessThanWellFounded DEF OpToRel
<1>3. PICK x \in Ranks : \A y \in Ranks : <<y, x>> \notin R
  <2> HIDE DEF R, Ranks
  <2> QED BY <1>1, <1>2, WFMin
<1>4. \A y \in Ranks : x <= y
  <2> SUFFICES ASSUME NEW y \in Ranks PROVE x <= y
    OBVIOUS
  <2>1. <<y, x>> \notin R /\ x \in Nat /\ y \in Nat
    BY <1>1, <1>3
  <2> QED BY <2>1
<1>5. \E r \in S : \A q \in S : ProbeRank[r] <= ProbeRank[q]
  BY <1>3, <1>4
<1> QED BY <1>5 DEF First

\* The runtime built with next is a runtime.
LEMMA NextCandidateIsRuntime ==
  ASSUME TypeOK, Candidates # {} PROVE NextCandidate \in Runtimes
BY FirstIsMember DEF Candidates, NextCandidate, TypeOK

\* A new file is well-formed, and has the template's defaults.
LEMMA WrittenFacts ==
  ASSUME NEW who \in {"nobody", "template", "quickstart", "user"}
  PROVE  /\ Written(who) \in Content
         /\ Written(who).by = who
         /\ Written(who).runtime = DefaultRuntime /\ Written(who).key = DefaultKey
BY QuickstartAssumption DEF Written, Content

\* A file of size zero is nobody's.
LEMMA EmptyFacts == Empty \in Content /\ Empty.by = "nobody"
<1>1. Absent \in Content /\ Absent.by = "nobody"
  BY WrittenFacts DEF Absent
<1> QED BY <1>1 DEF Empty, Content

\* A rewritten file has the defaults it had and the user's name if it had that;
\* a file of the user's is not even changed.
LEMMA RewrittenFacts ==
  ASSUME NEW c \in Content
  PROVE  /\ Rewritten(c) \in Content
         /\ Rewritten(c).runtime = c.runtime /\ Rewritten(c).key = c.key
         /\ Rewritten(c).by = "user" => c.by = "user" /\ Rewritten(c) = c
BY DEF Rewritten, Content

\* A customised chat.sh that has no defaults of its own has the command's.
LEMMA CustomisedFacts ==
  ASSUME TypeOK, NEW c \in Content
  PROVE  /\ Customised(c) \in Content
         /\ Customised(c).key = IF own THEN c.key ELSE opts.key
         /\ ~own => Customised(c).runtime = selected
         /\ Customised(c).by = "user" => c.by = "user"
<1>1. Rewritten(c) \in Content /\ opts.key \in KeyNames /\ selected \in Runtimes
  BY RewrittenFacts DEF TypeOK, Options
<1>2. /\ Rewritten(c).key = c.key
      /\ Rewritten(c).by = "user" => c.by = "user"
  BY RewrittenFacts
<1> DEFINE d == Rewritten(c)
<1> HIDE DEF d
<1>3. /\ [d EXCEPT !.runtime = selected, !.key = opts.key] \in Content
      /\ [d EXCEPT !.runtime = selected, !.key = opts.key].key = opts.key
      /\ [d EXCEPT !.runtime = selected, !.key = opts.key].runtime = selected
      /\ [d EXCEPT !.runtime = selected, !.key = opts.key].by = d.by
  BY <1>1 DEF Content, d
<1> QED BY <1>1, <1>2, <1>3 DEF Customised, d

\* The defaults a fallback writes into chat.sh.
LEMMA DefaultRewrittenFacts ==
  ASSUME TypeOK, NEW c \in Content
  PROVE  LET new == [Rewritten(c) EXCEPT !.runtime = effective] IN
         new \in Content /\ new.runtime = effective /\ new.key = c.key
           /\ (new.by = "user" => c.by = "user")
<1> DEFINE d == Rewritten(c)
<1>1. /\ d \in Content /\ effective \in Runtimes /\ d.key = c.key
      /\ d.by = "user" => c.by = "user"
  BY RewrittenFacts DEF TypeOK
<1> HIDE DEF d
<1> QED BY <1>1 DEF Content, d

\* A write changes one file.
LEMMA PutFacts ==
  ASSUME TypeOK, NEW f \in Files, NEW c \in Content, Put(f, c)
  PROVE  /\ disk' \in [Files -> Content] /\ disk'[f] = c
         /\ \A g \in Files : g # f => disk'[g] = disk[g]
BY DEF TypeOK, Put

\* The entry copied next.
LEMMA CopyOrderFacts ==
  ASSUME TypeOK, ProgressInv, At("copy")
  PROVE  /\ CopyOrder[copied + 1] \in {"agent", "chat", "bot"}
         /\ CopyOrder[copied + 1] = "chat" <=> copied = 1
         /\ CopyOrder[copied + 1] = "agent" <=> copied = 0
         /\ copied \in 0..2
BY DEF TypeOK, ProgressInv, At, CopyOrder

-------------------------------------------------------------------------------
(* What each writing step does to the project's files *)

\* One entry of the template, as it comes.
LEMMA CopyEntryEffect ==
  ASSUME TypeOK, ProgressInv, CopyEntry
  PROVE  LET f == CopyOrder[copied + 1] IN
         /\ disk' \in [Files -> Content] /\ disk'[f] = Written("template")
         /\ \A g \in Files : g # f => disk'[g] = disk[g]
         /\ touched' = touched \ {f}
         /\ pc' = IF copied = 2 THEN "agent" ELSE "copy"
<1>1. /\ CopyOrder[copied + 1] \in Files /\ copied \in 0..2
      /\ Put(CopyOrder[copied + 1], Written("template"))
  BY CopyOrderFacts DEF CopyEntry, Files
<1>2. pc' = IF copied = 2 THEN "agent" ELSE "copy"
  BY <1>1 DEF CopyEntry, Goto
<1> QED BY <1>1, <1>2, PutFacts, WrittenFacts DEF CopyEntry

\* agent.claw is fitted, chat.sh is not touched.
LEMMA RewriteAgentEffect ==
  ASSUME TypeOK, RewriteAgent
  PROVE  /\ disk' \in [Files -> Content]
         /\ \A g \in Files : g # "agent" => disk'[g] = disk[g]
         /\ disk'["agent"].by = "user" => disk["agent"].by = "user"
         /\ disk["agent"].by = "user" => disk' = disk
<1>1. "agent" \in Files /\ disk["agent"] \in Content
  BY DEF TypeOK, Files
<1>2. /\ disk' \in [Files -> Content] /\ disk'["agent"] = Rewritten(disk["agent"])
      /\ \A g \in Files : g # "agent" => disk'[g] = disk[g]
  BY <1>1, RewrittenFacts, PutFacts DEF RewriteAgent
<1>3. disk["agent"].by = "user" => Rewritten(disk["agent"]) = disk["agent"]
  BY <1>1 DEF Rewritten, Content
<1>4. ASSUME disk["agent"].by = "user" PROVE disk' = disk
  BY <1>1, <1>2, <1>3, <1>4 DEF TypeOK
<1> QED BY <1>1, <1>2, <1>4, RewrittenFacts

\* chat.sh gets the command's defaults, if it has none of its own.
LEMMA RewriteChatEffect ==
  ASSUME TypeOK, RewriteChat
  PROVE  /\ disk' \in [Files -> Content]
         /\ \A g \in Files : g # "chat" => disk'[g] = disk[g]
         /\ disk'["chat"].key = IF own THEN disk["chat"].key ELSE opts.key
         /\ ~own => disk'["chat"].runtime = selected
         /\ disk'["chat"].by = "user" => disk["chat"].by = "user"
<1>1. "chat" \in Files /\ disk["chat"] \in Content
  BY DEF TypeOK, Files
<1> QED BY <1>1, CustomisedFacts, PutFacts DEF RewriteChat

\* .gitignore is written if there is none.
LEMMA WriteIgnoreEffect ==
  ASSUME TypeOK, WriteIgnore
  PROVE  /\ disk' \in [Files -> Content]
         /\ \A g \in Files : g # "ignore" => disk'[g] = disk[g]
         /\ disk'["ignore"].by = "user" => disk["ignore"].by = "user"
         /\ disk["ignore"].by = "user" => disk' = disk
<1>1. "ignore" \in Files
  BY DEF Files
<1>2. CASE disk["ignore"] = Absent
  <2>1. Put("ignore", Written("quickstart")) /\ disk["ignore"].by = "nobody"
    BY <1>2, WrittenFacts DEF WriteIgnore, Absent
  <2> QED BY <1>1, <2>1, PutFacts, WrittenFacts
<1>3. CASE disk["ignore"] # Absent
  BY <1>3 DEF WriteIgnore, TypeOK
<1> QED BY <1>2, <1>3

\* chat.sh gets the runtime the build fell back to.
LEMMA RewriteDefaultEffect ==
  ASSUME TypeOK, RewriteDefault
  PROVE  /\ disk' \in [Files -> Content]
         /\ \A g \in Files : g # "chat" => disk'[g] = disk[g]
         /\ disk'["chat"].runtime = effective /\ disk'["chat"].key = disk["chat"].key
         /\ disk'["chat"].by = "user" => disk["chat"].by = "user"
<1>1. "chat" \in Files /\ disk["chat"] \in Content
  BY DEF TypeOK, Files
<1> DEFINE new == [Rewritten(disk["chat"]) EXCEPT !.runtime = effective]
<1>2. /\ new \in Content /\ new.runtime = effective /\ new.key = disk["chat"].key
      /\ new.by = "user" => disk["chat"].by = "user"
  BY <1>1, DefaultRewrittenFacts
<1>3. Put("chat", new)
  BY DEF RewriteDefault
<1> HIDE DEF new
<1> QED BY <1>1, <1>2, <1>3, PutFacts

\* .env is written if there is none, or nothing in it.
LEMMA SaveEnvEffect ==
  ASSUME TypeOK, SaveEnv
  PROVE  /\ disk' \in [Files -> Content] /\ current' \in BOOLEAN
         /\ \A g \in Files : g # "env" => disk'[g] = disk[g]
         /\ disk'["env"].by = "user" => disk["env"].by = "user"
         /\ disk["env"].by = "user" => disk' = disk
         /\ \/ current' /\ disk'["env"].key = opts.key
            \/ UNCHANGED <<disk, current>>
<1>1. "env" \in Files
  BY DEF Files
<1>2. CASE ~Holds("env") /\ current' = TRUE /\ Put("env", [Written("quickstart") EXCEPT !.key = opts.key])
  <2>1. /\ [Written("quickstart") EXCEPT !.key = opts.key] \in Content
        /\ [Written("quickstart") EXCEPT !.key = opts.key].by = "quickstart"
        /\ [Written("quickstart") EXCEPT !.key = opts.key].key = opts.key
        /\ disk["env"].by = "nobody"
    BY <1>2, QuickstartAssumption DEF Written, Content, Holds, TypeOK, Options
  <2> QED BY <1>1, <1>2, <2>1, PutFacts
<1>3. CASE UNCHANGED <<disk, current>>
  BY <1>3 DEF TypeOK
<1> QED BY <1>2, <1>3 DEF SaveEnv

\* A command that dies may have emptied the file it was writing.
LEMMA FailsEffect ==
  ASSUME TypeOK, ProgressInv, Fails
  PROVE  /\ disk' \in [Files -> Content] /\ pinned' \in Images \cup {NoImage}
         /\ \A g \in Files : disk'[g] = disk[g] \/ (g \in InWriting /\ disk'[g].by = "nobody")
         /\ "agent" \notin InWriting => pinned' = pinned
<1>1. InWriting \subseteq Files
  BY CopyOrderFacts DEF InWriting, Files, At
<1>2. CASE UNCHANGED <<disk, pinned>>
  BY <1>2 DEF TypeOK
<1>3. ASSUME NEW f \in InWriting, Put(f, Empty), pinned' = IF f = "agent" THEN NoImage ELSE pinned
      PROVE  /\ disk' \in [Files -> Content] /\ pinned' \in Images \cup {NoImage}
             /\ \A g \in Files : disk'[g] = disk[g] \/ (g \in InWriting /\ disk'[g].by = "nobody")
             /\ "agent" \notin InWriting => pinned' = pinned
  <2>1. disk' \in [Files -> Content] /\ disk'[f] = Empty /\ \A g \in Files : g # f => disk'[g] = disk[g]
    BY <1>1, <1>3, EmptyFacts, PutFacts
  <2>2. pinned' \in Images \cup {NoImage}
    BY <1>3 DEF TypeOK
  <2> QED BY <1>1, <1>3, <2>1, <2>2, EmptyFacts
<1> QED BY <1>2, <1>3 DEF Fails

\* The later stages write little.
LEMMA InWritingFacts ==
  /\ pc \in {"build", "launch"} => InWriting = {}
  /\ pc = "env" => InWriting \subseteq {"env"}
  /\ pc \in {"agent", "chat"} => InWriting \subseteq {pc}
  /\ pc = "default" => InWriting \subseteq {"chat"}
  /\ pc \in {"ignore", "lock"} => InWriting = {}
  /\ pc = "env" /\ disk["env"].by = "user" => InWriting = {}
BY DEF InWriting, At, Holds

\* The user writes or deletes one file.
LEMMA UserEditsEffect ==
  ASSUME TypeOK, NEW f \in Files, UserEdits(f)
  PROVE  /\ disk' \in [Files -> Content]
         /\ \A g \in Files : g # f => disk'[g] = disk[g]
<1>1. PICK c \in UserContents(f) : Put(f, c)
  BY DEF UserEdits
<1>2. ASSUME NEW k \in KeyNames PROVE [Written("user") EXCEPT !.key = k] \in Content
  BY WrittenFacts DEF Content
<1>3. c \in Content
  BY <1>2, WrittenFacts, EmptyFacts DEF Absent, UserContents
<1> QED BY <1>1, <1>3, PutFacts

\* An upgrade writes the template over the files it gets done, and locks what is
\* there when it has got all of them done.
LEMMA UpgradeEffect ==
  ASSUME TypeOK, NEW force \in BOOLEAN, Upgrade(force)
  PROVE  \E done \in SUBSET manages :
           /\ disk' = [f \in Files |-> IF f \in done THEN Written("template") ELSE disk[f]]
           /\ lock' = IF done = manages
                      THEN [f \in Files |-> IF f \in manages THEN disk'[f] ELSE Absent] ELSE lock
           /\ touched' = touched \cup done
           /\ disk' \in [Files -> Content] /\ lock' \in [Files -> Content]
<1> DEFINE done == IF force THEN manages ELSE manages \ Conflicts
<1>1. /\ done \in SUBSET manages
      /\ disk' = [f \in Files |-> IF f \in done THEN Written("template") ELSE disk[f]]
      /\ lock' = IF done = manages
                 THEN [f \in Files |-> IF f \in manages THEN disk'[f] ELSE Absent] ELSE lock
      /\ touched' = touched \cup done
  BY DEF Upgrade
<1> HIDE DEF done
<1>2. Written("template") \in Content /\ Absent \in Content
  BY WrittenFacts DEF Absent
<1>3. disk' \in [Files -> Content]
  BY <1>1, <1>2 DEF TypeOK
<1>4. lock' \in [Files -> Content]
  BY <1>1, <1>2, <1>3 DEF TypeOK
<1> QED BY <1>1, <1>3, <1>4

-------------------------------------------------------------------------------
(* Every step keeps every part of the invariant *)

\* Every variable keeps its type.
LEMMA TypeStep == TypeOK /\ ProgressInv /\ [Next]_vars => TypeOK'
<1> SUFFICES ASSUME TypeOK, ProgressInv, [Next]_vars PROVE TypeOK'
  OBVIOUS
<1> USE QuickstartAssumption
    DEF theTemplate, project, choice, progress, history, Still, At, Goto
<1>1. ASSUME NEW o \in Options, NEW vault \in {Outside, "bot"}, Begin(o, vault) PROVE TypeOK'
  <2>1. selected' \in Runtimes /\ effective' \in Runtimes
    BY <1>1 DEF Begin
  <2>2. opts' \in Options /\ copied' \in 0..3 /\ tried' = {} /\ touched' \subseteq Files
    BY <1>1 DEF Begin, Files
  <2> QED BY <1>1, <2>1, <2>2 DEF Begin, TypeOK, PCs
<1>2. CASE CopyEntry
  <2>1. copied' \in 0..3 /\ pc' \in PCs
    BY <1>2, CopyOrderFacts, CopyEntryEffect DEF CopyEntry, PCs
  <2>2. disk' \in [Files -> Content] /\ touched' \subseteq Files
    BY <1>2, CopyEntryEffect DEF TypeOK
  <2>3. pinned' \in Images \cup {NoImage}
    BY <1>2 DEF CopyEntry, TypeOK
  <2> QED BY <1>2, <2>1, <2>2, <2>3 DEF CopyEntry, TypeOK
<1>3. CASE RewriteAgent
  BY <1>3, RewriteAgentEffect DEF RewriteAgent, TypeOK, PCs
<1>4. CASE RewriteChat
  BY <1>4, RewriteChatEffect DEF RewriteChat, TypeOK, PCs
<1>5. CASE WriteIgnore
  BY <1>5, WriteIgnoreEffect DEF WriteIgnore, TypeOK, PCs
<1>6. CASE WriteLock
  <2>1. HashManagedFiles \in [Files -> Content]
    BY WrittenFacts DEF HashManagedFiles, TypeOK, Absent
  <2> QED BY <1>6, <2>1 DEF WriteLock, TypeOK, PCs
<1>7. CASE Build
  <2>1. NextCandidate \in Runtimes
    BY <1>7, NextCandidateIsRuntime DEF Build
  <2> DEFINE r == NextCandidate
  <2> HIDE DEF r
  <2>2. /\ tagged' \in [Runtimes -> Content \cup {NoImage}] /\ tagged'[r] \in Content
        /\ r \in Runtimes
    BY <1>7, <2>1 DEF Build, Recoverable, TypeOK, Files, r
  <2>3. pinned' \in Images
    BY <1>7, <2>2 DEF Build, Images, r
  <2>4. pc' \in PCs
    BY <1>7 DEF Build, AfterBuild, PCs
  <2> QED BY <1>7, <2>2, <2>3, <2>4 DEF Build, TypeOK, r
<1>8. CASE BuildFails
  <2>1. NextCandidate \in Runtimes
    BY <1>8, NextCandidateIsRuntime DEF BuildFails
  <2> DEFINE r == NextCandidate
  <2> HIDE DEF r
  <2>2. /\ tagged' \in [Runtimes -> Content \cup {NoImage}]
        /\ pinned' \in Images \cup {NoImage}
    <3>1. CASE UNCHANGED <<tagged, pinned>>
      BY <3>1 DEF TypeOK
    <3>2. CASE /\ tagged' = [tagged EXCEPT ![r] = disk["bot"]]
               /\ pinned' \in {pinned, [on |-> r, of |-> tagged'[r]]}
      <4>1. disk["bot"] \in Content /\ r \in Runtimes
        BY <2>1 DEF TypeOK, Files, r
      <4>2. tagged' \in [Runtimes -> Content \cup {NoImage}] /\ tagged'[r] \in Content
        BY <3>2, <4>1 DEF TypeOK
      <4> QED BY <3>2, <4>1, <4>2 DEF Images, TypeOK
    <3> QED BY <1>8, <3>1, <3>2 DEF BuildFails, r
  <2> QED BY <1>8, <2>1, <2>2 DEF BuildFails, TypeOK
<1>9. CASE RewriteDefault
  BY <1>9, RewriteDefaultEffect DEF RewriteDefault, TypeOK, PCs
<1>10. CASE SaveEnv
  BY <1>10, SaveEnvEffect DEF SaveEnv, TypeOK, PCs
<1>11. ASSUME End, UNCHANGED events, built' \in BOOLEAN, UNCHANGED <<fellBack, recorded>>,
              disk' \in [Files -> Content], pinned' \in Images \cup {NoImage}
       PROVE  TypeOK'
  <2>1. NoOptions \in Options /\ DefaultRuntime \in Runtimes
    BY DEF NoOptions, Options
  <2>2. /\ UNCHANGED <<own, manages, lock, tagged, events, fellBack, recorded>>
        /\ pc' = "idle" /\ opts' = NoOptions /\ copied' = 0 /\ tried' = {} /\ current' = FALSE
        /\ selected' = DefaultRuntime /\ effective' = DefaultRuntime
        /\ touched' = touched \ {"env", "ignore"}
    BY <1>11 DEF End
  <2>3. /\ own' \in BOOLEAN /\ manages' \in Manifests /\ lock' \in [Files -> Content]
        /\ tagged' \in [Runtimes -> Content \cup {NoImage}] /\ events' \in 0..MaxEvents
        /\ fellBack' \in BOOLEAN /\ recorded' \in BOOLEAN /\ touched' \subseteq Files
    BY <2>2 DEF TypeOK
  <2>4. /\ pc' \in PCs /\ opts' \in Options /\ copied' \in 0..3 /\ tried' \subseteq Runtimes
        /\ current' \in BOOLEAN /\ selected' \in Runtimes /\ effective' \in Runtimes
    <3>1. copied' \in 0..3
      BY <2>2
    <3>2. /\ pc' \in PCs /\ opts' \in Options /\ tried' \subseteq Runtimes
          /\ current' \in BOOLEAN /\ selected' \in Runtimes /\ effective' \in Runtimes
      BY <2>1, <2>2, Zenon DEF PCs
    <3> QED BY <3>1, <3>2
  <2> QED BY <1>11, <2>3, <2>4 DEF TypeOK
<1>12. CASE Launch
  BY <1>11, <1>12 DEF Launch, TypeOK
<1>13. CASE Fails
  BY <1>11, <1>13, FailsEffect DEF Fails, TypeOK
<1>14. ASSUME NEW f \in Files, UserEdits(f) PROVE TypeOK'
  <2>1. events' \in 0..MaxEvents
    BY <1>14 DEF UserEdits, Event, TypeOK
  <2>2. pinned' \in Images \cup {NoImage}
    BY <1>14 DEF UserEdits, TypeOK
  <2> QED BY <1>14, <2>1, <2>2, UserEditsEffect DEF UserEdits, TypeOK
<1>15. ASSUME NEW r \in Runtimes, PruneImage(r) PROVE TypeOK'
  <2>1. events' \in 0..MaxEvents
    BY <1>15 DEF PruneImage, Event, TypeOK
  <2> QED BY <1>15, <2>1 DEF PruneImage, TypeOK
<1>16. ASSUME NEW force \in BOOLEAN, Upgrade(force) PROVE TypeOK'
  <2>1. manages \subseteq Files
    BY DEF TypeOK, Files
  <2> QED BY <1>16, <2>1, UpgradeEffect DEF Upgrade, TypeOK
<1>17. CASE UNCHANGED vars
  BY <1>17 DEF vars, TypeOK
<1> QED
  BY <1>1, <1>2, <1>3, <1>4, <1>5, <1>6, <1>7, <1>8, <1>9, <1>10, <1>12, <1>13, <1>14, <1>15,
     <1>16, <1>17 DEF Next, Command, World


\* What a command has not done yet it has not done.
LEMMA ProgressStep == TypeOK /\ ProgressInv /\ [Next]_vars => ProgressInv'
<1> SUFFICES ASSUME TypeOK, ProgressInv, [Next]_vars PROVE ProgressInv'
  OBVIOUS
<1> USE DEF theTemplate, project, choice, progress, history, Still, At, Goto, Copied, Fitted
<1>1. ASSUME NEW o \in Options, NEW vault \in {Outside, "bot"}, Begin(o, vault)
      PROVE  ProgressInv'
  BY <1>1 DEF Begin, ProgressInv
<1>2. CASE CopyEntry
  <2>1. copied \in 0..2 /\ copied' = copied + 1 /\ pc = "copy"
    BY <1>2, CopyOrderFacts DEF CopyEntry
  <2>2. pc' = IF copied = 2 THEN "agent" ELSE "copy"
    BY <1>2, CopyEntryEffect
  <2> QED BY <1>2, <2>1, <2>2 DEF CopyEntry, ProgressInv
<1>3. CASE RewriteAgent
  BY <1>3 DEF RewriteAgent, ProgressInv
<1>4. CASE RewriteChat
  BY <1>4 DEF RewriteChat, ProgressInv
<1>5. CASE WriteIgnore
  BY <1>5 DEF WriteIgnore, ProgressInv
<1>6. CASE WriteLock
  BY <1>6 DEF WriteLock, ProgressInv
<1>7. CASE Build
  BY <1>7 DEF Build, AfterBuild, ProgressInv
<1>8. CASE BuildFails
  BY <1>8 DEF BuildFails, ProgressInv
<1>9. CASE RewriteDefault
  BY <1>9 DEF RewriteDefault, ProgressInv
<1>10. CASE SaveEnv
  BY <1>10 DEF SaveEnv, ProgressInv
<1>11. CASE Launch
  BY <1>11 DEF Launch, End, ProgressInv
<1>12. CASE Fails
  BY <1>12 DEF Fails, End, ProgressInv
<1>13. ASSUME NEW f \in Files, UserEdits(f) PROVE ProgressInv'
  BY <1>13 DEF UserEdits, ProgressInv
<1>14. ASSUME NEW r \in Runtimes, PruneImage(r) PROVE ProgressInv'
  BY <1>14 DEF PruneImage, ProgressInv
<1>15. ASSUME NEW force \in BOOLEAN, Upgrade(force) PROVE ProgressInv'
  BY <1>15 DEF Upgrade, ProgressInv
<1>16. CASE UNCHANGED vars
  BY <1>16 DEF vars, ProgressInv
<1> QED
  BY <1>1, <1>2, <1>3, <1>4, <1>5, <1>6, <1>7, <1>8, <1>9, <1>10, <1>11, <1>12, <1>13, <1>14,
     <1>15, <1>16 DEF Next, Command, World

\* A command that leaves the files of others alone, or none where it writes,
\* leaves UserInv as it was.
LEMMA UserFrame ==
  ASSUME UserInv, pc # "idle", opts' = opts,
         \A f \in Files : disk'[f].by = "user" =>
           f \in touched' \/ (disk[f].by = "user" /\ (f \in touched => f \in touched'))
  PROVE  UserInv'
BY DEF UserInv

\* Whose files are in the way stays known.
LEMMA UserStep == TypeOK /\ ProgressInv /\ UserInv /\ [Next]_vars => UserInv'
<1> SUFFICES ASSUME TypeOK, ProgressInv, UserInv, [Next]_vars PROVE UserInv'
  OBVIOUS
<1> USE DEF theTemplate, project, choice, progress, history, Still, At, Goto
<1>1. ASSUME NEW o \in Options, NEW vault \in {Outside, "bot"}, Begin(o, vault) PROVE UserInv'
  <2>1. disk' = disk /\ opts' = o /\ {vault} \cap Files \subseteq touched' /\ MayBegin(o, vault)
    BY <1>1 DEF Begin
  <2>2. Absent.by # "user"
    BY WrittenFacts DEF Absent
  <2> QED BY <2>1, <2>2 DEF MayBegin, UserInv
<1>2. CASE CopyEntry
  <2>1. pc # "idle" /\ opts' = opts
    BY <1>2 DEF CopyEntry
  <2> DEFINE e == CopyOrder[copied + 1]
  <2> HIDE DEF e
  <2>2. /\ disk'[e].by = "template"
        /\ \A g \in Files : g # e => disk'[g] = disk[g] /\ (g \in touched => g \in touched')
    BY <1>2, CopyEntryEffect, WrittenFacts DEF e
  <2> QED BY <2>1, <2>2, UserFrame
<1>3. CASE RewriteAgent
  BY <1>3, RewriteAgentEffect, UserFrame DEF RewriteAgent
<1>4. CASE RewriteChat
  BY <1>4, RewriteChatEffect, UserFrame DEF RewriteChat
<1>5. CASE WriteIgnore
  BY <1>5, WriteIgnoreEffect, UserFrame DEF WriteIgnore
<1>6. CASE WriteLock
  BY <1>6, UserFrame DEF WriteLock
<1>7. CASE Build
  BY <1>7, UserFrame DEF Build
<1>8. CASE BuildFails
  BY <1>8 DEF BuildFails, UserInv
<1>9. CASE RewriteDefault
  BY <1>9, RewriteDefaultEffect, UserFrame DEF RewriteDefault
<1>10. CASE SaveEnv
  BY <1>10, SaveEnvEffect, UserFrame DEF SaveEnv
<1>11. CASE Launch
  BY <1>11 DEF Launch, End, UserInv
<1>12. CASE Fails
  BY <1>12 DEF Fails, End, UserInv
<1>13. ASSUME NEW f \in Files, UserEdits(f) PROVE UserInv'
  <2>1. pc' = pc /\ opts' = opts /\ touched' = touched \cup {f}
    BY <1>13 DEF UserEdits
  <2> QED BY <1>13, <2>1, UserEditsEffect, UserFrame DEF UserInv
<1>14. ASSUME NEW r \in Runtimes, PruneImage(r) PROVE UserInv'
  BY <1>14 DEF PruneImage, UserInv
<1>15. ASSUME NEW force \in BOOLEAN, Upgrade(force) PROVE UserInv'
  BY <1>15 DEF Upgrade, UserInv
<1>16. CASE UNCHANGED vars
  BY <1>16 DEF vars, UserInv
<1> QED
  BY <1>1, <1>2, <1>3, <1>4, <1>5, <1>6, <1>7, <1>8, <1>9, <1>10, <1>11, <1>12, <1>13, <1>14,
     <1>15, <1>16 DEF Next, Command, World

\* chat.sh is what the command has made of it.
LEMMA ChatStep == TypeOK /\ ProgressInv /\ ChatInv /\ [Next]_vars => ChatInv'
<1> SUFFICES ASSUME TypeOK, ProgressInv, ChatInv, [Next]_vars PROVE ChatInv'
  OBVIOUS
<1> USE DEF theTemplate, project, choice, progress, history, Still, At, Goto,
            Copied, Fitted, Finishing
<1>0. "chat" \in Files
  BY DEF Files
<1>1. ASSUME NEW o \in Options, NEW vault \in {Outside, "bot"}, Begin(o, vault) PROVE ChatInv'
  BY <1>1 DEF Begin, ChatInv
<1>2. CASE CopyEntry
  <2>1. /\ pc = "copy" /\ copied \in 0..2 /\ copied' = copied + 1 /\ UNCHANGED <<own, opts>>
        /\ pc' = IF copied = 2 THEN "agent" ELSE "copy"
    BY <1>2, CopyOrderFacts, CopyEntryEffect DEF CopyEntry
  <2>2. CASE copied = 0
    BY <2>1, <2>2 DEF ChatInv
  <2>3. CASE copied = 1
    <3>1. disk'["chat"].key = DefaultKey
      BY <1>2, <2>3, CopyOrderFacts, CopyEntryEffect, WrittenFacts DEF CopyEntry
    <3> QED BY <2>1, <2>3, <3>1 DEF ChatInv
  <2>4. CASE copied = 2
    <3>1. disk'["chat"] = disk["chat"] /\ ("chat" \in touched => "chat" \in touched')
      BY <1>0, <1>2, <2>4, CopyOrderFacts, CopyEntryEffect DEF CopyEntry
    <3> QED BY <2>1, <2>4, <3>1 DEF ChatInv
  <2> QED BY <2>1, <2>2, <2>3, <2>4
<1>3. CASE RewriteAgent
  BY <1>0, <1>3, RewriteAgentEffect DEF RewriteAgent, ChatInv
<1>4. CASE RewriteChat
  BY <1>4, RewriteChatEffect DEF RewriteChat, ChatInv
<1>5. CASE WriteIgnore
  BY <1>0, <1>5, WriteIgnoreEffect DEF WriteIgnore, ChatInv
<1>6. CASE WriteLock
  BY <1>6 DEF WriteLock, ChatInv
<1>7. CASE Build
  BY <1>7 DEF Build, AfterBuild, ChatInv
<1>8. CASE BuildFails
  BY <1>8 DEF BuildFails, ChatInv
<1>9. CASE RewriteDefault
  BY <1>9, RewriteDefaultEffect DEF RewriteDefault, ChatInv
<1>10. CASE SaveEnv
  BY <1>0, <1>10, SaveEnvEffect DEF SaveEnv, ChatInv
<1>11. CASE Launch
  BY <1>11 DEF Launch, End, ChatInv
<1>12. CASE Fails
  BY <1>12 DEF Fails, End, ChatInv
<1>13. ASSUME NEW f \in Files, UserEdits(f) PROVE ChatInv'
  <2>1. f # "chat" => disk'["chat"] = disk["chat"]
    BY <1>0, <1>13, UserEditsEffect
  <2> QED BY <1>13, <2>1 DEF UserEdits, ChatInv
<1>14. ASSUME NEW r \in Runtimes, PruneImage(r) PROVE ChatInv'
  BY <1>14 DEF PruneImage, ChatInv
<1>15. ASSUME NEW force \in BOOLEAN, Upgrade(force) PROVE ChatInv'
  BY <1>15 DEF Upgrade, ChatInv
<1>16. CASE UNCHANGED vars
  BY <1>16 DEF vars, ChatInv
<1> QED
  BY <1>1, <1>2, <1>3, <1>4, <1>5, <1>6, <1>7, <1>8, <1>9, <1>10, <1>11, <1>12, <1>13, <1>14,
     <1>15, <1>16 DEF Next, Command, World

\* The image that was built stays the one agent.claw and chat.sh go by.
LEMMA ImageStep == TypeOK /\ ProgressInv /\ ChatInv /\ ImageInv /\ [Next]_vars => ImageInv'
<1> SUFFICES ASSUME TypeOK, ProgressInv, ChatInv, ImageInv, [Next]_vars,
                    built', "agent" \notin touched'
             PROVE  /\ pinned' \in Images /\ tagged'[pinned'.on] = pinned'.of
                    /\ pc' \in Finishing => effective' = pinned'.on
                    /\ pc' # "default" /\ "chat" \notin touched' =>
                         (own' /\ ~fellBack') \/ disk'["chat"].runtime = pinned'.on
  BY DEF ImageInv
<1> USE DEF theTemplate, project, choice, progress, history, Still, At, Goto,
            Copied, Fitted, Finishing
<1>0. "chat" \in Files /\ "agent" \in Files
  BY DEF Files
<1>1. ASSUME NEW o \in Options, NEW vault \in {Outside, "bot"}, Begin(o, vault) PROVE FALSE
  BY <1>1 DEF Begin
<1>2. pc \notin {"copy"} \cup Copied \cup {"ignore", "lock"}
  BY DEF ProgressInv, CopyEntry, RewriteAgent, RewriteChat, WriteIgnore, WriteLock, BuildFails,
         Build, RewriteDefault, SaveEnv, Launch, Fails, End, UserEdits, PruneImage, Upgrade,
         Begin, Next, Command, World, vars
<1>3. CASE Build
  <2> DEFINE r == NextCandidate
  <2>1. r \in Runtimes
    BY <1>3, NextCandidateIsRuntime DEF Build
  <2> HIDE DEF r
  <2>2. tagged'[r] \in Content
    BY <1>3, <2>1 DEF Build, Recoverable, TypeOK, Files, r
  <2>3. pinned' = [on |-> r, of |-> tagged'[r]] /\ effective' = r /\ pc' = AfterBuild(r)
        /\ fellBack' = (r # selected) /\ UNCHANGED <<own, disk, selected, touched>> /\ pc = "build"
    BY <1>3 DEF Build, r
  <2>4. pinned' \in Images /\ pinned'.on = r /\ pinned'.of = tagged'[r]
    BY <2>1, <2>2, <2>3 DEF Images
  <2>5. "chat" \notin touched /\ ~own => disk["chat"].runtime = selected
    BY <2>3 DEF ChatInv
  <2> QED BY <2>3, <2>4, <2>5 DEF AfterBuild
<1>4. CASE BuildFails
  BY <1>4 DEF BuildFails, ProgressInv
<1>5. CASE RewriteDefault
  <2>1. pinned \in Images /\ tagged[pinned.on] = pinned.of /\ effective = pinned.on
    BY <1>5 DEF RewriteDefault, ImageInv
  <2> QED BY <1>5, <2>1, RewriteDefaultEffect DEF RewriteDefault
<1>6. CASE SaveEnv
  BY <1>0, <1>6, SaveEnvEffect DEF SaveEnv, ImageInv
<1>7. CASE Launch
  BY <1>7 DEF Launch, End, ImageInv
<1>8. CASE Fails
  <2>1. pc \in {"env", "launch"} /\ built
    BY <1>2, <1>8 DEF Fails, PCs, TypeOK, ProgressInv
  <2>2. disk'["chat"] = disk["chat"] /\ pinned' = pinned
    BY <1>0, <1>8, <2>1, FailsEffect, InWritingFacts
  <2>3. /\ pc' = "idle" /\ UNCHANGED <<own, tagged, fellBack>>
        /\ "agent" \notin touched /\ ("chat" \notin touched' => "chat" \notin touched)
    BY <1>8 DEF Fails, End
  <2> QED BY <2>1, <2>2, <2>3 DEF ImageInv
<1>9. ASSUME NEW f \in Files, UserEdits(f)
      PROVE  /\ UNCHANGED <<pinned, tagged, effective, pc, own, fellBack, built>>
             /\ touched \subseteq touched'
             /\ "chat" \notin touched' => disk'["chat"] = disk["chat"]
  <2>1. f # "agent"
    BY <1>9 DEF UserEdits
  <2> QED BY <1>0, <1>9, <2>1, UserEditsEffect DEF UserEdits
<1>10. ASSUME NEW r \in Runtimes, PruneImage(r) PROVE FALSE
  BY <1>10 DEF PruneImage
<1>11. ASSUME NEW force \in BOOLEAN, Upgrade(force)
       PROVE  /\ UNCHANGED <<pinned, tagged, effective, pc, own, fellBack, built>>
              /\ touched \subseteq touched'
              /\ "chat" \notin touched' => disk'["chat"] = disk["chat"]
  <2>1. PICK done \in SUBSET manages :
          /\ disk' = [f \in Files |-> IF f \in done THEN Written("template") ELSE disk[f]]
          /\ touched' = touched \cup done
    BY <1>11, UpgradeEffect
  <2> QED BY <1>0, <1>11, <2>1 DEF Upgrade
<1>12. ASSUME UNCHANGED <<pinned, tagged, effective, pc, own, fellBack, built>>,
              touched \subseteq touched',
              "chat" \notin touched' => disk'["chat"] = disk["chat"]
       PROVE  /\ pinned' \in Images /\ tagged'[pinned'.on] = pinned'.of
              /\ pc' \in Finishing => effective' = pinned'.on
              /\ pc' # "default" /\ "chat" \notin touched' =>
                   (own' /\ ~fellBack') \/ disk'["chat"].runtime = pinned'.on
  BY <1>12 DEF ImageInv
<1>13. CASE UNCHANGED vars
  BY <1>13, <1>12 DEF vars
<1> QED
  BY <1>1, <1>2, <1>3, <1>4, <1>5, <1>6, <1>7, <1>8, <1>9, <1>10, <1>11, <1>12, <1>13
     DEF Next, Command, World, CopyEntry, RewriteAgent, RewriteChat, WriteIgnore, WriteLock

\* Whose key is in .env stays known.
LEMMA EnvStep == TypeOK /\ ProgressInv /\ EnvInv /\ [Next]_vars => EnvInv'
<1> SUFFICES ASSUME TypeOK, ProgressInv, EnvInv, [Next]_vars PROVE EnvInv'
  OBVIOUS
<1> USE DEF theTemplate, project, choice, progress, history, Still, At, Goto
<1>0. "env" \in Files
  BY DEF Files
<1>1. ASSUME NEW o \in Options, NEW vault \in {Outside, "bot"}, Begin(o, vault) PROVE EnvInv'
  BY <1>1 DEF Begin, EnvInv, Holds
<1>2. ASSUME pc # "idle", disk'["env"] = disk["env"], UNCHANGED <<opts, current>>,
             "env" \in touched => "env" \in touched'
      PROVE  EnvInv'
  BY <1>2 DEF EnvInv, Holds
<1>3. CASE CopyEntry
  <2>1. disk'["env"] = disk["env"] /\ ("env" \in touched => "env" \in touched')
    BY <1>0, <1>3, CopyOrderFacts, CopyEntryEffect DEF CopyEntry
  <2> QED BY <1>2, <1>3, <2>1 DEF CopyEntry
<1>4. CASE RewriteAgent
  BY <1>0, <1>2, <1>4, RewriteAgentEffect DEF RewriteAgent
<1>5. CASE RewriteChat
  BY <1>0, <1>2, <1>5, RewriteChatEffect DEF RewriteChat
<1>6. CASE WriteIgnore
  BY <1>0, <1>2, <1>6, WriteIgnoreEffect DEF WriteIgnore
<1>7. CASE WriteLock \/ Build \/ BuildFails
  BY <1>2, <1>7 DEF WriteLock, Build, BuildFails
<1>8. CASE RewriteDefault
  BY <1>0, <1>2, <1>8, RewriteDefaultEffect DEF RewriteDefault
<1>9. CASE SaveEnv
  <2>1. opts' = opts /\ touched' = touched /\ pc = "env"
    BY <1>9 DEF SaveEnv
  <2> QED BY <1>9, <2>1, SaveEnvEffect DEF EnvInv, Holds
<1>10. CASE Launch \/ Fails
  BY <1>10 DEF Launch, Fails, End, EnvInv
<1>11. ASSUME NEW f \in Files, UserEdits(f) PROVE EnvInv'
  <2>1. /\ UNCHANGED <<pc, opts>> /\ touched' = touched \cup {f} /\ (f # "env" => current' = current)
        /\ f # "env" => disk'["env"] = disk["env"]
    BY <1>0, <1>11, UserEditsEffect DEF UserEdits, TypeOK
  <2> QED BY <2>1 DEF EnvInv, Holds
<1>12. ASSUME NEW r \in Runtimes, PruneImage(r) PROVE EnvInv'
  BY <1>12 DEF PruneImage, EnvInv, Holds
<1>13. ASSUME NEW force \in BOOLEAN, Upgrade(force) PROVE EnvInv'
  BY <1>13 DEF Upgrade, EnvInv
<1>14. CASE UNCHANGED vars
  BY <1>14 DEF vars, EnvInv, Holds
<1> QED
  BY <1>1, <1>3, <1>4, <1>5, <1>6, <1>7, <1>8, <1>9, <1>10, <1>11, <1>12, <1>13, <1>14
     DEF Next, Command, World

\* The lock stays the record of what the command left.
LEMMA LockStep == TypeOK /\ ProgressInv /\ NoFalseConflicts /\ [Next]_vars => NoFalseConflicts'
<1> SUFFICES ASSUME TypeOK, ProgressInv, NoFalseConflicts, [Next]_vars,
                    recorded', ~fellBack', NEW f \in manages', f \notin touched'
             PROVE  lock'[f] = disk'[f]
  BY DEF NoFalseConflicts
<1> USE DEF theTemplate, project, choice, progress, history, Still, At, Goto
<1>0. manages' = manages
  BY DEF CopyEntry, RewriteAgent, RewriteChat, WriteIgnore, WriteLock, BuildFails,
         Build, RewriteDefault, SaveEnv, Launch, Fails, End, UserEdits, PruneImage, Upgrade,
         Begin, Next, Command, World, vars
<1>1. f \in {"chat", "bot", "extra"} /\ f \in Files /\ f \in manages
  BY <1>0, QuickstartAssumption DEF TypeOK, Files
<1>2. ASSUME UNCHANGED lock, disk'[f] = disk[f], touched \subseteq touched', recorded, ~fellBack
      PROVE  lock'[f] = disk'[f]
  BY <1>1, <1>2 DEF NoFalseConflicts
<1>3. ASSUME NEW o \in Options, NEW vault \in {Outside, "bot"}, Begin(o, vault) PROVE FALSE
  BY <1>3 DEF Begin
<1>4. CASE CopyEntry \/ RewriteAgent \/ RewriteChat \/ WriteIgnore
  BY <1>4 DEF CopyEntry, RewriteAgent, RewriteChat, WriteIgnore, ProgressInv
<1>5. CASE WriteLock
  <2>1. lock' = HashManagedFiles /\ disk' = disk
    BY <1>5 DEF WriteLock, ProgressInv
  <2> QED BY <1>1, <2>1 DEF HashManagedFiles
<1>6. CASE Build
  BY <1>2, <1>6 DEF Build, ProgressInv, Fitted
<1>7. CASE BuildFails
  BY <1>2, <1>7 DEF BuildFails
<1>8. CASE RewriteDefault
  BY <1>8 DEF RewriteDefault, ProgressInv
<1>9. CASE SaveEnv
  BY <1>1, <1>2, <1>9, SaveEnvEffect DEF SaveEnv
<1>10. CASE Launch
  <2>1. recorded /\ ~fellBack /\ UNCHANGED <<lock, disk>> /\ f \notin touched
    BY <1>1, <1>10 DEF Launch, End
  <2> QED BY <1>1, <2>1 DEF NoFalseConflicts
<1>11. CASE Fails
  <2>1. recorded /\ ~fellBack /\ lock' = lock /\ f \notin touched
    BY <1>1, <1>11 DEF Fails, End
  <2>2. pc \in {"build", "env", "launch"}
    BY <1>11, <2>1 DEF Fails, ProgressInv, PCs, TypeOK
  <2>3. disk'[f] = disk[f]
    BY <1>1, <1>11, <2>2, FailsEffect, InWritingFacts
  <2> QED BY <1>1, <2>1, <2>3 DEF NoFalseConflicts
<1>12. ASSUME NEW g \in Files, UserEdits(g) PROVE lock'[f] = disk'[f]
  <2>1. f # g
    BY <1>12 DEF UserEdits
  <2> QED BY <1>1, <1>2, <1>12, <2>1, UserEditsEffect DEF UserEdits
<1>13. ASSUME NEW r \in Runtimes, PruneImage(r) PROVE lock'[f] = disk'[f]
  BY <1>2, <1>13 DEF PruneImage
<1>14. ASSUME NEW force \in BOOLEAN, Upgrade(force) PROVE lock'[f] = disk'[f]
  <2>1. PICK done \in SUBSET manages :
          /\ disk' = [g \in Files |-> IF g \in done THEN Written("template") ELSE disk[g]]
          /\ lock' = IF done = manages
                     THEN [g \in Files |-> IF g \in manages THEN disk'[g] ELSE Absent] ELSE lock
          /\ touched' = touched \cup done
    BY <1>14, UpgradeEffect
  <2>2. f \notin done /\ lock' = lock /\ disk'[f] = disk[f]
    BY <1>1, <2>1
  <2> QED BY <1>2, <1>14, <2>1, <2>2 DEF Upgrade
<1>15. CASE UNCHANGED vars
  BY <1>2, <1>15 DEF vars
<1> QED
  BY <1>3, <1>4, <1>5, <1>6, <1>7, <1>8, <1>9, <1>10, <1>11, <1>12, <1>13, <1>14, <1>15
     DEF Next, Command, World

\* A new project satisfies the invariant.
LEMMA InitInv == Init => IInv
<1> SUFFICES ASSUME Init PROVE IInv
  OBVIOUS
<1>1. TypeOK
  <2>1. NoOptions \in Options /\ Absent \in Content
    BY QuickstartAssumption, WrittenFacts DEF NoOptions, Options, Absent
  <2>2. disk \in [Files -> Content] /\ lock \in [Files -> Content]
    BY <2>1 DEF Init
  <2>3. tagged \in [Runtimes -> Content \cup {NoImage}] /\ pinned \in Images \cup {NoImage}
    BY DEF Init
  <2>4. events \in 0..MaxEvents /\ copied \in 0..3 /\ tried \subseteq Runtimes
    BY QuickstartAssumption DEF Init
  <2>5. /\ own \in BOOLEAN /\ manages \in Manifests /\ pc \in PCs /\ opts \in Options
        /\ selected \in Runtimes /\ effective \in Runtimes
        /\ built \in BOOLEAN /\ fellBack \in BOOLEAN /\ recorded \in BOOLEAN
        /\ current \in BOOLEAN /\ touched \subseteq Files
    BY <2>1, QuickstartAssumption DEF Init, PCs
  <2> QED BY <2>2, <2>3, <2>4, <2>5 DEF TypeOK
<1> QED BY <1>1 DEF Init, IInv, ProgressInv, UserInv, ChatInv, ImageInv, EnvInv,
                    NoFalseConflicts, Copied, Fitted, Finishing

-------------------------------------------------------------------------------
(* What every reachable state satisfies *)

\* IInv holds in every reachable state.
THEOREM Inductive == Spec => []IInv
<1>1. IInv /\ [Next]_vars => IInv'
  BY TypeStep, ProgressStep, UserStep, ChatStep, ImageStep, EnvStep, LockStep DEF IInv
<1> QED BY InitInv, <1>1, PTL DEF Spec

\* No state is ill-formed, whatever fails, is edited or removed.
THEOREM TypeCorrect == Spec => []TypeOK
<1>1. IInv => TypeOK
  BY DEF IInv
<1> QED BY <1>1, Inductive, PTL

\* The chat is launched on the runtime that has the image agent.claw names,
\* whichever candidate built it.
THEOREM ChatFindsItsImage == Spec => []ChatFindsImage
<1>1. IInv => ChatFindsImage
  <2> SUFFICES ASSUME IInv, built, pc # "default", touched \cap {"agent", "chat"} = {}
               PROVE  /\ pinned # NoImage /\ tagged[pinned.on] = pinned.of
                      /\ pc = "launch" /\ opts.cmd = "quickstart" => LaunchRuntime = pinned.on
                      /\ (own /\ ~fellBack) \/ disk["chat"].runtime = pinned.on
    BY DEF ChatFindsImage, At
  <2>1. "agent" \notin touched /\ "chat" \notin touched
    OBVIOUS
  <2> QED BY <2>1, NoImageAssumption DEF IInv, ImageInv, LaunchRuntime, Finishing
<1> QED BY <1>1, Inductive, PTL

\* Where chat.sh has the command's defaults (or the template's name for the key was
\* asked for anyway), the chat `onboard` launches finds a key under the name that was
\* asked for, and the given one unless .env already held something.
THEOREM OnboardedFindsKey == Spec => []OnboardedChatFindsKey
<1>1. IInv => OnboardedChatFindsKey
  <2> SUFFICES ASSUME IInv, pc = "launch", opts.cmd = "onboard", "chat" \notin touched,
                      ~own \/ opts.key = DefaultKey
               PROVE  FoundKey # "none" /\ ("env" \notin touched => FoundKey = "given")
    BY DEF OnboardedChatFindsKey
  <2>1. LaunchKey = opts.key
    BY DEF IInv, ChatInv, LaunchKey, Finishing
  <2>2. "env" \notin touched /\ Holds("env") => current
    BY DEF IInv, EnvInv
  <2> QED BY <2>1, <2>2 DEF FoundKey
<1> QED BY <1>1, Inductive, PTL

\* A project as quickstart left it is not in conflict with its lock.
THEOREM LocksAreExact == Spec => []NoFalseConflicts
<1>1. IInv => NoFalseConflicts
  BY DEF IInv
<1> QED BY <1>1, Inductive, PTL

\* No step of the command overwrites a file of the user's that it was not told
\* to, unless the user was faster or keeps the vault there.
THEOREM UserFilesAreSafe == Spec => UserFilesSurvive
<1>1. IInv /\ [Next]_vars =>
        [Command => \A f \in Files : disk[f].by = "user" /\ disk'[f] # disk[f] =>
           /\ f \notin {"env", "ignore"}
           /\ opts.force \/ f \in touched]_vars
  <2> SUFFICES ASSUME IInv, Command, NEW f \in Files, disk[f].by = "user", disk'[f] # disk[f]
               PROVE  f \notin {"env", "ignore"} /\ (opts.force \/ f \in touched)
    OBVIOUS
  <2>1. TypeOK /\ ProgressInv /\ UserInv
    BY DEF IInv
  <2>2. CASE CopyEntry
    BY <2>1, <2>2, CopyOrderFacts, CopyEntryEffect DEF CopyEntry, At, UserInv
  <2>3. CASE RewriteAgent
    BY <2>1, <2>3, RewriteAgentEffect DEF RewriteAgent, At, UserInv
  <2>4. CASE RewriteChat
    BY <2>1, <2>4, RewriteChatEffect DEF RewriteChat, At, UserInv
  <2>5. CASE WriteIgnore
    BY <2>1, <2>5, WriteIgnoreEffect
  <2>6. CASE RewriteDefault
    BY <2>1, <2>6, RewriteDefaultEffect DEF RewriteDefault, At, UserInv
  <2>7. CASE SaveEnv
    BY <2>1, <2>7, SaveEnvEffect
  <2>8. CASE WriteLock \/ Build \/ BuildFails \/ Launch
    BY <2>8 DEF WriteLock, Build, BuildFails, Launch, End, project
  <2>9. CASE Fails
    <3>1. f \in InWriting /\ pc # "idle"
      BY <2>1, <2>9, FailsEffect DEF Fails, At
    <3>2. f \notin {"env", "ignore"}
      BY <2>1, <3>1, CopyOrderFacts DEF InWriting, At, Holds
    <3> QED BY <2>1, <3>1, <3>2 DEF UserInv
  <2> QED BY <2>2, <2>3, <2>4, <2>5, <2>6, <2>7, <2>8, <2>9 DEF Command
<1> QED BY <1>1, Inductive, PTL DEF Spec, UserFilesSurvive
===============================================================================
