---------------------------- MODULE CapsuleRelease ----------------------------
(***************************************************************************)
(* internal/compiler, locks, capsule and release: `compile` turns a         *)
(* clawfile and the tree around it into a capsule directory named by its    *)
(* content; `release` compiles (or takes a capsule), copies the capsule     *)
(* into a release directory, signs it with the key of the state directory,  *)
(* which it creates if there is none, and `verify` checks the result.       *)
(*                                                                         *)
(* Each command is a process.  They share the source tree, the capsules and *)
(* the key file and lock none of them; every file is written by truncating  *)
(* it first, so each truncation, write and copy is a step and a process may *)
(* die, or its disk be full, between any two.                               *)
(*                                                                         *)
(* A definition Name_Slip is a deliberately wrong variant of Name, used to  *)
(* show that some property depends on that part of the code.                *)
(*                                                                         *)
(* Abstracted: a file holds what it should ("ok"), less ("torn": truncated  *)
(* and not rewritten, or a copy of that), something else that its parser    *)
(* would notice ("altered") or does not exist; a digest stands for the      *)
(* content it is computed from.  "ir" stands for all that is derived from   *)
(* the clawfile (ir, policy, image and deps lock), "source" for the source  *)
(* lock, "portable" for compat/portable-run-spec.json.  A read of one file  *)
(* is atomic, and so is Load.  A key is named by the process that generated *)
(* it.                                                                      *)
(***************************************************************************)
EXTENDS Naturals, Sequences

CONSTANTS
  Procs,        \* compile and release commands
  Versions,     \* states of the source tree
  StrictOK,     \* the versions whose clawfile passes the strict checks
  StateInTree,  \* is the state directory inside the source tree?
  NoVersion, NoCapsule,
  MaxEvents     \* bound on edits, deaths and alterations together

ASSUME CapsuleReleaseAssumption ==
  /\ StrictOK \subseteq Versions
  /\ StateInTree \in BOOLEAN
  /\ NoVersion \notin Versions
  /\ Procs \cap {"absent", "torn", "ok", "altered", "none"} = {}
  /\ MaxEvents \in Nat

Docs == {"manifest", "ir", "source", "portable"}
WriteOrder == <<"manifest", "ir", "source", "portable">>  \* capsule.Write
\* copyDir walks in lexical order; policy.json, part of "ir", is really its last file.
CopyOrder  == <<"portable", "ir", "source", "manifest">>

\* The files whose content verifyManifest and the attestation pin down.
Digested == {"manifest", "ir", "source"}

\* What release.Create writes beside the copy of the capsule, in its order.
ArtifactOrder == <<"public_key", "release", "provenance", "attestation", "signature">>
Artifacts == {"public_key", "release", "provenance", "attestation", "signature"}

\* A capsule id is a digest of the clawfile's and the source tree's content.
\* What earlier releases left in that tree is a part of the content as well.
Capsules == [ir : Versions, source : Versions,
             leftovers : SUBSET (IF StateInTree THEN Procs ELSE {})]
ASSUME NoCapsuleAssumption == NoCapsule \notin Capsules

VARIABLES
  source,   \* the version of the source tree
  caps,     \* caps[c]: the files of directory cap_<c>
  key,      \* the private key file: "absent", "torn" or the key in it
  pc,       \* pc[p]: where p stands
  job,      \* job[p]: "compile" or "release"
  strict,   \* strict[p]: --strict
  claw,     \* claw[p]: the version of the clawfile p has parsed
  id,       \* id[p]: the capsule p is writing or has chosen
  step,     \* step[p]: how many files of the current sequence p has finished
  signer,   \* signer[p]: the key p signs with
  copy,     \* copy[p]: the capsule directory inside p's release directory
  arts,     \* arts[p]: the other files of p's release directory
  clean,    \* history: p began to write its capsule and no other has written it since
  raced,    \* history: another command wrote p's capsule between p's load of it and
            \* the end of its copy
  touched,  \* history: what was altered in p's finished release
  events    \* edits, deaths and alterations so far

store   == <<source, caps, key>>
own     == <<pc, job, strict, claw, id, step, signer, copy, arts>>
history == <<clean, raced, touched, events>>
vars    == <<store, own, history>>

PCs == {"idle", "parse", "lock", "truncate", "fill", "load", "check", "open", "copy",
        "key", "genkey", "savekey", "create", "publish", "done", "failed", "stopped"}

FileState == {"absent", "torn", "ok", "altered"}

TypeOK ==
  /\ source \in Versions
  /\ caps \in [Capsules -> [Docs -> {"absent", "torn", "ok"}]]
  /\ key \in Procs \cup {"absent", "torn"}
  /\ pc \in [Procs -> PCs]
  /\ job \in [Procs -> {"compile", "release"}]
  /\ strict \in [Procs -> BOOLEAN]
  /\ claw \in [Procs -> Versions \cup {NoVersion}]
  /\ id \in [Procs -> Capsules \cup {NoCapsule}]
  /\ step \in [Procs -> 0..Len(ArtifactOrder)]
  /\ signer \in [Procs -> Procs \cup {"none"}]
  /\ copy \in [Procs -> [Docs -> FileState]]
  /\ arts \in [Procs -> [Artifacts -> FileState \cup Procs]]
  /\ clean \in [Procs -> BOOLEAN] /\ raced \in [Procs -> BOOLEAN]
  /\ touched \in [Procs -> SUBSET (Docs \cup Artifacts \cup {"padding"})]
  /\ events \in 0..MaxEvents

NoDocs == [d \in Docs |-> "absent"]

Init ==
  /\ source \in Versions
  /\ caps = [c \in Capsules |-> NoDocs]
  /\ key = "absent"
  /\ pc = [p \in Procs |-> "idle"]
  /\ job = [p \in Procs |-> "compile"]
  /\ strict = [p \in Procs |-> FALSE]
  /\ claw = [p \in Procs |-> NoVersion]
  /\ id = [p \in Procs |-> NoCapsule]
  /\ step = [p \in Procs |-> 0]
  /\ signer = [p \in Procs |-> "none"]
  /\ copy = [p \in Procs |-> NoDocs]
  /\ arts = [p \in Procs |-> [a \in Artifacts |-> "absent"]]
  /\ clean = [p \in Procs |-> FALSE]
  /\ raced = [p \in Procs |-> FALSE]
  /\ touched = [p \in Procs |-> {}]
  /\ events = 0

-------------------------------------------------------------------------------
(* Helpers *)

At(p, from) == pc[p] = from
Goto(p, to) == pc' = [pc EXCEPT ![p] = to]
Return(p, how) == Goto(p, how)

Event == events < MaxEvents /\ events' = events + 1

\* What is in the source tree besides the sources: .git, .metaclaw and the
\* capsules are excluded from the source lock, release directories are not.
Leftovers == IF StateInTree THEN {q \in Procs : copy[q] # NoDocs} ELSE {}

\* verifyManifest: the manifest parses and every digest it names matches.  It names
\* none for the portable run spec.
Loads(dir) == \A d \in Digested : dir[d] = "ok"

\* p has loaded its capsule and not yet copied all of it.
Copying(p) == pc[p] \in {"check", "open", "copy"}

\* strictChecks with --strict.
Acceptable(p) == strict[p] => id[p].ir \in StrictOK

\* The next file of the sequence p is working through; after it, either the
\* next file or whatever comes behind the last.
NextDoc(p, order) == order[step[p] + 1]
Advance(p, order, again, after) ==
  IF step[p] + 1 < Len(order)
  THEN step' = [step EXCEPT ![p] = @ + 1] /\ Goto(p, again)
  ELSE step' = [step EXCEPT ![p] = 0] /\ Goto(p, after)

\* The public key and the signature belong to the key p holds.
Content_StoredKey(p, a) == IF a = "public_key" THEN key ELSE
                           IF a = "signature" THEN signer[p] ELSE "ok"
Content(p, a) == IF a \in {"public_key", "signature"} THEN signer[p] ELSE "ok"

-------------------------------------------------------------------------------
(* Compiling *)

\* `compile` or `release` is given the clawfile.
StartClaw(p) ==
  /\ At(p, "idle")
  /\ \E j \in {"compile", "release"}, s \in BOOLEAN :
       (j = "compile" => ~s) /\ job' = [job EXCEPT ![p] = j] /\ strict' = [strict EXCEPT ![p] = s]
  /\ Goto(p, "parse")
  /\ UNCHANGED <<store, claw, id, step, signer, copy, arts, history>>

\* LoadNormalize and policy.Compile read the clawfile.
Parse(p) ==
  /\ At(p, "parse")
  /\ claw' = [claw EXCEPT ![p] = source]
  /\ Goto(p, "lock")
  /\ UNCHANGED <<store, job, strict, id, step, signer, copy, arts, history>>

\* locks.Generate hashes the tree; with that the capsule's name is known.
GenerateLocks_ReusesExisting(p) ==
  /\ At(p, "lock")
  /\ LET c == [ir |-> claw[p], source |-> source, leftovers |-> Leftovers]
     IN  /\ id' = [id EXCEPT ![p] = c]
         /\ Goto(p, IF caps[c] = NoDocs THEN "truncate"
                    ELSE IF job[p] = "compile" THEN "done" ELSE "load")
  /\ clean' = [clean EXCEPT ![p] = TRUE]
  /\ UNCHANGED <<store, job, strict, claw, step, signer, copy, arts, raced, touched, events>>
GenerateLocks(p) ==
  /\ At(p, "lock")
  /\ id' = [id EXCEPT ![p] = [ir |-> claw[p], source |-> source, leftovers |-> Leftovers]]
  /\ Goto(p, "truncate")
  /\ clean' = [clean EXCEPT ![p] = TRUE]
  /\ UNCHANGED <<store, job, strict, claw, step, signer, copy, arts, raced, touched, events>>

\* Write overwrites the directory's files one by one, existing or not.
Truncate(p) ==
  /\ At(p, "truncate")
  /\ caps' = [caps EXCEPT ![id[p]][NextDoc(p, WriteOrder)] = "torn"]
  /\ clean' = [q \in Procs |-> clean[q] /\ (q = p \/ id[q] # id[p])]
  /\ raced' = [q \in Procs |-> raced[q] \/ (Copying(q) /\ id[q] = id[p])]
  /\ Goto(p, "fill")
  /\ UNCHANGED <<source, key, job, strict, claw, id, step, signer, copy, arts, touched, events>>

Fill(p) ==
  /\ At(p, "fill")
  /\ caps' = [caps EXCEPT ![id[p]][NextDoc(p, WriteOrder)] = "ok"]
  /\ Advance(p, WriteOrder, "truncate", IF job[p] = "compile" THEN "done" ELSE "load")
  /\ UNCHANGED <<source, key, job, strict, claw, id, signer, copy, arts, history>>

-------------------------------------------------------------------------------
(* Releasing *)

\* `release` is given a capsule directory.
StartCapsule(p) ==
  /\ At(p, "idle")
  /\ \E c \in Capsules, s \in BOOLEAN :
       /\ caps[c] # NoDocs
       /\ id' = [id EXCEPT ![p] = c]
       /\ strict' = [strict EXCEPT ![p] = s]
  /\ job' = [job EXCEPT ![p] = "release"]
  /\ Goto(p, "load")
  /\ UNCHANGED <<store, claw, step, signer, copy, arts, history>>

\* capsule.Load.
Load(p) ==
  /\ At(p, "load")
  /\ IF Loads(caps[id[p]]) THEN Goto(p, "check") ELSE Return(p, "failed")
  /\ UNCHANGED <<store, job, strict, claw, id, step, signer, copy, arts, history>>

\* loadCapsuleDocs reads ir and source lock once more: a torn one does not parse.
Check(p) ==
  /\ At(p, "check")
  /\ IF caps[id[p]]["ir"] = "ok" /\ caps[id[p]]["source"] = "ok" /\ Acceptable(p)
     THEN Goto(p, "open") ELSE Return(p, "failed")
  /\ UNCHANGED <<store, job, strict, claw, id, step, signer, copy, arts, history>>

\* copyDir, one file: it is created empty, then filled with what the capsule's holds.
\* The walk passes over a portable run spec the capsule lacks.
OpenCopy(p) ==
  /\ At(p, "open")
  /\ copy' = [copy EXCEPT ![p][NextDoc(p, CopyOrder)] = "torn"]
  /\ Goto(p, "copy")
  /\ UNCHANGED <<store, job, strict, claw, id, step, signer, arts, history>>

CopyDoc(p) ==
  /\ At(p, "copy")
  /\ LET d == NextDoc(p, CopyOrder) IN copy' = [copy EXCEPT ![p][d] = caps[id[p]][d]]
  /\ Advance(p, CopyOrder, "open", "key")
  /\ UNCHANGED <<store, job, strict, claw, id, signer, arts, history>>

\* loadOrCreatePrivateKey: only a missing file leads to a new key.
ReadKey_TornIsKey(p) ==
  /\ At(p, "key")
  /\ \/ key = "absent" /\ Goto(p, "genkey") /\ UNCHANGED signer
     \/ key # "absent" /\ Goto(p, "create") /\ signer' = [signer EXCEPT ![p] = key]
  /\ UNCHANGED <<store, job, strict, claw, id, step, copy, arts, history>>
ReadKey(p) ==
  /\ At(p, "key")
  /\ \/ key = "absent" /\ Goto(p, "genkey") /\ UNCHANGED signer
     \/ key = "torn" /\ Return(p, "failed") /\ UNCHANGED signer
     \/ key \in Procs /\ Goto(p, "create") /\ signer' = [signer EXCEPT ![p] = key]
  /\ UNCHANGED <<store, job, strict, claw, id, step, copy, arts, history>>

\* writePrivateKeyPEM truncates whatever is there by now, then writes.
TruncateKey(p) ==
  /\ At(p, "genkey")
  /\ key' = "torn"
  /\ Goto(p, "savekey")
  /\ UNCHANGED <<source, caps, job, strict, claw, id, step, signer, copy, arts, history>>

SaveKey(p) ==
  /\ At(p, "savekey")
  /\ key' = p
  /\ signer' = [signer EXCEPT ![p] = p]
  /\ Goto(p, "create")
  /\ UNCHANGED <<source, caps, job, strict, claw, id, step, copy, arts, history>>

\* Public key, release.json, provenance, attestation and signature, in that order,
\* each created empty and then filled; Create succeeds with the last.
CreateArtifact(p) ==
  /\ At(p, "create")
  /\ arts' = [arts EXCEPT ![p][NextDoc(p, ArtifactOrder)] = "torn"]
  /\ Goto(p, "publish")
  /\ UNCHANGED <<store, job, strict, claw, id, step, signer, copy, history>>

Publish(p) ==
  /\ At(p, "publish")
  /\ LET a == NextDoc(p, ArtifactOrder) IN arts' = [arts EXCEPT ![p][a] = Content(p, a)]
  /\ Advance(p, ArtifactOrder, "create", "done")
  /\ UNCHANGED <<store, job, strict, claw, id, signer, copy, history>>

\* verifyReleaseDir of p's release with the key inside it: the capsule loads,
\* every artifact is there and matches the signed digests, the signature is the
\* embedded key's, and a strict release still passes the checks.  Nothing of it
\* looks at the portable run spec.
Verifies_Unsigned(p) ==
  /\ Loads(copy[p])
  /\ \A a \in {"release", "provenance", "attestation"} : arts[p][a] = "ok"
  /\ Acceptable(p)
Verifies(p) ==
  /\ Loads(copy[p])
  /\ \A a \in {"release", "provenance", "attestation"} : arts[p][a] = "ok"
  /\ arts[p]["signature"] \in Procs /\ arts[p]["public_key"] = arts[p]["signature"]
  /\ Acceptable(p)

-------------------------------------------------------------------------------
(* The world around the commands *)

EditSource ==
  /\ Event
  /\ \E v \in Versions \ {source} : source' = v
  /\ UNCHANGED <<caps, key, own, clean, raced, touched>>

\* p dies or cannot write: what is on disk stays as it is.
Stop(p) ==
  /\ pc[p] \notin {"idle", "done", "failed", "stopped"}
  /\ Event
  /\ Goto(p, "stopped")
  /\ UNCHANGED <<store, job, strict, claw, id, step, signer, copy, arts, clean, raced, touched>>

\* A file of a finished release is changed by an editor, a transfer or the disk.
\* "padding" is a change to the attestation, the signature or the public key that
\* their parsers skip (white space, an unknown JSON field, text around the PEM
\* block): these three are parsed and not digested, and the signature is over the
\* attestation as parsed.
Alter(p) ==
  /\ At(p, "done") /\ job[p] = "release"
  /\ Event
  /\ \E x \in Docs \cup Artifacts \cup {"padding"} :
       /\ touched' = [touched EXCEPT ![p] = @ \cup {x}]
       /\ copy' = IF x \in Docs THEN [copy EXCEPT ![p][x] = "altered"] ELSE copy
       /\ arts' = IF x \in Artifacts THEN [arts EXCEPT ![p][x] = "altered"] ELSE arts
  /\ UNCHANGED <<store, pc, job, strict, claw, id, step, signer, clean, raced>>

-------------------------------------------------------------------------------

Compile(p) == StartClaw(p) \/ Parse(p) \/ GenerateLocks(p) \/ Truncate(p) \/ Fill(p)

Create(p) ==
  \/ StartCapsule(p) \/ Load(p) \/ Check(p) \/ OpenCopy(p) \/ CopyDoc(p)
  \/ ReadKey(p) \/ TruncateKey(p) \/ SaveKey(p) \/ CreateArtifact(p) \/ Publish(p)

\* Every command has returned or died.
Rest == (\A p \in Procs : pc[p] \in {"done", "failed", "stopped"}) /\ UNCHANGED vars

Next == (\E p \in Procs : Compile(p) \/ Create(p) \/ Stop(p) \/ Alter(p)) \/ EditSource \/ Rest

Spec == Init /\ [][Next]_vars

-------------------------------------------------------------------------------
(* Safety *)

Releases == {p \in Procs : job[p] = "release"}

\* A compile that got to its end leaves a capsule that loads, whatever a crash
\* had left in that directory before, as long as no other command writes there.
FinishedCompileLoads ==
  \A p \in Procs :
    claw[p] # NoVersion /\ clean[p] /\ pc[p] \notin {"truncate", "fill", "stopped"}
    => Loads(caps[id[p]])

\* What may change in a release and `verify` not see it: the portable run spec, which
\* no digest covers, and padding.
Unseen == {"portable", "padding"}

\* A release that Create reports as made passes `verify`, however its steps mixed
\* with other compiles and releases and with the generation of the key, as long as
\* nobody altered it since.  One way remains to report a release that does not
\* pass: another command truncated a file of the very capsule while it was being
\* copied, between the check of its digests and the end of the copy, and the copy
\* took the torn file along (`verify` then finds it).
CreatedVerifies ==
  \A p \in Releases : pc[p] = "done" /\ touched[p] \subseteq Unseen =>
    Verifies(p) \/ (raced[p] /\ \E d \in Digested : copy[p][d] = "torn")

\* What passes `verify` is a release Create got to the end of, with every file it
\* digests, or signs, as it was made: no earlier stage of it passes, nor one that
\* stopped half way, nor one altered in any other file than the portable run spec
\* and otherwise than by padding.  Those two do pass.
VerifiedIsWhole == \A p \in Procs : Verifies(p) => pc[p] = "done" /\ touched[p] \subseteq Unseen

-------------------------------------------------------------------------------
(* What the repository says and the code does not do *)

\* "compile once, verify always": a capsule that loads goes on to do so.
LoadableForever == [][\A c \in Capsules : Loads(caps[c]) => Loads(caps'[c])]_vars

\* "reproducible", "deterministic manifest even with in-tree output": two compiles
\* of the same sources make the same capsule.
SameSourceSameCapsule ==
  \A p, q \in Procs :
    id[p] # NoCapsule /\ id[q] # NoCapsule
    /\ id[p].ir = id[q].ir /\ id[p].source = id[q].source => id[p] = id[q]
===============================================================================
