----------------------------- MODULE DiskUpdate -----------------------------
(***************************************************************************)
(* The host tools that put a new direct loader on the private disk image:  *)
(* they prepare a candidate copy, have it boot-tested and publish it by    *)
(* replacing the image.                                                    *)
(* Source: Tools/update-grub-direct-hdd.py (kinds direct, cpu_safe, diag)  *)
(* and Tools/prepare-kernel-console-hdd.py (kinds console and refresh).    *)
(*                                                                         *)
(* A tool holds update.lock, so one command runs at a time, in steps (the  *)
(* console command, which only reads the image, does without it); an       *)
(* emulator may use the image meanwhile, a build may replace the artifacts, *)
(* and the power may fail.  A content stands for its hash.  External: a    *)
(* file the tool wrote is torn by a power loss until it was fsync'ed (its   *)
(* name with it), and a rename may be undone until its directory was.  The *)
(* emulator's own writes are written through, and a content tells whether  *)
(* the image, or the candidate itself, was ever booted and written to.     *)
(* The geometry, volume ID and installed GRUB files are those expected.    *)
(***************************************************************************)
EXTENDS Integers, Sequences, FiniteSets

CONSTANTS
  Kinds,               \* a subset of {"direct", "cpu_safe", "diag", "console", "refresh"}
  FirstImages,         \* what the image may hold at first
  MaxBuild, MaxLoss, MaxCandidates

Blocks == {"dos", "direct", "cpu_safe", "diag", "console", "torn"}
Content == [user : SUBSET {"image", "candidate"}, menu : Seq(Blocks), module : Nat]
Offered(menu) == {menu[i] : i \in DOMAIN menu}
Rest(menu) == SubSeq(menu, 1, Len(menu) - 1)
EndsIn(menu, block) == menu # <<>> /\ menu[Len(menu)] = block

\* An update starts from a whole image, and a later kind builds on the earlier.
ASSUME UpdateAssumption ==
  /\ {"direct", "cpu_safe"} \subseteq Kinds
  /\ Kinds \subseteq {"direct", "cpu_safe", "diag", "console", "refresh"}
  /\ FirstImages \subseteq Content /\ \A c \in FirstImages : ~EndsIn(c.menu, "torn")
  /\ MaxBuild \in Nat

VARIABLES
  image,               \* [content, synced, before: the replaced file or NoFile]
  candidates,          \* for each kind
  reports, tested,     \* for each kind
  backup, snapshots, staging,
  artifact, manifest,  \* the module of the last build, and of its manifest
  emulator,            \* what it has open: "none" or "image"
  tool,                \* the running command
  losses,
  replaced, lost       \* ghosts: the image replaced last, as the tool saw it, and
                       \* whether a write was lost

diskFiles == <<image, candidates, backup, snapshots, staging>>
updateVars == <<diskFiles, reports, tested, artifact, manifest, emulator, tool, losses,
                replaced, lost>>

Torn == [user |-> {}, menu |-> <<"torn">>, module |-> 0]
NoFile == [content |-> Torn, synced |-> TRUE, exists |-> FALSE]
File(content) == [content |-> content, synced |-> FALSE, exists |-> TRUE]
Synced(f) == [f EXCEPT !.synced = TRUE]
NoBase == [source |-> Torn, candidate |-> Torn]
NoReport == [made |-> FALSE, source |-> Torn, seen |-> Torn, candidate |-> Torn, build |-> 0,
             base |-> NoBase]
NotTested == [content |-> Torn, ok |-> FALSE]
NoTool == [does |-> "nothing", kind |-> "direct", at |-> "idle", seen |-> Torn, build |-> 0,
           late |-> FALSE]

Refreshing(kind) == kind \in {"console", "refresh"}
\* read_manifest_inputs: the artifacts are those of the manifest.
ManifestValid == manifest = artifact
Base(kind) == IF kind \in {"cpu_safe", "diag"}
              THEN [source |-> reports["direct"].source, candidate |-> reports["direct"].candidate]
              ELSE NoBase

-----------------------------------------------------------------------------
(* Preparing a candidate.                                                  *)

\* What each kind wants of the image it starts from: no direct loader yet;
SuitsDirect(c) == "direct" \notin Offered(c.menu) /\ c.module = 0
\* exactly what the baseline report published;
SuitsUpdate(c) ==
  /\ reports["direct"].made /\ c = reports["direct"].candidate
  /\ EndsIn(c.menu, "direct") /\ Rest(c.menu) = reports["direct"].seen.menu
\* what the update published, with the original backup in place;
SuitsDiagnostics(c) ==
  /\ reports["direct"].made /\ reports["cpu_safe"].made
  /\ c = reports["cpu_safe"].candidate /\ reports["cpu_safe"].base = Base("diag")
  /\ backup.exists /\ backup.content = reports["direct"].source
  /\ EndsIn(c.menu, "cpu_safe") /\ Rest(c.menu) = reports["direct"].seen.menu
\* a direct loader without the console entry, or with it as the default.
SuitsConsole(c) == c.module # 0 /\ "console" \notin Offered(c.menu)
SuitsRefresh(c) == EndsIn(c.menu, "console")
Suits(kind, c) ==
  CASE kind = "direct" -> SuitsDirect(c)
    [] kind = "cpu_safe" -> SuitsUpdate(c)
    [] kind = "diag" -> SuitsDiagnostics(c)
    [] kind = "console" -> SuitsConsole(c)
    [] kind = "refresh" -> SuitsRefresh(c)

\* The menu of the candidate, made from the menu that was read at first.
MenuOf(kind, menu) ==
  CASE kind = "direct" -> Append(menu, "direct")
    [] kind = "cpu_safe" -> Append(Rest(menu), "cpu_safe")
    [] kind = "diag" -> Append(menu, "diag")
    [] kind = "console" -> Append(menu, "console")
    [] kind = "refresh" -> menu

ToolAt(does, kind, at) == tool.does = does /\ tool.kind = kind /\ tool.at = at
Goto(at) == tool' = [tool EXCEPT !.at = at]

\* The checks before anything is written.
PrepareBegin(kind) ==
  /\ tool = NoTool
  /\ ~candidates[kind].exists /\ ~reports[kind].made
  /\ Cardinality({k \in Kinds : candidates[k].exists}) < MaxCandidates
  /\ emulator # "image"
  /\ Suits(kind, image.content) /\ ManifestValid
  /\ tool' = [NoTool EXCEPT !.does = "prepare", !.kind = kind, !.at = "copy",
                            !.seen = image.content, !.build = manifest]
  /\ UNCHANGED <<diskFiles, reports, tested, artifact, manifest, emulator, losses, replaced, lost>>

\* Only the refreshing tool compares the copy with what it hashed before.
MayCopy(kind) == Refreshing(kind) => image.content = tool.seen
PrepareCopy(kind) ==
  /\ ToolAt("prepare", kind, "copy")
  /\ MayCopy(kind)
  /\ candidates' = [candidates EXCEPT ![kind] = File(image.content)]
  /\ Goto("install")
  /\ UNCHANGED <<image, backup, snapshots, staging, reports, tested, artifact, manifest, emulator,
                 losses, replaced, lost>>

\* mcopy of the payloads, as they are now, and of the menu.
PrepareInstall(kind) ==
  /\ ToolAt("prepare", kind, "install")
  /\ candidates' = [candidates EXCEPT ![kind].content =
                      [@ EXCEPT !.module = artifact, !.menu = MenuOf(kind, tool.seen.menu)]]
  /\ Goto("verify")
  /\ UNCHANGED <<image, backup, snapshots, staging, reports, tested, artifact, manifest, emulator,
                 losses, replaced, lost>>

\* The candidate holds the old files, the expected payload and nothing else;
\* the refreshing tool looks at the image and at the manifests again.
UnchangedSince(kind) == Refreshing(kind) => image.content = tool.seen
VerifiedCandidate(kind) ==
  /\ candidates[kind].content = [tool.seen EXCEPT !.module = tool.build,
                                                  !.menu = MenuOf(kind, @)]
  /\ UnchangedSince(kind)
  /\ Refreshing(kind) => ManifestValid
  /\ kind = "refresh" => manifest = tool.build
PrepareReport(kind) ==
  /\ ToolAt("prepare", kind, "verify")
  /\ VerifiedCandidate(kind)
  /\ reports' = [reports EXCEPT ![kind] =
       [made |-> TRUE, seen |-> tool.seen, candidate |-> candidates[kind].content,
        source |-> IF Refreshing(kind) THEN tool.seen ELSE image.content,
        build |-> tool.build, base |-> Base(kind)]]
  /\ tool' = NoTool
  /\ UNCHANGED <<diskFiles, tested, artifact, manifest, emulator, losses, replaced, lost>>

-----------------------------------------------------------------------------
(* Publishing a candidate.                                                 *)

\* verify_recorded_manifests.
SameBuild(kind) == ManifestValid /\ manifest = reports[kind].build
\* A copy of this candidate was booted and reached every milestone.
BootTested(kind) == tested[kind].ok /\ tested[kind].content = reports[kind].candidate
\* The backup is the original image, and a new snapshot can be made.
OriginalKept(kind) ==
  /\ reports["direct"].made /\ reports[kind].base = Base(kind)
  /\ backup.exists /\ backup.content = reports["direct"].source
  /\ ~snapshots[kind].exists /\ ~staging.exists
FollowsUpdate(kind) ==
  reports["cpu_safe"].made /\ reports["cpu_safe"].candidate = reports[kind].source
PublishBegin(kind) ==
  /\ tool = NoTool
  /\ reports[kind].made /\ SameBuild(kind)
  /\ candidates[kind].exists /\ candidates[kind].content = reports[kind].candidate
  /\ image.content = reports[kind].source
  /\ BootTested(kind)
  /\ emulator # "image"
  /\ kind = "direct" => ~backup.exists
  /\ kind \in {"cpu_safe", "diag"} => OriginalKept(kind)
  /\ kind = "diag" => FollowsUpdate(kind)
  /\ tool' = [NoTool EXCEPT !.does = "publish", !.kind = kind, !.at = "save"]
  /\ UNCHANGED <<diskFiles, reports, tested, artifact, manifest, emulator, losses, replaced, lost>>

\* A copy of the image: the backup, or the staged snapshot.  A refresh keeps
\* no copy and makes its candidate durable instead.
PublishSave(kind) ==
  /\ ToolAt("publish", kind, "save")
  /\ image.content = reports[kind].source
  /\ backup' = IF kind = "direct" THEN File(image.content) ELSE backup
  /\ staging' = IF kind \in {"cpu_safe", "diag"} THEN File(image.content) ELSE staging
  /\ Goto("sync")
  /\ UNCHANGED <<image, candidates, snapshots, reports, tested, artifact, manifest, emulator,
                 losses, replaced, lost>>

\* fsync of the copy, and the last look at the image.
MadeDurableNot(kind) == <<backup, staging, candidates[kind]>>
MadeDurable(kind) ==
  CASE kind = "direct" -> <<Synced(backup), staging, candidates[kind]>>
    [] kind \in {"cpu_safe", "diag"} -> <<backup, Synced(staging), candidates[kind]>>
    [] kind = "refresh" -> <<backup, staging, Synced(candidates[kind])>>
LastLook(kind) == image.content = reports[kind].source
PublishSync(kind) ==
  /\ ToolAt("publish", kind, "sync")
  /\ LastLook(kind)
  /\ kind = "direct" => backup.content = reports[kind].source
  /\ kind \in {"cpu_safe", "diag"} => staging.content = reports[kind].source
  /\ kind = "refresh" => candidates[kind].content = reports[kind].candidate
  /\ backup' = MadeDurable(kind)[1]
  /\ staging' = MadeDurable(kind)[2]
  /\ candidates' = [candidates EXCEPT ![kind] = MadeDurable(kind)[3]]
  /\ Goto("keep")
  /\ UNCHANGED <<image, snapshots, reports, tested, artifact, manifest, emulator,
                 losses, replaced, lost>>

\* The snapshot gets its name, and its directory is fsync'ed.
PublishKeep(kind) ==
  /\ ToolAt("publish", kind, "keep")
  /\ IF kind \in {"cpu_safe", "diag"}
     THEN /\ snapshots' = [snapshots EXCEPT ![kind] = staging]
          /\ staging' = NoFile
     ELSE UNCHANGED <<snapshots, staging>>
  /\ Goto("replace")
  /\ UNCHANGED <<image, candidates, backup, reports, tested, artifact, manifest, emulator,
                 losses, replaced, lost>>

\* os.replace(candidate, image).  An emulator is left with the old file.
PublishReplace(kind) ==
  /\ ToolAt("publish", kind, "replace")
  /\ image' = [content |-> candidates[kind].content, synced |-> candidates[kind].synced,
               before |-> [content |-> image.content, synced |-> image.synced, exists |-> TRUE]]
  /\ candidates' = [candidates EXCEPT ![kind] = NoFile]
  /\ emulator' = "none"
  /\ replaced' = reports[kind].source
  /\ lost' = (lost \/ (~(image.content.user \subseteq candidates[kind].content.user) /\ ~tool.late))
  /\ Goto("named")
  /\ UNCHANGED <<backup, snapshots, staging, reports, tested, artifact, manifest, losses>>

\* fsync of the image's directory, and the hash of what was published.
PublishDone(kind) ==
  /\ ToolAt("publish", kind, "named")
  /\ image' = [image EXCEPT !.before = NoFile]
  /\ tool' = [NoTool EXCEPT !.does = IF image.content = reports[kind].candidate
                                     THEN "published" ELSE "mismatch", !.kind = kind,
                            !.seen = image.content]
  /\ UNCHANGED <<candidates, backup, snapshots, staging, reports, tested, artifact, manifest,
                 emulator, losses, replaced, lost>>
CommandOver ==
  /\ tool.does \in {"published", "mismatch"}
  /\ tool' = NoTool
  /\ UNCHANGED <<diskFiles, reports, tested, artifact, manifest, emulator, losses, replaced, lost>>

\* Any step may fail, by a check above or an I/O error: an exception removes
\* the candidate of a preparation and the staged snapshot, nothing else.  (The
\* refreshing tool leaves its candidate, and takes a new directory next time.)
CommandFails ==
  /\ tool.at \notin {"idle", "named"}
  /\ candidates' = IF tool.does = "prepare"
                   THEN [candidates EXCEPT ![tool.kind] = NoFile] ELSE candidates
  /\ staging' = IF tool.does = "publish" /\ tool.at \in {"sync", "keep"} THEN NoFile ELSE staging
  /\ tool' = NoTool
  /\ UNCHANGED <<image, backup, snapshots, reports, tested, artifact, manifest, emulator,
                 losses, replaced, lost>>

-----------------------------------------------------------------------------
(* Everybody else.                                                         *)

\* The emulator opens the image and changes a file of it, and closes it.
Boot ==
  /\ emulator = "none" /\ "image" \notin image.content.user
  /\ emulator' = "image"
  /\ image' = [image EXCEPT !.content.user = @ \union {"image"}]
  /\ tool' = [tool EXCEPT !.late = tool.does = "publish" /\ tool.at \in {"keep", "replace"}]
  /\ UNCHANGED <<candidates, backup, snapshots, staging, reports, tested, artifact, manifest,
                 losses, replaced, lost>>
Close ==
  /\ emulator # "none"
  /\ emulator' = "none"
  /\ UNCHANGED <<diskFiles, reports, tested, artifact, manifest, tool, losses, replaced, lost>>

\* A test boots a copy of the candidate; someone boots the candidate itself.
BootTest(kind, ok) ==
  /\ candidates[kind].exists /\ reports[kind].made /\ tested[kind] = NotTested
  /\ tested' = [tested EXCEPT ![kind] = [content |-> candidates[kind].content, ok |-> ok]]
  /\ UNCHANGED <<diskFiles, reports, artifact, manifest, emulator, tool, losses, replaced, lost>>
BootCandidate(kind) ==
  /\ candidates[kind].exists /\ reports[kind].made
  /\ "candidate" \notin candidates[kind].content.user
  /\ candidates' = [candidates EXCEPT ![kind].content.user = @ \union {"candidate"}]
  /\ UNCHANGED <<image, backup, snapshots, staging, reports, tested, artifact, manifest, emulator,
                 tool, losses, replaced, lost>>

\* A build replaces the artifacts, then their manifest.
Build ==
  /\ artifact = manifest /\ artifact < MaxBuild
  /\ artifact' = artifact + 1
  /\ UNCHANGED <<diskFiles, reports, tested, manifest, emulator, tool, losses, replaced, lost>>
BuildDone ==
  /\ artifact # manifest
  /\ manifest' = artifact
  /\ UNCHANGED <<diskFiles, reports, tested, artifact, emulator, tool, losses, replaced, lost>>

\* Someone gives up a candidate that can no longer be published, with its
\* report and boot test.
Discard(kind) ==
  /\ tool = NoTool /\ (candidates[kind].exists \/ reports[kind].made)
  /\ kind = "direct" => ~backup.exists
  /\ \/ image.content # reports[kind].source
     \/ candidates[kind].content # reports[kind].candidate
     \/ tested[kind] # NotTested /\ ~tested[kind].ok
  /\ candidates' = [candidates EXCEPT ![kind] = NoFile]
  /\ reports' = [reports EXCEPT ![kind] = NoReport]
  /\ tested' = [tested EXCEPT ![kind] = NotTested]
  /\ UNCHANGED <<image, backup, snapshots, staging, artifact, manifest, emulator, tool, losses,
                 replaced, lost>>

\* The power fails: unsynced files may be torn and a rename undone.
AfterLoss(f) == IF f.synced THEN {f} ELSE {Synced(f), [f EXCEPT !.content = Torn, !.synced = TRUE]}
PowerLoss ==
  /\ losses < MaxLoss
  /\ losses' = losses + 1
  /\ tool' = NoTool /\ emulator' = "none"
  /\ \E b \in AfterLoss(backup), s \in AfterLoss(staging) : backup' = b /\ staging' = s
  /\ \E keepName \in IF image.before.exists THEN BOOLEAN ELSE {TRUE} :
       \E f \in AfterLoss(IF keepName THEN [content |-> image.content, synced |-> image.synced,
                                            exists |-> TRUE] ELSE image.before) :
         image' = [content |-> f.content, synced |-> TRUE, before |-> NoFile]
  /\ candidates' \in [Kinds -> UNION {AfterLoss(candidates[k]) : k \in Kinds}]
  /\ \A k \in Kinds : candidates'[k] \in AfterLoss(candidates[k])
  /\ UNCHANGED <<snapshots, reports, tested, artifact, manifest, replaced, lost>>

UpdateInit ==
  /\ \E c \in FirstImages : image = [content |-> c, synced |-> TRUE, before |-> NoFile]
  /\ candidates = [k \in Kinds |-> NoFile]
  /\ reports = [k \in Kinds |-> NoReport]
  /\ tested = [k \in Kinds |-> NotTested]
  /\ backup = NoFile /\ snapshots = [k \in Kinds |-> NoFile] /\ staging = NoFile
  /\ artifact \in 1 .. MaxBuild /\ manifest = artifact
  /\ emulator = "none" /\ tool = NoTool /\ losses = 0
  /\ replaced = Torn /\ lost = FALSE

\* The commands, each with the steps above.
PrepareSteps(k) ==
  k \in Kinds /\ (PrepareBegin(k) \/ PrepareCopy(k) \/ PrepareInstall(k) \/ PrepareReport(k))
PublishSteps(k) ==
  k \in Kinds /\ (\/ PublishBegin(k) \/ PublishSave(k) \/ PublishSync(k) \/ PublishKeep(k)
                 \/ PublishReplace(k) \/ PublishDone(k))
prepare == PrepareSteps("direct")
prepare_update == PrepareSteps("cpu_safe")
prepare_diagnostics == PrepareSteps("diag")
prepare_console == PrepareSteps("console")
prepare_existing_menu_candidate == PrepareSteps("refresh")
publish == PublishSteps("direct")
publish_update == PublishSteps("cpu_safe")
publish_diagnostics == PublishSteps("diag")
publish_refreshed_candidate == PublishSteps("refresh")

UpdateNext ==
  \/ prepare \/ prepare_update \/ prepare_diagnostics \/ prepare_console
  \/ prepare_existing_menu_candidate
  \/ publish \/ publish_update \/ publish_diagnostics \/ publish_refreshed_candidate
  \/ CommandOver \/ CommandFails
  \/ \E k \in Kinds : BootCandidate(k) \/ Discard(k) \/ \E ok \in BOOLEAN : BootTest(k, ok)
  \/ Boot \/ Close \/ Build \/ BuildDone \/ PowerLoss
UpdateSpec == UpdateInit /\ [][UpdateNext]_updateVars

-----------------------------------------------------------------------------
(* Properties.                                                             *)

\* Whenever the power fails, either the image is whole or the image that was
\* replaced last, as the tool saw it then, is kept whole beside it.
PowerLossSurvivable ==
  image.content = Torn =>
    \/ backup.content = replaced
    \/ \E k \in Kinds : snapshots[k].content = replaced

\* A command reports success only when the image it found in place is the one
\* whose copy was booted and reached every milestone.
PublishedIsTested ==
  tool.does = "published" =>
    tested[tool.kind].ok /\ tool.seen = tested[tool.kind].content

\* A refresh never discards what the emulator wrote to the image before the
\* tool looked at it for the last time.
RefreshKeepsWrites ==
  ToolAt("publish", "refresh", "replace") /\ tool'.at = "named" /\ ~tool.late =>
       image.content.user \subseteq image'.content.user

\* Publishing preserves the files of the image: no write the emulator finished
\* before the tool looked at the image for the last time is lost.
OriginalFilesPreserved == ~lost

(* At every instant of an update the disk holds an image that boots, and   *)
(* only tested images are published.                                       *)
UpdateSurvivable == PowerLossSurvivable /\ PublishedIsTested
=============================================================================
