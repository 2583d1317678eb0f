--------------------------- MODULE InstallEngine ---------------------------
(***************************************************************************)
(* The installer that runs on Linux and macOS                              *)
(* (src/installers/unix/ti-engine.sh): what ti_install_main, ti_uninstall, *)
(* ti_remove_app, ti_rollback and ti_fail do to the folders of one app.    *)
(*                                                                         *)
(* One action is one shell command that changes the disk, so that a kill,  *)
(* a signal, a failing step and, with several engines, another run of the  *)
(* same installer can come between any two.  The app has a folder of its   *)
(* own and one for each file of its plan; which files a plan has may       *)
(* change between two runs, the names of the folders do not.               *)
(***************************************************************************)
EXTENDS Naturals, Sequences, SequencesExt

CONSTANTS
    Engines,    \* processes running this app's installer or uninstaller
    Deps,       \* the folders of the files of its plans
    Plans,      \* the plans a run may get: sequences over Deps
    Foreign,    \* folders that were there before and are not this app's
    Mac,        \* TRUE: ti_menus_macos, FALSE: ti_menus_linux
    Unasked,    \* what a command may fail on that the script does not ask about
    MaxStarts,  \* bound: how often an engine is started
    MaxCuts     \* bound: how often one is killed or gets a signal

ASSUME InstallAssumption ==
    /\ {"app", "menus", "marker", "none"} \cap Deps = {}
    /\ Plans \subseteq Seq(Deps)
    /\ Foreign \subseteq Deps \cup {"app"}
    /\ Mac \in BOOLEAN
    /\ Unasked \subseteq Deps \cup {"app", "menus", "marker"}
    /\ MaxStarts \in Nat /\ MaxCuts \in Nat

Folders == Deps \cup {"app"}

\* What a folder can hold: `owner' is a .ti-owner with this app's id; `theirs'
\* is whatever a folder of somebody else holds; `body' is everything a file's
\* steps or the project's unpacking and install command make; `launch' is
\* launch.txt, launch.sh and uninstall.sh; `marker' is .ti-installed.
Files == {"owner", "theirs", "body", "launch", "manifest", "marker"}

VARIABLES
    here,      \* the folders that exist in the install root
    files,     \* what each of them holds
    lines,     \* the folders and `menus' (shortcut lines) the last manifest lists
    menus,     \* the menu entries and launchers outside the root exist
    eng,       \* the engines
    starts,    \* how many runs there have been
    cuts,      \* how many of them were killed or got a signal
    undone,    \* a finished install was rolled back
    amiss      \* what a command nobody asks about failed on, until it is put right

disk == <<here, files, lines, menus>>
bounds == <<starts, cuts, undone, amiss>>
vars == <<disk, eng, bounds>>

\* One run.  `items' is what it still has to remove, `noting' says that it
\* has a list (TI_CREATED) and `created' what is on it, `doomed' and `next' are
\* the folder it is removing and what comes after, `end' how it is failing;
\* `made' and `gap' are kept for the properties: what it made, and what it
\* had made and not noted when a signal came.
NotStarted == [pc |-> "idle", cmd |-> "none", plan |-> <<>>, i |-> 1,
               items |-> {}, bad |-> FALSE, noting |-> FALSE, created |-> <<>>,
               doomed |-> "none", next |-> "idle", end |-> "none", made |-> {}, gap |-> {}]

\* How a run ends: "blocked" is a failure because a folder in the way is not
\* this app's, "started" starts an app that is installed already.
Ends == {"done", "failed", "blocked", "removed", "refused", "started", "killed"}

Running(e) == eng[e].pc \notin Ends \cup {"idle"}

Init == /\ here = Foreign
        /\ files = [f \in Folders |-> IF f \in Foreign THEN {"theirs"} ELSE {}]
        /\ lines = {}
        /\ menus = FALSE
        /\ eng = [e \in Engines |-> NotStarted]
        /\ starts = 0
        /\ cuts = 0
        /\ undone = FALSE
        /\ amiss = {}

----------------------------------------------------------------------------
(* Helpers *)

At(e, pc) == eng[e].pc = pc
Goes(e, pc) == eng' = [eng EXCEPT ![e].pc = pc]

Owned(f) == f \in here /\ "owner" \in files[f]

\* Writing into a folder needs the folder.
Puts(f, x) == /\ f \in here
              /\ files' = [files EXCEPT ![f] = @ \cup {x}]

\* Unpacking makes the folder again if it has gone.
Filled(f) == /\ here' = here \cup {f}
             /\ files' = [files EXCEPT ![f] = @ \cup {"body"}]

\* ti_created: remember something for the rollback.
Notes(e, x, pc) == eng' = [eng EXCEPT ![e].created = Append(@, x), ![e].pc = pc]

\* mkdir and the like: something new is there.
Makes(e, x, pc) == eng' = [eng EXCEPT ![e].made = @ \cup {x}, ![e].pc = pc]

\* rm -rf f, and go on at pc.
Removing(e, f, pc) == eng' = [eng EXCEPT ![e].pc = "rm", ![e].doomed = f, ![e].next = pc]

\* A removal, or a .ti-owner to write, that nobody asks about works or fails.
Works(X) == /\ amiss' = amiss \ X
            /\ UNCHANGED <<starts, cuts, undone>>
Slips(x) == /\ x \in Unasked
            /\ amiss' = amiss \cup {x}
            /\ UNCHANGED <<starts, cuts, undone>>

\* ti_fail: roll back when there is a list of what this run made.
FailsAs(e, end) ==
    /\ eng' = [eng EXCEPT ![e].pc = IF eng[e].noting THEN "rollback" ELSE end,
                          ![e].end = end]
    /\ undone' = (undone \/ (eng[e].noting /\ "marker" \in files["app"]))

File(e) == eng[e].plan[eng[e].i]
MoreFiles(e) == eng[e].i <= Len(eng[e].plan)

\* ti_is_installed
IsInstalled == "app" \in here /\ {"marker", "launch", "owner"} \subseteq files["app"]

----------------------------------------------------------------------------
(* Starting *)

Start(e) == /\ ~Running(e)
            /\ starts < MaxStarts
            /\ starts' = starts + 1
            /\ \E plan \in Plans, cmd \in {"install", "reinstall", "uninstall"} :
                  /\ cmd = "uninstall" => "app" \in here /\ {"launch", "manifest"} \subseteq files["app"]
                  /\ eng' = [eng EXCEPT ![e] =
                        [NotStarted EXCEPT !.pc = IF cmd = "uninstall" THEN "remove" ELSE "check",
                                           !.cmd = cmd, !.plan = plan]]
            /\ UNCHANGED <<disk, cuts, undone, amiss>>

\* Start the app when it is installed already, else show the plan and ask.
Check(e) == /\ At(e, "check")
            /\ Goes(e, IF eng[e].cmd = "install" /\ IsInstalled THEN "started" ELSE "needs")
            /\ UNCHANGED <<disk, bounds>>

\* ti_needs_install: system packages, before anything of the app is touched.
Prerequisites(e) == /\ At(e, "needs")
                    /\ Goes(e, "existing")
                    /\ UNCHANGED <<disk, bounds>>

\* What is in the way is an earlier install of this app, or stops the run.
Existing(e) == /\ At(e, "existing")
               /\ \/ "app" \notin here /\ Goes(e, "list") /\ UNCHANGED undone
                  \/ Owned("app") /\ Goes(e, "remove") /\ UNCHANGED undone
                  \/ "app" \in here /\ ~Owned("app") /\ FailsAs(e, "blocked")
               /\ UNCHANGED <<disk, starts, cuts, amiss>>

----------------------------------------------------------------------------
(* ti_remove_app *)

\* Mutant: the marker goes with the app's folder, at the end.
MarkerLast(e) == /\ At(e, "remove")
                 /\ "app" \in here
                 /\ eng' = [eng EXCEPT ![e].pc = "unlink",
                               ![e].items = IF "manifest" \in files["app"]
                                            THEN lines ELSE {}]
                 /\ UNCHANGED <<disk, bounds>>

\* The marker goes first; then the manifest is read.
RemoveMarker(e) == /\ At(e, "remove")
                   /\ \/ files' = [files EXCEPT !["app"] = @ \ {"marker"}] /\ Works({"marker"})
                      \/ "marker" \in files["app"] /\ UNCHANGED files /\ Slips("marker")
                   /\ eng' = [eng EXCEPT ![e].pc = "unlink",
                                 ![e].items = IF "manifest" \in files["app"]
                                              THEN lines ELSE {}]
                   /\ UNCHANGED <<here, lines, menus>>

\* Mutant: menu entries go only with the uninstaller.
KeepMenus(e) == /\ menus' = (menus /\ (eng[e].cmd # "uninstall" \/ "menus" \notin eng[e].items))
                /\ UNCHANGED bounds

\* The menu entries a run has read of in the manifest.
Unlinks(e) == \/ "menus" \notin eng[e].items /\ UNCHANGED <<menus, bounds>>
              \/ "menus" \in eng[e].items /\ menus' = FALSE /\ Works({"menus"})
              \/ "menus" \in eng[e].items /\ menus /\ UNCHANGED menus /\ Slips("menus")

\* Linux's entries go before the folders.
RemoveMenus(e) == /\ At(e, "unlink")
                  /\ IF Mac THEN UNCHANGED <<menus, bounds>> ELSE Unlinks(e)
                  /\ eng' = [eng EXCEPT ![e].pc = "dirs",
                                ![e].items = IF Mac THEN @ ELSE @ \ {"menus"}]
                  /\ UNCHANGED <<here, files, lines>>

\* A listed folder goes when its .ti-owner names this app.
RemoveDir(e) == /\ At(e, "dirs")
                /\ \E d \in eng[e].items \ {"menus"} :
                      LET rest == eng[e].items \ {d}
                      IN IF Owned(d)
                         THEN eng' = [eng EXCEPT ![e].pc = "rm", ![e].doomed = d,
                                                 ![e].next = "dirs", ![e].items = rest]
                         ELSE eng' = [eng EXCEPT ![e].items = rest,
                                                 ![e].bad = @ \/ d \in here]
                /\ UNCHANGED <<disk, bounds>>

RemoveAppDir(e) == /\ At(e, "dirs")
                   /\ eng[e].items \subseteq {"menus"}
                   /\ IF Owned("app")
                      THEN Removing(e, "app", "rmdir")
                      ELSE eng' = [eng EXCEPT ![e].pc = "rmdir", ![e].bad = TRUE]
                   /\ UNCHANGED <<disk, bounds>>

\* The app's folder in Applications, once its launchers are out of it, goes at
\* the very end.
RemoveMenusFolder(e) == /\ At(e, "rmdir")
                        /\ Unlinks(e)
                        /\ eng' = [eng EXCEPT ![e].pc = "gone", ![e].items = {}]
                        /\ UNCHANGED <<here, files, lines>>

\* The uninstaller reports; a reinstall goes on if the folder is gone.
RemoveEnds(e) == /\ At(e, "gone")
                 /\ \/ /\ eng[e].cmd = "uninstall"
                       /\ Goes(e, IF eng[e].bad THEN "refused" ELSE "removed")
                       /\ UNCHANGED undone
                    \/ /\ eng[e].cmd # "uninstall"
                       /\ IF "app" \in here THEN FailsAs(e, "failed")
                          ELSE Goes(e, "list") /\ UNCHANGED undone
                 /\ UNCHANGED <<disk, starts, cuts, amiss>>

\* rm -rf takes a folder's files in an order of its own, then the folder.
RmFile(e) == /\ At(e, "rm")
             /\ \E x \in files[eng[e].doomed] :
                   files' = [files EXCEPT ![eng[e].doomed] = @ \ {x}]
             /\ UNCHANGED <<here, lines, menus, eng, bounds>>

\* Mutant: the folder goes whatever it still holds.
RmFirst(e) == /\ At(e, "rm")
              /\ here' = here \ {eng[e].doomed}
              /\ eng' = [eng EXCEPT ![e].pc = eng[e].next, ![e].doomed = "none"]
              /\ UNCHANGED <<files, lines, menus, bounds>>

RmFolder(e) == /\ At(e, "rm")
               /\ files[eng[e].doomed] = {}
               /\ here' = here \ {eng[e].doomed}
               /\ eng' = [eng EXCEPT ![e].pc = eng[e].next, ![e].doomed = "none"]
               /\ Works(IF eng[e].doomed = "app" THEN {"app", "marker"} ELSE {eng[e].doomed})
               /\ UNCHANGED <<files, lines, menus>>

\* Some file, or the folder, cannot be removed: rm -rf goes on with the rest of
\* the folder and fails, and neither ti_rollback nor ti_remove_app nor the
\* clearing of a file's folder asks whether it did.
RmFails(e) == /\ At(e, "rm")
              /\ eng[e].doomed \in here
              /\ eng' = [eng EXCEPT ![e].pc = eng[e].next, ![e].doomed = "none"]
              /\ Slips(eng[e].doomed)
              /\ UNCHANGED disk

Removal(e) == \/ RemoveMarker(e) \/ RemoveMenus(e) \/ RemoveDir(e) \/ RemoveAppDir(e)
              \/ RemoveMenusFolder(e) \/ RemoveEnds(e)
              \/ RmFile(e) \/ RmFolder(e) \/ RmFails(e)

----------------------------------------------------------------------------
(* Installing *)

\* From here on there is a list of what to roll back.
StartList(e) == /\ At(e, "list")
                /\ eng' = [eng EXCEPT ![e].noting = TRUE, ![e].pc = "mkdir"]
                /\ UNCHANGED <<disk, bounds>>

\* mkdir, which fails when the folder is there.
MakeApp(e) == /\ At(e, "mkdir")
              /\ "app" \notin here
              /\ here' = here \cup {"app"}
              /\ Makes(e, "app", "note")
              /\ UNCHANGED <<files, lines, menus, bounds>>

NoteApp(e) == /\ At(e, "note")
              /\ Notes(e, "app", "own")
              /\ UNCHANGED <<disk, bounds>>

OwnApp(e) == /\ At(e, "own")
             /\ Puts("app", "owner")
             /\ Goes(e, "file")
             /\ UNCHANGED <<here, lines, menus, bounds>>

\* Mutant: whatever is in the way of a file's folder is removed.
ClearAny(e) == /\ At(e, "file") /\ MoreFiles(e)
               /\ IF File(e) \in here THEN Removing(e, File(e), "mkfile")
                                      ELSE Goes(e, "mkfile")
               /\ UNCHANGED <<disk, bounds>>

\* A folder in the way of a file's goes when it is this app's.
ClearFile(e) == /\ At(e, "file") /\ MoreFiles(e)
                /\ \/ File(e) \notin here /\ Goes(e, "mkfile") /\ UNCHANGED undone
                   \/ Owned(File(e)) /\ Removing(e, File(e), "mkfile") /\ UNCHANGED undone
                   \/ /\ File(e) \in here /\ ~Owned(File(e))
                      /\ FailsAs(e, "blocked")
                /\ UNCHANGED <<disk, starts, cuts, amiss>>

MakeFile(e) == /\ At(e, "mkfile")
               /\ File(e) \notin here
               /\ here' = here \cup {File(e)}
               /\ Makes(e, File(e), "notefile")
               /\ UNCHANGED <<files, lines, menus, bounds>>

\* Mutant: the folder is not remembered.
Unnoted(e) == /\ At(e, "notefile")
              /\ Goes(e, "ownfile")
              /\ UNCHANGED <<disk, bounds>>

NoteFile(e) == /\ At(e, "notefile")
               /\ Notes(e, File(e), "ownfile")
               /\ UNCHANGED <<disk, bounds>>

\* Whether the .ti-owner of a file's folder could be written is not asked.
OwnFile(e) == /\ At(e, "ownfile")
              /\ \/ Puts(File(e), "owner") /\ UNCHANGED bounds
                 \/ File(e) \notin here /\ UNCHANGED <<files, bounds>>
                 \/ File(e) \in here /\ UNCHANGED files /\ Slips(File(e))
              /\ Goes(e, "fetch")
              /\ UNCHANGED <<here, lines, menus>>

\* ti_obtain: the file, from the pack or a source, into the run's own folder.
Obtain(e) == /\ At(e, "fetch")
             /\ Goes(e, "fill")
             /\ UNCHANGED <<disk, bounds>>

\* The file's steps.
FillFile(e) == /\ At(e, "fill")
               /\ Filled(File(e))
               /\ eng' = [eng EXCEPT ![e].pc = "file", ![e].i = @ + 1]
               /\ UNCHANGED <<lines, menus, bounds>>

\* The project is unpacked into the app's folder and its install command run.
Project(e) == /\ At(e, "file") /\ ~MoreFiles(e)
              /\ Filled("app")
              /\ Goes(e, "launch")
              /\ UNCHANGED <<lines, menus, bounds>>

Launch(e) == /\ At(e, "launch")
             /\ Puts("app", "launch")
             /\ Goes(e, "menus")
             /\ UNCHANGED <<here, lines, menus, bounds>>

\* Linux overwrites the entries named for the app; macOS does not overwrite
\* the app's folder in Applications.
Menus(e) == /\ At(e, "menus")
            /\ IF Mac /\ menus
               THEN FailsAs(e, "blocked") /\ UNCHANGED <<menus, starts, cuts, amiss>>
               ELSE Makes(e, "menus", "notemenus") /\ menus' = TRUE /\ Works({"menus"})
            /\ UNCHANGED <<here, files, lines>>

NoteMenus(e) == /\ At(e, "notemenus")
                /\ Notes(e, "menus", "manifest")
                /\ UNCHANGED <<disk, bounds>>

\* Mutant: only the runtime's folder, the plan's first, is listed.
ManifestFirst(e) == /\ At(e, "manifest")
                    /\ Puts("app", "manifest")
                    /\ lines' = {eng[e].plan[1], "menus"}
                    /\ Goes(e, "marker")
                    /\ UNCHANGED <<here, menus, bounds>>

Manifest(e) == /\ At(e, "manifest")
               /\ Puts("app", "manifest")
               /\ lines' = ToSet(eng[e].plan) \cup {"menus"}
               /\ Goes(e, "marker")
               /\ UNCHANGED <<here, menus, bounds>>

Marker(e) == /\ At(e, "marker")
             /\ Puts("app", "marker")
             /\ Goes(e, "last")
             /\ UNCHANGED <<here, lines, menus, bounds>>

\* TI_CREATED= : from here on nothing is rolled back.
Done(e) == /\ At(e, "last")
           /\ eng' = [eng EXCEPT ![e].pc = "done", ![e].noting = FALSE]
           /\ UNCHANGED <<disk, bounds>>

Installing(e) == \/ StartList(e) \/ MakeApp(e) \/ NoteApp(e) \/ OwnApp(e)
                 \/ ClearFile(e) \/ MakeFile(e) \/ NoteFile(e) \/ OwnFile(e)
                 \/ Obtain(e) \/ FillFile(e)
                 \/ Project(e) \/ Launch(e) \/ Menus(e) \/ NoteMenus(e)
                 \/ Manifest(e) \/ Marker(e) \/ Done(e)

----------------------------------------------------------------------------
(* Failing *)

\* A prerequisite, a download, a step, an unpacking or the project's install
\* command fails, the disk is full, or a folder to make is there and one to
\* write into is not: every command whose failure is asked.  A step that fails
\* leaves its folder half filled, which is what the folder is before it.
StepFails(e) == /\ eng[e].pc \in {"needs", "existing", "mkdir", "own", "file", "mkfile", "fetch",
                                 "fill", "launch", "menus", "manifest", "marker"}
                /\ FailsAs(e, "failed")
                /\ UNCHANGED <<disk, starts, cuts, amiss>>

\* ti_rollback: what this run made, newest first, whoever owns it now.
Rollback(e) == /\ At(e, "rollback")
               /\ LET made == eng[e].created
                      rest == [eng EXCEPT ![e].created = Front(@)]
                  IN \/ /\ made = <<>>
                        /\ eng' = [eng EXCEPT ![e].pc = eng[e].end, ![e].noting = FALSE]
                        /\ UNCHANGED <<menus, bounds>>
                     \/ /\ made # <<>> /\ Last(made) = "menus"
                        /\ eng' = rest
                        /\ \/ menus' = FALSE /\ Works({"menus"})
                           \/ menus /\ UNCHANGED menus /\ Slips("menus")
                     \/ /\ made # <<>> /\ Last(made) # "menus"
                        /\ eng' = [rest EXCEPT ![e].pc = "rm", ![e].doomed = Last(made),
                                               ![e].next = "rollback"]
                        /\ UNCHANGED <<menus, bounds>>
               /\ UNCHANGED <<here, files, lines>>

\* What the command a run was at has made and not yet noted.
Gap(e) == CASE At(e, "note") -> {"app"}
            [] At(e, "notefile") -> {File(e)}
            [] At(e, "notemenus") -> {"menus"}
            [] OTHER -> {}

\* SIGINT, SIGTERM or SIGHUP: ti_fail "Interrupted.", after the command the
\* shell is at.  One that comes during the rollback starts the rollback again,
\* which then ends as it would have.
Interrupt(e) ==
    /\ Running(e) /\ eng[e].end = "none"
    /\ cuts < MaxCuts
    /\ cuts' = cuts + 1
    /\ eng' = [eng EXCEPT ![e].pc = IF eng[e].noting THEN "rollback" ELSE "failed",
                          ![e].end = "failed", ![e].doomed = "none", ![e].gap = Gap(e)]
    /\ undone' = (undone \/ (eng[e].noting /\ "marker" \in files["app"]))
    /\ UNCHANGED <<disk, starts, amiss>>

\* SIGKILL or a power cut; a folder that was being emptied stays half empty.
Kill(e) == /\ Running(e)
           /\ cuts < MaxCuts
           /\ cuts' = cuts + 1
           /\ Goes(e, "killed")
           /\ UNCHANGED <<disk, starts, undone, amiss>>

\* The manifest is written in place: cut off, it lists some of what it should.
KillManifest(e) ==
    /\ At(e, "manifest") /\ "app" \in here
    /\ cuts < MaxCuts
    /\ cuts' = cuts + 1
    /\ Puts("app", "manifest")
    /\ \E part \in SUBSET (ToSet(eng[e].plan) \cup {"menus"}) : lines' = part
    /\ Goes(e, "killed")
    /\ UNCHANGED <<here, menus, starts, undone, amiss>>

Next == \E e \in Engines :
           \/ Start(e) \/ Check(e) \/ Prerequisites(e) \/ Existing(e) \/ Removal(e) \/ Installing(e)
           \/ StepFails(e) \/ Rollback(e) \/ Interrupt(e) \/ Kill(e) \/ KillManifest(e)

Spec == Init /\ [][Next]_vars

----------------------------------------------------------------------------
(* Properties *)

\* The type invariant.
TypeOK ==
    /\ here \subseteq Folders
    /\ files \in [Folders -> SUBSET Files]
    /\ \A f \in Folders \ here : files[f] = {}
    /\ lines \subseteq Deps \cup {"menus"}
    /\ menus \in BOOLEAN
    /\ \A e \in Engines :
          /\ eng[e].plan \in Plans \cup {<<>>}
          /\ eng[e].items \subseteq Deps \cup {"menus"}
          /\ ToSet(eng[e].created) \subseteq eng[e].made
          /\ eng[e].made \subseteq Folders \cup {"menus"}
          /\ At(e, "rm") => eng[e].doomed \in Folders
    /\ starts \in 0..MaxStarts
    /\ cuts \in 0..MaxCuts
    /\ undone \in BOOLEAN
    /\ amiss \subseteq Unasked

Complete == /\ {"body", "manifest"} \subseteq files["app"]
            /\ \A d \in lines \ {"menus"} : d \in here /\ {"owner", "body"} \subseteq files[d]

\* installers/unix/README.md:327: what .ti-installed, "the last file a
\* successful install writes", means: the app is fully installed.
MarkerMeansInstalled == IsInstalled => Complete

\* With one engine at a time the marker is never on a half made or half
\* removed install, whatever is killed where - but for two things: a signal
\* between the marker and `TI_CREATED=' rolls a finished install back, and the
\* rollback, unlike the uninstaller, does not take the marker first; and
\* ti_remove_app goes on when the marker could not be removed.  A folder whose
\* .ti-owner could not be written counts as complete: nobody asked.
InstalledIsComplete ==
    IsInstalled /\ ~undone /\ "marker" \notin amiss =>
        /\ {"body", "manifest"} \subseteq files["app"]
        /\ \A d \in lines \ {"menus"} : d \in here /\ "body" \in files[d]
        /\ \A d \in lines \ ({"menus"} \cup amiss) : "owner" \in files[d]

\* A folder of somebody else keeps what it holds.
ForeignUntouched == [][\A f \in Foreign : f \in here' /\ files'[f] = files[f]]_vars

\* A run that failed has taken back everything it made, but for what a signal
\* found made and not yet noted, and what the system refused to remove:
\* ti_rollback goes on past such a thing and tries all the others, whatever
\* order the refusals, the signal and the failing step come in.
FailureLeavesNothing ==
    \A e \in Engines : eng[e].pc \in {"failed", "blocked"} =>
        \A x \in eng[e].made \ (eng[e].gap \cup amiss) : IF x = "menus" THEN ~menus ELSE x \notin here

\* What stops a run where it stands, as not this app's or, on macOS, in the way.
InTheWay(e) ==
    CASE At(e, "existing") /\ "app" \in here /\ ~Owned("app") -> {"app"}
      [] At(e, "file") /\ MoreFiles(e) /\ File(e) \in here /\ ~Owned(File(e)) -> {File(e)}
      [] At(e, "menus") /\ Mac /\ menus -> {"menus"}
      [] OTHER -> {}

\* While no run was killed or got a signal, what stops one is a folder of
\* somebody else, or the very thing a removal was refused on, or whose .ti-owner
\* could not be written, and which nothing has put right since: no sequence of
\* failing installs, reinstalls and uninstalls bars the next one by itself.
RetryIsNotBlocked == \A e \in Engines : cuts = 0 => InTheWay(e) \subseteq Foreign \cup amiss

\* An uninstall that reports success has left no folder the manifest lists and
\* no menu entry; and nothing at all, when no earlier run was cut off - but for
\* what the system refused to remove, of which ti_remove_app keeps no account:
\* the uninstaller says "has been removed" all the same.
UninstallLeavesNothing ==
    \A e \in Engines : At(e, "removed") =>
        /\ Owned("app") => "app" \in amiss
        /\ "menus" \in lines \/ cuts = 0 => ~menus \/ "menus" \in amiss
        /\ \A d \in Deps : d \in lines \/ cuts = 0 => ~Owned(d) \/ d \in amiss
=============================================================================
