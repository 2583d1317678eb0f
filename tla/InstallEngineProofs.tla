------------------------- MODULE InstallEngineProofs --------------------------
(***************************************************************************)
(* Proofs about InstallEngine, for any folders, plans and number of runs   *)
(* at once: its type invariant, and that no run touches a folder that is   *)
(* not this app's; and, when one run of the installer is at work at a      *)
(* time, that the marker .ti-installed means fully installed, that a run   *)
(* which fails has taken back what it made, that failures never block the  *)
(* next try, and that an uninstall leaves nothing.                         *)
(***************************************************************************)
EXTENDS InstallEngine, TLAPS

(* The inductive invariant *)

Things == Folders \cup {"menus"}

PCs == Ends \cup {"idle", "check", "needs", "existing", "remove", "unlink", "dirs", "rm", "rmdir",
                  "gone", "list", "mkdir", "note", "own", "file", "mkfile", "notefile", "ownfile",
                  "fetch", "fill", "launch", "menus", "notemenus", "manifest", "marker",
                  "last", "rollback"}

EngineStates == [pc : PCs, cmd : {"none", "install", "reinstall", "uninstall"},
                 plan : Plans \cup {<<>>}, i : Nat \ {0},
                 items : SUBSET (Deps \cup {"menus"}), bad : BOOLEAN, noting : BOOLEAN,
                 created : Seq(Things), doomed : Folders \cup {"none"},
                 next : {"idle", "rmdir", "dirs", "mkfile", "rollback"}, end : {"none", "failed", "blocked"},
                 made : SUBSET Things, gap : SUBSET Things]

\* A run that is at a file of its plan.
AtFile(s) == \/ s.pc \in {"mkfile", "notefile", "ownfile", "fetch", "fill"}
             \/ s.pc = "rm" /\ s.next = "mkfile"

\* The folder a run works on is its own to fill.
AtOwnFile(s) == s.pc \in {"notefile", "ownfile", "fetch", "fill"}

\* A run before it changes anything, and one that is over.
Harmless(s) == s.pc \in {"idle", "check", "needs", "existing"} \cup Ends /\ ~s.noting

\* One run: what it has noted and what it removes is no folder of somebody
\* else, nor is the folder it fills; when the app's own folder is somebody
\* else's, it never gets as far as changing anything.
RunOK(s) ==
    /\ \A k \in 1..Len(s.created) : s.created[k] \in s.made \ Foreign
    /\ s.doomed \notin Foreign
    /\ s.pc = "rm" => s.doomed \in Folders
    /\ AtFile(s) => s.i <= Len(s.plan)
    /\ AtOwnFile(s) => s.plan[s.i] \notin Foreign
    /\ s.pc = "note" => "app" \in s.made
    /\ s.pc = "notefile" => s.plan[s.i] \in s.made
    /\ s.pc = "notemenus" => "menus" \in s.made
    /\ s.pc = "rollback" \/ (s.pc = "rm" /\ s.next = "rollback") => s.end # "none"
    /\ "app" \in Foreign => Harmless(s)

\* The disk: types, and folders of somebody else hold what they held.
DiskOK ==
    /\ here \subseteq Folders
    /\ files \in [Folders -> SUBSET Files]
    /\ \A f \in Folders \ here : files[f] = {}
    /\ lines \subseteq Deps \cup {"menus"}
    /\ menus \in BOOLEAN
    /\ \A f \in Foreign : f \in here /\ files[f] = {"theirs"}

BoundsOK == /\ starts \in 0..MaxStarts /\ cuts \in 0..MaxCuts /\ undone \in BOOLEAN
            /\ amiss \subseteq Unasked

IInv == /\ DiskOK
        /\ BoundsOK
        /\ eng \in [Engines -> EngineStates]
        /\ \A e \in Engines : RunOK(eng[e])

(* Lemmas the steps share *)

\* Foreign folders are folders, and the names that are not folders are none.
LEMMA Names ==
    /\ Foreign \subseteq Folders /\ "app" \in Folders
    /\ "menus" \notin Folders /\ "none" \notin Folders /\ "marker" \notin Folders
    /\ "menus" \notin Foreign
    /\ \A plan \in Plans \cup {<<>>} :
          /\ plan \in Seq(Deps) /\ Len(plan) \in Nat
          /\ \A k \in 1..Len(plan) : plan[k] \in Deps
          /\ ToSet(plan) \subseteq Deps
<1>1. "menus" # "app" /\ "none" # "app" /\ "marker" # "app" /\ <<>> \in Seq(Deps)  OBVIOUS
<1>2. Plans \cup {<<>>} \subseteq Seq(Deps)  BY <1>1, InstallAssumption
<1>3. ASSUME NEW plan \in Seq(Deps)
      PROVE  /\ Len(plan) \in Nat
             /\ \A k \in 1..Len(plan) : plan[k] \in Deps
             /\ ToSet(plan) \subseteq Deps
  BY DEF ToSet
<1>4. QED  BY <1>1, <1>2, <1>3, InstallAssumption DEF Folders

\* A step of one run that leaves it and the disk as they should be.
LEMMA OneRun ==
    ASSUME IInv, NEW e \in Engines, NEW s \in EngineStates, RunOK(s),
           eng' = [eng EXCEPT ![e] = s], DiskOK', BoundsOK'
    PROVE  IInv'
  BY DEF IInv

LEMMA CheckStep ==
    ASSUME IInv, NEW e \in Engines, Check(e)
    PROVE  IInv'
<1> DEFINE r == eng[e]
           s == [r EXCEPT !.pc = IF r.cmd = "install" /\ IsInstalled THEN "started" ELSE "needs"]
<1>1. r \in EngineStates /\ RunOK(r) /\ eng' = [eng EXCEPT ![e] = s]
  BY DEF IInv, Check, At, Goes
<1>2. s \in EngineStates
  BY <1>1, Names DEF Check, At, Goes, EngineStates, PCs, Ends, Things
<1>3. RunOK(s)
  BY <1>1, Names DEF Check, At, Goes, EngineStates, RunOK, AtFile, AtOwnFile, Harmless, Ends
<1>4. DiskOK'
  BY DEF Check, At, Goes, IInv, DiskOK, disk
<1>5. BoundsOK'
  BY DEF Check, At, Goes, IInv, BoundsOK, bounds
<1>6. QED  BY <1>1, <1>2, <1>3, <1>4, <1>5, OneRun

LEMMA PrerequisitesStep ==
    ASSUME IInv, NEW e \in Engines, Prerequisites(e)
    PROVE  IInv'
<1> DEFINE r == eng[e]
           s == [r EXCEPT !.pc = "existing"]
<1>1. r \in EngineStates /\ RunOK(r) /\ eng' = [eng EXCEPT ![e] = s]
  BY DEF IInv, Prerequisites, At, Goes
<1>2. s \in EngineStates
  BY <1>1, Names DEF Prerequisites, At, Goes, EngineStates, PCs, Ends, Things
<1>3. RunOK(s)
  BY <1>1, Names
     DEF Prerequisites, At, Goes, EngineStates, RunOK, AtFile, AtOwnFile, Harmless, Ends
<1>4. DiskOK'
  BY DEF Prerequisites, At, Goes, IInv, DiskOK, disk
<1>5. BoundsOK'
  BY DEF Prerequisites, At, Goes, IInv, BoundsOK, bounds
<1>6. QED  BY <1>1, <1>2, <1>3, <1>4, <1>5, OneRun

\* Taking the menu entries off disturbs nothing else.
LEMMA UnlinksKeeps ==
    ASSUME IInv, NEW e \in Engines, Unlinks(e), UNCHANGED <<here, files, lines>>
    PROVE  DiskOK' /\ BoundsOK'
  BY DEF Unlinks, Works, Slips, bounds, IInv, DiskOK, BoundsOK

LEMMA RemoveMenusStep ==
    ASSUME IInv, NEW e \in Engines, RemoveMenus(e)
    PROVE  IInv'
<1> DEFINE r == eng[e]
           s == [r EXCEPT !.pc = "dirs", !.items = IF Mac THEN @ ELSE @ \ {"menus"}]
<1>1. r \in EngineStates /\ RunOK(r) /\ eng' = [eng EXCEPT ![e] = s]
  BY DEF IInv, RemoveMenus, At
<1>2. s \in EngineStates
  BY <1>1, Names DEF RemoveMenus, At, EngineStates, PCs, Ends, Things
<1>3. RunOK(s)
  BY <1>1, Names DEF RemoveMenus, At, EngineStates, RunOK, AtFile, AtOwnFile, Harmless, Ends
<1>4. DiskOK' /\ BoundsOK'
  <2>1. CASE Mac  BY <2>1 DEF RemoveMenus, IInv, DiskOK, BoundsOK, bounds
  <2>2. CASE ~Mac  BY <2>2, UnlinksKeeps DEF RemoveMenus
  <2>3. QED  BY <2>1, <2>2
<1>5. QED  BY <1>1, <1>2, <1>3, <1>4, OneRun

LEMMA RemoveMenusFolderStep ==
    ASSUME IInv, NEW e \in Engines, RemoveMenusFolder(e)
    PROVE  IInv'
<1> DEFINE r == eng[e]
           s == [r EXCEPT !.pc = "gone", !.items = {}]
<1>1. r \in EngineStates /\ RunOK(r) /\ eng' = [eng EXCEPT ![e] = s]
  BY DEF IInv, RemoveMenusFolder, At
<1>2. s \in EngineStates
  BY <1>1, Names DEF RemoveMenusFolder, At, EngineStates, PCs, Ends, Things
<1>3. RunOK(s)
  BY <1>1, Names DEF RemoveMenusFolder, At, EngineStates, RunOK, AtFile, AtOwnFile, Harmless, Ends
<1>4. DiskOK' /\ BoundsOK'
  BY UnlinksKeeps DEF RemoveMenusFolder
<1>5. QED  BY <1>1, <1>2, <1>3, <1>4, OneRun

LEMMA RemoveMarkerStep ==
    ASSUME IInv, NEW e \in Engines, RemoveMarker(e)
    PROVE  IInv'
<1> DEFINE r == eng[e]
           s == [r EXCEPT !.pc = "unlink", !.items = IF "manifest" \in files["app"] THEN lines ELSE {}]
<1>1. r \in EngineStates /\ RunOK(r) /\ eng' = [eng EXCEPT ![e] = s]
  BY DEF IInv, RemoveMarker, At
<1>2. lines \subseteq Deps \cup {"menus"}  BY DEF IInv, DiskOK
<1>3. s \in EngineStates
  BY <1>1, <1>2, Names DEF RemoveMarker, At, EngineStates, PCs, Ends, Things
<1>4. RunOK(s)
  BY <1>1, Names
     DEF RemoveMarker, At, EngineStates, RunOK, AtFile, AtOwnFile, Harmless, Ends
<1>5. DiskOK'
  <2>1. "app" \notin Foreign
    BY <1>1 DEF RemoveMarker, At, RunOK, Harmless, Ends
  <2>2. DiskOK /\ UNCHANGED <<here, lines, menus>>
    BY DEF RemoveMarker, IInv
  <2>3. CASE files' = [files EXCEPT !["app"] = @ \ {"marker"}]
    BY <2>1, <2>2, <2>3, Names DEF DiskOK
  <2>4. CASE files' = files
    BY <2>2, <2>4 DEF DiskOK
  <2>5. QED  BY <2>3, <2>4 DEF RemoveMarker
<1>6. BoundsOK'
  BY DEF RemoveMarker, Works, Slips, At, IInv, BoundsOK
<1>7. QED  BY <1>1, <1>3, <1>4, <1>5, <1>6, OneRun

LEMMA StartListStep ==
    ASSUME IInv, NEW e \in Engines, StartList(e)
    PROVE  IInv'
<1> DEFINE r == eng[e]
           s == [r EXCEPT !.noting = TRUE, !.pc = "mkdir"]
<1>1. r \in EngineStates /\ RunOK(r) /\ eng' = [eng EXCEPT ![e] = s]
  BY DEF IInv, StartList, At
<1>2. s \in EngineStates
  BY <1>1, Names DEF StartList, At, EngineStates, PCs, Ends, Things
<1>3. RunOK(s)
  BY <1>1, Names DEF StartList, At, EngineStates, RunOK, AtFile, AtOwnFile, Harmless, Ends
<1>4. DiskOK'
  BY DEF StartList, At, IInv, DiskOK, disk
<1>5. BoundsOK'
  BY DEF StartList, At, IInv, BoundsOK, bounds
<1>6. QED  BY <1>1, <1>2, <1>3, <1>4, <1>5, OneRun

LEMMA MakeAppStep ==
    ASSUME IInv, NEW e \in Engines, MakeApp(e)
    PROVE  IInv'
<1> DEFINE r == eng[e]
           s == [r EXCEPT !.made = @ \cup {"app"}, !.pc = "note"]
<1>1. r \in EngineStates /\ RunOK(r) /\ eng' = [eng EXCEPT ![e] = s]
  BY DEF IInv, MakeApp, At, Makes
<1>2. r.made \cup {"app"} \in SUBSET Things
  BY <1>1, Names DEF EngineStates, Things
<1>3. s \in EngineStates
  BY <1>1, <1>2, Names DEF MakeApp, At, Makes, EngineStates, PCs, Ends, Things
<1>4. RunOK(s)
  BY <1>1, Names
     DEF MakeApp, At, Makes, EngineStates, RunOK, AtFile, AtOwnFile, Harmless, Ends
<1>5. DiskOK'
  BY <1>1, Names
     DEF MakeApp, At, Makes, IInv, DiskOK, Files, RunOK, AtFile, AtOwnFile, Harmless, Ends,
         EngineStates
<1>6. BoundsOK'
  BY DEF MakeApp, At, Makes, IInv, BoundsOK, bounds
<1>7. QED  BY <1>1, <1>3, <1>4, <1>5, <1>6, OneRun

LEMMA NoteAppStep ==
    ASSUME IInv, NEW e \in Engines, NoteApp(e)
    PROVE  IInv'
<1> DEFINE r == eng[e]
           s == [r EXCEPT !.created = Append(@, "app"), !.pc = "own"]
<1>1. r \in EngineStates /\ RunOK(r) /\ eng' = [eng EXCEPT ![e] = s]
  BY DEF IInv, NoteApp, At, Notes
<1>2. "app" \in Things /\ "app" \in r.made /\ "app" \notin Foreign
  BY <1>1, Names
     DEF NoteApp, At, RunOK, AtFile, AtOwnFile, Harmless, Ends, EngineStates, Things
<1>3. Append(r.created, "app") \in Seq(Things) /\ Len(r.created) \in Nat
  BY <1>1, <1>2 DEF EngineStates
<1>4. \A k \in 1..Len(Append(r.created, "app")) :
        Append(r.created, "app")[k] \in r.made \ Foreign
  BY <1>3, <1>1, <1>2 DEF EngineStates, RunOK
<1>5. s \in EngineStates
  BY <1>1, <1>3, Names DEF NoteApp, At, Notes, EngineStates, PCs, Ends, Things
<1>6. RunOK(s)
  BY <1>1, <1>4, Names
     DEF NoteApp, At, Notes, EngineStates, RunOK, AtFile, AtOwnFile, Harmless, Ends
<1>7. DiskOK'
  BY DEF NoteApp, At, Notes, IInv, DiskOK, disk
<1>8. BoundsOK'
  BY DEF NoteApp, At, Notes, IInv, BoundsOK, bounds
<1>9. QED  BY <1>1, <1>5, <1>6, <1>7, <1>8, OneRun

LEMMA NoteFileStep ==
    ASSUME IInv, NEW e \in Engines, NoteFile(e)
    PROVE  IInv'
<1> DEFINE r == eng[e]
           s == [r EXCEPT !.created = Append(@, File(e)), !.pc = "ownfile"]
<1>1. r \in EngineStates /\ RunOK(r) /\ eng' = [eng EXCEPT ![e] = s]
  BY DEF IInv, NoteFile, At, Notes
<1>2. File(e) \in Things /\ File(e) \in r.made /\ File(e) \notin Foreign
  BY <1>1, Names
     DEF NoteFile, At, RunOK, AtFile, AtOwnFile, Harmless, Ends, EngineStates, Things, File
<1>3. Append(r.created, File(e)) \in Seq(Things) /\ Len(r.created) \in Nat
  BY <1>1, <1>2 DEF EngineStates
<1>4. \A k \in 1..Len(Append(r.created, File(e))) :
        Append(r.created, File(e))[k] \in r.made \ Foreign
  BY <1>3, <1>1, <1>2 DEF EngineStates, RunOK
<1>5. s \in EngineStates
  BY <1>1, <1>3, Names DEF NoteFile, At, Notes, EngineStates, PCs, Ends, Things
<1>6. RunOK(s)
  BY <1>1, <1>4, Names
     DEF NoteFile, At, Notes, EngineStates, RunOK, AtFile, AtOwnFile, Harmless, Ends
<1>7. DiskOK'
  BY DEF NoteFile, At, Notes, IInv, DiskOK, disk
<1>8. BoundsOK'
  BY DEF NoteFile, At, Notes, IInv, BoundsOK, bounds
<1>9. QED  BY <1>1, <1>5, <1>6, <1>7, <1>8, OneRun

LEMMA NoteMenusStep ==
    ASSUME IInv, NEW e \in Engines, NoteMenus(e)
    PROVE  IInv'
<1> DEFINE r == eng[e]
           s == [r EXCEPT !.created = Append(@, "menus"), !.pc = "manifest"]
<1>1. r \in EngineStates /\ RunOK(r) /\ eng' = [eng EXCEPT ![e] = s]
  BY DEF IInv, NoteMenus, At, Notes
<1>2. "menus" \in Things /\ "menus" \in r.made /\ "menus" \notin Foreign
  BY <1>1, Names
     DEF NoteMenus, At, RunOK, AtFile, AtOwnFile, Harmless, Ends, EngineStates, Things
<1>3. Append(r.created, "menus") \in Seq(Things) /\ Len(r.created) \in Nat
  BY <1>1, <1>2 DEF EngineStates
<1>4. \A k \in 1..Len(Append(r.created, "menus")) :
        Append(r.created, "menus")[k] \in r.made \ Foreign
  BY <1>3, <1>1, <1>2 DEF EngineStates, RunOK
<1>5. s \in EngineStates
  BY <1>1, <1>3, Names DEF NoteMenus, At, Notes, EngineStates, PCs, Ends, Things
<1>6. RunOK(s)
  BY <1>1, <1>4, Names
     DEF NoteMenus, At, Notes, EngineStates, RunOK, AtFile, AtOwnFile, Harmless, Ends
<1>7. DiskOK'
  BY DEF NoteMenus, At, Notes, IInv, DiskOK, disk
<1>8. BoundsOK'
  BY DEF NoteMenus, At, Notes, IInv, BoundsOK, bounds
<1>9. QED  BY <1>1, <1>5, <1>6, <1>7, <1>8, OneRun

LEMMA OwnAppStep ==
    ASSUME IInv, NEW e \in Engines, OwnApp(e)
    PROVE  IInv'
<1> DEFINE r == eng[e]
           s == [r EXCEPT !.pc = "file"]
<1>1. r \in EngineStates /\ RunOK(r) /\ eng' = [eng EXCEPT ![e] = s]
  BY DEF IInv, OwnApp, At, Goes, Puts
<1>2. s \in EngineStates
  BY <1>1, Names DEF OwnApp, At, Goes, Puts, EngineStates, PCs, Ends, Things
<1>3. RunOK(s)
  BY <1>1, Names
     DEF OwnApp, At, Goes, Puts, EngineStates, RunOK, AtFile, AtOwnFile, Harmless, Ends
<1>4. DiskOK'
  BY <1>1, Names
     DEF OwnApp, At, Goes, Puts, IInv, DiskOK, Files, RunOK, AtFile, AtOwnFile, Harmless,
         Ends, EngineStates
<1>5. BoundsOK'
  BY DEF OwnApp, At, Goes, Puts, IInv, BoundsOK, bounds
<1>6. QED  BY <1>1, <1>2, <1>3, <1>4, <1>5, OneRun

LEMMA MakeFileStep ==
    ASSUME IInv, NEW e \in Engines, MakeFile(e)
    PROVE  IInv'
<1> DEFINE r == eng[e]
           s == [r EXCEPT !.made = @ \cup {File(e)}, !.pc = "notefile"]
<1>1. r \in EngineStates /\ RunOK(r) /\ eng' = [eng EXCEPT ![e] = s]
  BY DEF IInv, MakeFile, At, Makes
<1>2. File(e) \in Folders /\ File(e) \notin Foreign
  BY <1>1, Names DEF MakeFile, At, IInv, DiskOK, RunOK, AtFile, EngineStates, File, Folders
<1>3. File(e) = s.plan[s.i] /\ File(e) \in s.made
  BY <1>1 DEF EngineStates, File
<1>4. r.made \cup {File(e)} \in SUBSET Things
  BY <1>1, <1>2 DEF EngineStates, Things
<1>5. s \in EngineStates
  BY <1>1, <1>4, Names DEF MakeFile, At, Makes, EngineStates, PCs, Ends, Things
<1>6. RunOK(s)
  BY <1>1, <1>2, <1>3, Names
     DEF MakeFile, At, Makes, EngineStates, RunOK, AtFile, AtOwnFile, Harmless, Ends
<1>7. DiskOK'
  BY <1>1, <1>2 DEF MakeFile, At, Makes, IInv, DiskOK
<1>8. BoundsOK'
  BY DEF MakeFile, At, Makes, IInv, BoundsOK, bounds
<1>9. QED  BY <1>1, <1>5, <1>6, <1>7, <1>8, OneRun

LEMMA OwnFileStep ==
    ASSUME IInv, NEW e \in Engines, OwnFile(e)
    PROVE  IInv'
<1> DEFINE r == eng[e]
           s == [r EXCEPT !.pc = "fetch"]
<1>1. r \in EngineStates /\ RunOK(r) /\ eng' = [eng EXCEPT ![e] = s]
  BY DEF IInv, OwnFile, At, Goes, Puts
<1>2. File(e) \in Folders /\ File(e) \notin Foreign
  BY <1>1, Names DEF OwnFile, At, RunOK, AtFile, AtOwnFile, EngineStates, File, Folders
<1>3. s \in EngineStates
  BY <1>1, Names DEF OwnFile, At, Goes, Puts, EngineStates, PCs, Ends, Things
<1>4. RunOK(s)
  BY <1>1, Names
     DEF OwnFile, At, Goes, Puts, EngineStates, RunOK, AtFile, AtOwnFile, Harmless, Ends
<1>5. DiskOK'
  BY <1>1, <1>2 DEF OwnFile, At, Puts, IInv, DiskOK, Files
<1>6. BoundsOK'
  BY DEF OwnFile, At, Goes, Slips, IInv, BoundsOK, bounds
<1>7. QED  BY <1>1, <1>3, <1>4, <1>5, <1>6, OneRun

LEMMA ObtainStep ==
    ASSUME IInv, NEW e \in Engines, Obtain(e)
    PROVE  IInv'
<1> DEFINE r == eng[e]
           s == [r EXCEPT !.pc = "fill"]
<1>1. r \in EngineStates /\ RunOK(r) /\ eng' = [eng EXCEPT ![e] = s]
  BY DEF IInv, Obtain, At, Goes
<1>2. s \in EngineStates
  BY <1>1, Names DEF Obtain, At, Goes, EngineStates, PCs, Ends, Things
<1>3. RunOK(s)
  BY <1>1, Names
     DEF Obtain, At, Goes, EngineStates, RunOK, AtFile, AtOwnFile, Harmless, Ends
<1>4. DiskOK'
  BY DEF Obtain, At, Goes, IInv, DiskOK, disk
<1>5. BoundsOK'
  BY DEF Obtain, At, Goes, IInv, BoundsOK, bounds
<1>6. QED  BY <1>1, <1>2, <1>3, <1>4, <1>5, OneRun

LEMMA FillFileStep ==
    ASSUME IInv, NEW e \in Engines, FillFile(e)
    PROVE  IInv'
<1> DEFINE r == eng[e]
           s == [r EXCEPT !.pc = "file", !.i = @ + 1]
<1>1. r \in EngineStates /\ RunOK(r) /\ eng' = [eng EXCEPT ![e] = s]
  BY DEF IInv, FillFile, At, Filled
<1>2. File(e) \in Folders /\ File(e) \notin Foreign
  BY <1>1, Names DEF FillFile, At, RunOK, AtFile, AtOwnFile, EngineStates, File, Folders
<1>3. r.i + 1 \in Nat \ {0}
  BY <1>1 DEF EngineStates
<1>4. s \in EngineStates
  BY <1>1, <1>3, Names DEF FillFile, At, Filled, EngineStates, PCs, Ends, Things
<1>5. RunOK(s)
  BY <1>1, Names
     DEF FillFile, At, Filled, EngineStates, RunOK, AtFile, AtOwnFile, Harmless, Ends
<1>6. DiskOK'
  BY <1>1, <1>2 DEF FillFile, At, Filled, IInv, DiskOK, Files
<1>7. BoundsOK'
  BY DEF FillFile, At, Filled, IInv, BoundsOK, bounds
<1>8. QED  BY <1>1, <1>4, <1>5, <1>6, <1>7, OneRun

LEMMA ProjectStep ==
    ASSUME IInv, NEW e \in Engines, Project(e)
    PROVE  IInv'
<1> DEFINE r == eng[e]
           s == [r EXCEPT !.pc = "launch"]
<1>1. r \in EngineStates /\ RunOK(r) /\ eng' = [eng EXCEPT ![e] = s]
  BY DEF IInv, Project, At, Goes, Filled
<1>2. s \in EngineStates
  BY <1>1, Names DEF Project, At, Goes, Filled, EngineStates, PCs, Ends, Things
<1>3. RunOK(s)
  BY <1>1, Names
     DEF Project, At, Goes, Filled, EngineStates, RunOK, AtFile, AtOwnFile, Harmless, Ends
<1>4. DiskOK'
  BY <1>1, Names
     DEF Project, At, Goes, Filled, IInv, DiskOK, Files, RunOK, AtFile, AtOwnFile, Harmless,
         Ends, EngineStates
<1>5. BoundsOK'
  BY DEF Project, At, Goes, Filled, IInv, BoundsOK, bounds
<1>6. QED  BY <1>1, <1>2, <1>3, <1>4, <1>5, OneRun

LEMMA LaunchStep ==
    ASSUME IInv, NEW e \in Engines, Launch(e)
    PROVE  IInv'
<1> DEFINE r == eng[e]
           s == [r EXCEPT !.pc = "menus"]
<1>1. r \in EngineStates /\ RunOK(r) /\ eng' = [eng EXCEPT ![e] = s]
  BY DEF IInv, Launch, At, Goes, Puts
<1>2. s \in EngineStates
  BY <1>1, Names DEF Launch, At, Goes, Puts, EngineStates, PCs, Ends, Things
<1>3. RunOK(s)
  BY <1>1, Names
     DEF Launch, At, Goes, Puts, EngineStates, RunOK, AtFile, AtOwnFile, Harmless, Ends
<1>4. DiskOK'
  BY <1>1, Names
     DEF Launch, At, Goes, Puts, IInv, DiskOK, Files, RunOK, AtFile, AtOwnFile, Harmless,
         Ends, EngineStates
<1>5. BoundsOK'
  BY DEF Launch, At, Goes, Puts, IInv, BoundsOK, bounds
<1>6. QED  BY <1>1, <1>2, <1>3, <1>4, <1>5, OneRun

LEMMA ManifestStep ==
    ASSUME IInv, NEW e \in Engines, Manifest(e)
    PROVE  IInv'
<1> DEFINE r == eng[e]
           s == [r EXCEPT !.pc = "marker"]
<1>1. r \in EngineStates /\ RunOK(r) /\ eng' = [eng EXCEPT ![e] = s]
  BY DEF IInv, Manifest, At, Goes, Puts
<1>2. s \in EngineStates
  BY <1>1, Names DEF Manifest, At, Goes, Puts, EngineStates, PCs, Ends, Things
<1>3. RunOK(s)
  BY <1>1, Names
     DEF Manifest, At, Goes, Puts, EngineStates, RunOK, AtFile, AtOwnFile, Harmless, Ends
<1>4. DiskOK'
  BY <1>1, Names
     DEF Manifest, At, Goes, Puts, IInv, DiskOK, Files, RunOK, AtFile, AtOwnFile, Harmless,
         Ends, EngineStates
<1>5. BoundsOK'
  BY DEF Manifest, At, Goes, Puts, IInv, BoundsOK, bounds
<1>6. QED  BY <1>1, <1>2, <1>3, <1>4, <1>5, OneRun

LEMMA MarkerStep ==
    ASSUME IInv, NEW e \in Engines, Marker(e)
    PROVE  IInv'
<1> DEFINE r == eng[e]
           s == [r EXCEPT !.pc = "last"]
<1>1. r \in EngineStates /\ RunOK(r) /\ eng' = [eng EXCEPT ![e] = s]
  BY DEF IInv, Marker, At, Goes, Puts
<1>2. s \in EngineStates
  BY <1>1, Names DEF Marker, At, Goes, Puts, EngineStates, PCs, Ends, Things
<1>3. RunOK(s)
  BY <1>1, Names
     DEF Marker, At, Goes, Puts, EngineStates, RunOK, AtFile, AtOwnFile, Harmless, Ends
<1>4. DiskOK'
  BY <1>1, Names
     DEF Marker, At, Goes, Puts, IInv, DiskOK, Files, RunOK, AtFile, AtOwnFile, Harmless,
         Ends, EngineStates
<1>5. BoundsOK'
  BY DEF Marker, At, Goes, Puts, IInv, BoundsOK, bounds
<1>6. QED  BY <1>1, <1>2, <1>3, <1>4, <1>5, OneRun

LEMMA DoneStep ==
    ASSUME IInv, NEW e \in Engines, Done(e)
    PROVE  IInv'
<1> DEFINE r == eng[e]
           s == [r EXCEPT !.pc = "done", !.noting = FALSE]
<1>1. r \in EngineStates /\ RunOK(r) /\ eng' = [eng EXCEPT ![e] = s]
  BY DEF IInv, Done, At
<1>2. s \in EngineStates
  BY <1>1, Names DEF Done, At, EngineStates, PCs, Ends, Things
<1>3. RunOK(s)
  BY <1>1, Names DEF Done, At, EngineStates, RunOK, AtFile, AtOwnFile, Harmless, Ends
<1>4. DiskOK'
  BY DEF Done, At, IInv, DiskOK, disk
<1>5. BoundsOK'
  BY DEF Done, At, IInv, BoundsOK, bounds
<1>6. QED  BY <1>1, <1>2, <1>3, <1>4, <1>5, OneRun

LEMMA KillStep ==
    ASSUME IInv, NEW e \in Engines, Kill(e)
    PROVE  IInv'
<1> DEFINE r == eng[e]
           s == [r EXCEPT !.pc = "killed"]
<1>1. r \in EngineStates /\ RunOK(r) /\ eng' = [eng EXCEPT ![e] = s]
  BY DEF IInv, Kill, Goes
<1>2. s \in EngineStates
  BY <1>1, Names DEF Kill, Goes, EngineStates, PCs, Ends, Things
<1>3. RunOK(s)
  BY <1>1, Names DEF Kill, Goes, EngineStates, RunOK, AtFile, AtOwnFile, Harmless, Ends
<1>4. DiskOK'
  BY DEF Kill, Goes, IInv, DiskOK, disk
<1>5. BoundsOK'
  BY InstallAssumption DEF Kill, IInv, BoundsOK
<1>6. QED  BY <1>1, <1>2, <1>3, <1>4, <1>5, OneRun

LEMMA KillManifestStep ==
    ASSUME IInv, NEW e \in Engines, KillManifest(e)
    PROVE  IInv'
<1> DEFINE r == eng[e]
           s == [r EXCEPT !.pc = "killed"]
<1>1. r \in EngineStates /\ RunOK(r) /\ eng' = [eng EXCEPT ![e] = s]
  BY DEF IInv, KillManifest, At, Goes, Puts
<1>2. s \in EngineStates
  BY <1>1, Names DEF KillManifest, At, Goes, Puts, EngineStates, PCs, Ends, Things
<1>3. RunOK(s)
  BY <1>1, Names
     DEF KillManifest, At, Goes, Puts, EngineStates, RunOK, AtFile, AtOwnFile, Harmless,
         Ends
<1>4. DiskOK'
  BY <1>1, Names
     DEF KillManifest, At, Goes, Puts, IInv, DiskOK, Files, RunOK, AtFile, AtOwnFile,
         Harmless, Ends, EngineStates
<1>5. BoundsOK'
  BY InstallAssumption DEF KillManifest, IInv, BoundsOK
<1>6. QED  BY <1>1, <1>2, <1>3, <1>4, <1>5, OneRun

\* A run that fails, whatever it was at.
LEMMA FailsStep ==
    ASSUME IInv, NEW e \in Engines, NEW end \in {"failed", "blocked"}, FailsAs(e, end),
           UNCHANGED <<disk, starts, cuts, amiss>>
    PROVE  IInv'
<1> DEFINE r == eng[e]
           s == [r EXCEPT !.pc = IF r.noting THEN "rollback" ELSE end, !.end = end]
<1>1. r \in EngineStates /\ RunOK(r) /\ eng' = [eng EXCEPT ![e] = s]
  BY DEF IInv, FailsAs
<1>2. (IF r.noting THEN "rollback" ELSE end) \in PCs
  <2>1. CASE r.noting  BY <2>1 DEF PCs
  <2>2. CASE ~r.noting  BY <2>2 DEF PCs, Ends
  <2>3. QED  BY <2>1, <2>2
<1>3. s \in EngineStates
  BY <1>2, <1>1 DEF EngineStates
<1>4. RunOK(s)
  BY <1>1 DEF EngineStates, RunOK, AtFile, AtOwnFile, Harmless, Ends
<1>5. DiskOK'
  BY DEF IInv, DiskOK, disk
<1>6. BoundsOK'
  BY DEF FailsAs, IInv, BoundsOK
<1>7. QED  BY <1>1, <1>3, <1>4, <1>5, <1>6, OneRun

LEMMA StepFailsStep ==
    ASSUME IInv, NEW e \in Engines, StepFails(e)
    PROVE  IInv'
  BY FailsStep DEF StepFails

LEMMA StartStep ==
    ASSUME IInv, NEW e \in Engines, Start(e)
    PROVE  IInv'
<1>1. PICK plan \in Plans, cmd \in {"install", "reinstall", "uninstall"} :
         /\ cmd = "uninstall" => "app" \in here /\ {"launch", "manifest"} \subseteq files["app"]
         /\ eng' = [eng EXCEPT ![e] =
               [NotStarted EXCEPT !.pc = IF cmd = "uninstall" THEN "remove" ELSE "check",
                                  !.cmd = cmd, !.plan = plan]]
  BY DEF Start
<1> DEFINE s == [NotStarted EXCEPT !.pc = IF cmd = "uninstall" THEN "remove" ELSE "check",
                                   !.cmd = cmd, !.plan = plan]
<1>2. NotStarted \in EngineStates
  BY DEF NotStarted, EngineStates, PCs, Ends
<1>3. (IF cmd = "uninstall" THEN "remove" ELSE "check") \in PCs /\ plan \in Plans \cup {<<>>}
  BY DEF PCs
<1>4. s \in EngineStates
  BY <1>2, <1>3 DEF EngineStates
<1>5. cmd = "uninstall" => "app" \notin Foreign
  BY <1>1 DEF IInv, DiskOK
<1>6. RunOK(s)
  BY <1>5, Names DEF NotStarted, RunOK, AtFile, AtOwnFile, Harmless
<1>7. DiskOK'
  BY DEF Start, IInv, DiskOK, disk
<1>8. BoundsOK'
  BY InstallAssumption DEF Start, IInv, BoundsOK
<1>9. QED  BY <1>1, <1>4, <1>6, <1>7, <1>8, OneRun

LEMMA ExistingStep ==
    ASSUME IInv, NEW e \in Engines, Existing(e)
    PROVE  IInv'
<1>1. CASE FailsAs(e, "blocked")  BY <1>1, FailsStep DEF Existing
<1>2. ASSUME NEW pc \in {"list", "remove"}, Goes(e, pc), UNCHANGED undone, "app" \notin Foreign
      PROVE  IInv'
  <2> DEFINE r == eng[e]
             s == [r EXCEPT !.pc = pc]
  <2>1. r \in EngineStates /\ RunOK(r) /\ eng' = [eng EXCEPT ![e] = s]
    BY <1>2 DEF IInv, Goes
  <2>2. s \in EngineStates  BY <2>1 DEF EngineStates, PCs
  <2>3. RunOK(s)  BY <1>2, <2>1 DEF EngineStates, RunOK, AtFile, AtOwnFile
  <2>4. DiskOK'  BY DEF Existing, IInv, DiskOK, disk
  <2>5. BoundsOK'  BY <1>2 DEF Existing, IInv, BoundsOK
  <2>6. QED  BY <2>1, <2>2, <2>3, <2>4, <2>5, OneRun
<1>3. CASE "app" \notin here /\ Goes(e, "list") /\ UNCHANGED undone
  BY <1>2, <1>3 DEF IInv, DiskOK
<1>4. CASE Owned("app") /\ Goes(e, "remove") /\ UNCHANGED undone
  BY <1>2, <1>4 DEF Owned, IInv, DiskOK
<1>5. QED  BY <1>1, <1>3, <1>4 DEF Existing

\* What is removed when its .ti-owner has been looked at is nobody else's.
LEMMA RemovingStep ==
    ASSUME IInv, NEW e \in Engines, NEW d \in Folders \ Foreign,
           NEW next \in {"rmdir", "dirs", "mkfile"},
           NEW items \in SUBSET (Deps \cup {"menus"}),
           ~Harmless(eng[e]), next = "mkfile" => eng[e].i <= Len(eng[e].plan),
           eng' = [eng EXCEPT ![e].pc = "rm", ![e].doomed = d, ![e].next = next,
                              ![e].items = items],
           UNCHANGED <<disk, bounds>>
    PROVE  IInv'
<1> DEFINE r == eng[e]
           s == [r EXCEPT !.pc = "rm", !.doomed = d, !.next = next, !.items = items]
<1>1. r \in EngineStates /\ RunOK(r) /\ eng' = [eng EXCEPT ![e] = s]
  BY DEF IInv
<1>2. "rm" \in PCs  BY DEF PCs
<1>3. d \in Folders \cup {"none"} /\ next \in {"idle", "rmdir", "dirs", "mkfile", "rollback"}
  OBVIOUS
<1>4. s \in EngineStates
  BY <1>1, <1>2, <1>3 DEF EngineStates
<1>5. RunOK(s)
  BY <1>1 DEF EngineStates, RunOK, AtFile, AtOwnFile
<1>6. DiskOK'
  BY DEF IInv, DiskOK, disk
<1>7. BoundsOK'
  BY DEF IInv, BoundsOK, bounds
<1>8. QED  BY <1>1, <1>4, <1>5, <1>6, <1>7, OneRun

\* A folder with a .ti-owner of this app is a folder of the plan or the app's.
LEMMA OwnedIsOurs ==
    ASSUME IInv, NEW d, Owned(d)
    PROVE  d \in Folders \ Foreign
  BY DEF IInv, DiskOK, Owned

LEMMA RemoveDirStep ==
    ASSUME IInv, NEW e \in Engines, RemoveDir(e)
    PROVE  IInv'
<1> DEFINE r == eng[e]
<1>1. r \in EngineStates /\ RunOK(r) /\ r.pc = "dirs" /\ ~Harmless(r)
  BY DEF IInv, RemoveDir, At, Harmless, Ends
<1>2. PICK d \in r.items \ {"menus"} :
         LET rest == r.items \ {d}
         IN IF Owned(d)
            THEN eng' = [eng EXCEPT ![e].pc = "rm", ![e].doomed = d,
                                    ![e].next = "dirs", ![e].items = rest]
            ELSE eng' = [eng EXCEPT ![e].items = rest, ![e].bad = @ \/ d \in here]
  BY DEF RemoveDir
<1> DEFINE rest == r.items \ {d}
<1>3. rest \in SUBSET (Deps \cup {"menus"})
  BY <1>1 DEF EngineStates
<1>4. CASE Owned(d)
  <2>1. eng' = [eng EXCEPT ![e].pc = "rm", ![e].doomed = d,
                           ![e].next = "dirs", ![e].items = rest]
    BY <1>2, <1>4
  <2>2. UNCHANGED <<disk, bounds>>  BY DEF RemoveDir
  <2>3. d \in Folders \ Foreign  BY <1>4, OwnedIsOurs
  <2>4. QED  BY <1>1, <1>3, <2>1, <2>2, <2>3, RemovingStep
<1>5. CASE ~Owned(d)
  <2> DEFINE s == [r EXCEPT !.items = rest, !.bad = @ \/ d \in here]
  <2>1. eng' = [eng EXCEPT ![e] = s]
    BY <1>2, <1>5 DEF IInv
  <2>2. (r.bad \/ d \in here) \in BOOLEAN  OBVIOUS
  <2>3. s \in EngineStates
    BY <1>1, <1>3, <2>2 DEF EngineStates
  <2>4. RunOK(s)
    BY <1>1 DEF EngineStates, RunOK, AtFile, AtOwnFile, Harmless, Ends
  <2>5. DiskOK' /\ BoundsOK'
    BY DEF RemoveDir, IInv, DiskOK, BoundsOK, disk, bounds
  <2>6. QED  BY <2>1, <2>3, <2>4, <2>5, OneRun
<1>6. QED  BY <1>4, <1>5

LEMMA RemoveAppDirStep ==
    ASSUME IInv, NEW e \in Engines, RemoveAppDir(e)
    PROVE  IInv'
<1> DEFINE r == eng[e]
<1>1. r \in EngineStates /\ RunOK(r) /\ r.pc = "dirs" /\ ~Harmless(r)
  BY DEF IInv, RemoveAppDir, At, Harmless, Ends
<1>2. CASE Owned("app")
  <2>1. r.items \in SUBSET (Deps \cup {"menus"})  BY <1>1 DEF EngineStates
  <2>2. eng' = [eng EXCEPT ![e].pc = "rm", ![e].doomed = "app", ![e].next = "rmdir",
                           ![e].items = r.items]
    <3>1. Removing(e, "app", "rmdir")  BY <1>2 DEF RemoveAppDir
    <3>2. QED  BY <1>1, <3>1 DEF Removing, IInv, EngineStates
  <2>3. UNCHANGED <<disk, bounds>>  BY DEF RemoveAppDir
  <2>4. "app" \in Folders \ Foreign  BY <1>2, OwnedIsOurs
  <2>5. QED  BY <1>1, <2>1, <2>2, <2>3, <2>4, RemovingStep
<1>3. CASE ~Owned("app")
  <2> DEFINE s == [r EXCEPT !.pc = "rmdir", !.bad = TRUE]
  <2>1. eng' = [eng EXCEPT ![e] = s]
    BY <1>3 DEF RemoveAppDir, IInv
  <2>2. s \in EngineStates
    BY <1>1 DEF EngineStates, PCs
  <2>3. RunOK(s)
    BY <1>1 DEF EngineStates, RunOK, AtFile, AtOwnFile, Harmless, Ends
  <2>4. DiskOK' /\ BoundsOK'
    BY DEF RemoveAppDir, IInv, DiskOK, BoundsOK, disk, bounds
  <2>5. QED  BY <2>1, <2>2, <2>3, <2>4, OneRun
<1>4. QED  BY <1>2, <1>3

LEMMA ClearFileStep ==
    ASSUME IInv, NEW e \in Engines, ClearFile(e)
    PROVE  IInv'
<1> DEFINE r == eng[e]
<1>1. r \in EngineStates /\ RunOK(r) /\ r.pc = "file" /\ ~Harmless(r) /\ r.i <= Len(r.plan)
  BY DEF IInv, ClearFile, At, Harmless, Ends, MoreFiles
<1>2. CASE File(e) \notin here /\ Goes(e, "mkfile") /\ UNCHANGED undone
  <2> DEFINE s == [r EXCEPT !.pc = "mkfile"]
  <2>1. eng' = [eng EXCEPT ![e] = s]
    BY <1>2 DEF Goes, IInv
  <2>2. s \in EngineStates
    BY <1>1 DEF EngineStates, PCs
  <2>3. RunOK(s)
    BY <1>1 DEF EngineStates, RunOK, AtFile, AtOwnFile, Harmless, Ends
  <2>4. DiskOK' /\ BoundsOK'
    BY <1>2 DEF ClearFile, IInv, DiskOK, BoundsOK, disk, bounds
  <2>5. QED  BY <2>1, <2>2, <2>3, <2>4, OneRun
<1>3. CASE Owned(File(e)) /\ Removing(e, File(e), "mkfile") /\ UNCHANGED undone
  <2>1. r.items \in SUBSET (Deps \cup {"menus"})  BY <1>1 DEF EngineStates
  <2>2. eng' = [eng EXCEPT ![e].pc = "rm", ![e].doomed = File(e), ![e].next = "mkfile",
                           ![e].items = r.items]
    BY <1>1, <1>3 DEF Removing, IInv, EngineStates
  <2>3. UNCHANGED <<disk, bounds>>
    BY <1>3 DEF ClearFile, bounds
  <2>4. File(e) \in Folders \ Foreign  BY <1>3, OwnedIsOurs
  <2>5. QED  BY <1>1, <2>1, <2>2, <2>3, <2>4, RemovingStep
<1>4. CASE FailsAs(e, "blocked")  BY <1>4, FailsStep DEF ClearFile
<1>5. QED  BY <1>2, <1>3, <1>4 DEF ClearFile

LEMMA RemoveEndsStep ==
    ASSUME IInv, NEW e \in Engines, RemoveEnds(e)
    PROVE  IInv'
<1>1. CASE FailsAs(e, "failed")  BY <1>1, FailsStep DEF RemoveEnds
<1>2. ASSUME NEW pc \in {"refused", "removed", "list"}, Goes(e, pc), UNCHANGED undone
      PROVE  IInv'
  <2> DEFINE r == eng[e]
             s == [r EXCEPT !.pc = pc]
  <2>1. r \in EngineStates /\ RunOK(r) /\ r.pc = "gone" /\ eng' = [eng EXCEPT ![e] = s]
    BY <1>2 DEF IInv, Goes, RemoveEnds, At
  <2>2. s \in EngineStates  BY <2>1 DEF EngineStates, PCs, Ends
  <2>3. RunOK(s)
    BY <1>2, <2>1 DEF EngineStates, RunOK, AtFile, AtOwnFile, Harmless, Ends
  <2>4. DiskOK' /\ BoundsOK'
    BY <1>2 DEF RemoveEnds, IInv, DiskOK, BoundsOK, disk
  <2>5. QED  BY <2>1, <2>2, <2>3, <2>4, OneRun
<1>3. QED  BY <1>1, <1>2 DEF RemoveEnds

LEMMA RmFileStep ==
    ASSUME IInv, NEW e \in Engines, RmFile(e)
    PROVE  IInv'
<1>1. eng[e].doomed \in Folders \ Foreign
  BY DEF IInv, RmFile, At, RunOK
<1>2. DiskOK'
  BY <1>1, Names DEF RmFile, IInv, DiskOK
<1>3. QED  BY <1>2 DEF RmFile, IInv, BoundsOK, bounds

LEMMA RmFolderStep ==
    ASSUME IInv, NEW e \in Engines, RmFolder(e)
    PROVE  IInv'
<1> DEFINE r == eng[e]
           s == [r EXCEPT !.pc = r.next, !.doomed = "none"]
<1>1. r \in EngineStates /\ RunOK(r) /\ r.pc = "rm" /\ eng' = [eng EXCEPT ![e] = s]
  BY DEF IInv, RmFolder, At
<1>2. r.doomed \in Folders \ Foreign
  BY <1>1 DEF RunOK
<1>3. s \in EngineStates
  BY <1>1 DEF EngineStates, PCs, Ends
<1>4. RunOK(s)
  BY <1>1, Names DEF EngineStates, RunOK, AtFile, AtOwnFile, Harmless, Ends
<1>5. DiskOK' /\ BoundsOK'
  BY <1>2 DEF RmFolder, Works, IInv, DiskOK, BoundsOK
<1>6. QED  BY <1>1, <1>3, <1>4, <1>5, OneRun

LEMMA RmFailsStep ==
    ASSUME IInv, NEW e \in Engines, RmFails(e)
    PROVE  IInv'
<1> DEFINE r == eng[e]
           s == [r EXCEPT !.pc = r.next, !.doomed = "none"]
<1>1. r \in EngineStates /\ RunOK(r) /\ r.pc = "rm" /\ eng' = [eng EXCEPT ![e] = s]
  BY DEF IInv, RmFails, At
<1>2. r.doomed \in Folders \ Foreign
  BY <1>1 DEF RunOK
<1>3. s \in EngineStates
  BY <1>1 DEF EngineStates, PCs, Ends
<1>4. RunOK(s)
  BY <1>1, Names DEF EngineStates, RunOK, AtFile, AtOwnFile, Harmless, Ends
<1>5. DiskOK' /\ BoundsOK'
  BY <1>2 DEF RmFails, Slips, IInv, DiskOK, BoundsOK, disk
<1>6. QED  BY <1>1, <1>3, <1>4, <1>5, OneRun

LEMMA MenusStep ==
    ASSUME IInv, NEW e \in Engines, Menus(e)
    PROVE  IInv'
<1>1. CASE Mac /\ menus
  <2>1. FailsAs(e, "blocked") /\ UNCHANGED <<disk, starts, cuts, amiss>>
    BY <1>1 DEF Menus, disk
  <2>2. QED  BY <2>1, FailsStep
<1>2. CASE ~(Mac /\ menus)
  <2> DEFINE r == eng[e]
             s == [r EXCEPT !.made = @ \cup {"menus"}, !.pc = "notemenus"]
  <2>1. r \in EngineStates /\ RunOK(r) /\ r.pc = "menus" /\ eng' = [eng EXCEPT ![e] = s]
    BY <1>2 DEF IInv, Menus, Makes, At
  <2>2. r.made \cup {"menus"} \in SUBSET Things
    BY <2>1 DEF EngineStates, Things
  <2>3. s \in EngineStates
    BY <2>1, <2>2 DEF EngineStates, PCs
  <2>4. RunOK(s)
    BY <2>1, <2>2 DEF EngineStates, RunOK, AtFile, AtOwnFile, Harmless, Ends
  <2>5. DiskOK' /\ BoundsOK'
    BY <1>2 DEF Menus, Works, IInv, DiskOK, BoundsOK
  <2>6. QED  BY <2>1, <2>3, <2>4, <2>5, OneRun
<1>3. QED  BY <1>1, <1>2

\* What is left to roll back is a front of what was noted.
LEMMA Shorter ==
    ASSUME NEW r \in EngineStates, RunOK(r), r.created # <<>>
    PROVE  /\ Front(r.created) \in Seq(Things)
           /\ \A k \in 1..Len(Front(r.created)) : Front(r.created)[k] \in r.made \ Foreign
           /\ Last(r.created) \in Things \ Foreign
<1>1. /\ r.created \in Seq(Things)
      /\ \A k \in 1..Len(r.created) : r.created[k] \in r.made \ Foreign
  BY DEF EngineStates, RunOK
<1>2. Len(r.created) \in Nat /\ Len(r.created) >= 1
  BY <1>1
<1>3. /\ Front(r.created) \in Seq(Things)
      /\ Len(Front(r.created)) = Len(r.created) - 1
      /\ \A k \in 1..Len(Front(r.created)) : Front(r.created)[k] = r.created[k]
  BY <1>1, <1>2 DEF Front
<1>4. Last(r.created) \in Things /\ Last(r.created) \notin Foreign
  BY <1>1, <1>2 DEF Last
<1>5. \A k \in 1..Len(Front(r.created)) : k \in 1..Len(r.created)
  BY <1>2, <1>3
<1>6. QED  BY <1>1, <1>3, <1>4, <1>5

LEMMA RollbackStep ==
    ASSUME IInv, NEW e \in Engines, Rollback(e)
    PROVE  IInv'
<1> DEFINE r == eng[e]
<1>1. r \in EngineStates /\ RunOK(r) /\ r.pc = "rollback"
  BY DEF IInv, Rollback, At
<1>2. BoundsOK'
  BY DEF Rollback, Works, Slips, IInv, BoundsOK, bounds
<1>3. DiskOK'
  BY DEF Rollback, IInv, DiskOK
<1>4. CASE r.created = <<>>
  <2> DEFINE s == [r EXCEPT !.pc = r.end, !.noting = FALSE]
  <2>1. eng' = [eng EXCEPT ![e] = s]
    BY <1>4 DEF Rollback, IInv
  <2>2. r.end \in PCs  BY <1>1 DEF EngineStates, RunOK, PCs, Ends
  <2>3. s \in EngineStates  BY <1>1, <2>2 DEF EngineStates
  <2>4. RunOK(s)
    BY <1>1 DEF EngineStates, RunOK, AtFile, AtOwnFile, Harmless, Ends
  <2>5. QED  BY <1>2, <1>3, <2>1, <2>3, <2>4, OneRun
<1>5. CASE r.created # <<>> /\ Last(r.created) = "menus"
  <2> DEFINE s == [r EXCEPT !.created = Front(@)]
  <2>1. eng' = [eng EXCEPT ![e] = s]
    BY <1>5 DEF Rollback, IInv
  <2>2. s \in EngineStates  BY <1>1, <1>5, Shorter DEF EngineStates
  <2>3. RunOK(s)
    BY <1>1, <1>5, Shorter DEF EngineStates, RunOK, AtFile, AtOwnFile, Harmless, Ends
  <2>4. QED  BY <1>2, <1>3, <2>1, <2>2, <2>3, OneRun
<1>6. CASE r.created # <<>> /\ Last(r.created) # "menus"
  <2> DEFINE s == [r EXCEPT !.created = Front(@), !.pc = "rm", !.doomed = Last(r.created),
                            !.next = "rollback"]
  <2>1. eng' = [eng EXCEPT ![e] = s]
    BY <1>6 DEF Rollback, IInv
  <2>2. Last(r.created) \in Folders \ Foreign
    BY <1>1, <1>6, Shorter DEF Things
  <2>3. s \in EngineStates  BY <1>1, <1>6, <2>2, Shorter DEF EngineStates, PCs
  <2>4. RunOK(s)
    BY <1>1, <1>6, <2>2, Shorter DEF EngineStates, RunOK, AtFile, AtOwnFile, Harmless, Ends
  <2>5. QED  BY <1>2, <1>3, <2>1, <2>3, <2>4, OneRun
<1>7. QED  BY <1>4, <1>5, <1>6

LEMMA InterruptStep ==
    ASSUME IInv, NEW e \in Engines, Interrupt(e)
    PROVE  IInv'
<1> DEFINE r == eng[e]
           s == [r EXCEPT !.pc = IF r.noting THEN "rollback" ELSE "failed",
                          !.end = "failed", !.doomed = "none", !.gap = Gap(e)]
<1>1. r \in EngineStates /\ RunOK(r) /\ eng' = [eng EXCEPT ![e] = s]
  BY DEF IInv, Interrupt
<1>2. Gap(e) \in SUBSET Things
  <2>1. At(e, "notefile") => File(e) \in Things
    BY <1>1, Names DEF At, RunOK, AtFile, EngineStates, File, Folders, Things
  <2>2. QED  BY <2>1, Names DEF Gap, Things, At
<1>3. (IF r.noting THEN "rollback" ELSE "failed") \in PCs
  BY DEF PCs, Ends
<1>4. s \in EngineStates
  BY <1>1, <1>2, <1>3 DEF EngineStates
<1>5. RunOK(s)
  BY <1>1, Names DEF EngineStates, RunOK, AtFile, AtOwnFile, Harmless, Ends
<1>6. DiskOK'
  BY DEF Interrupt, IInv, DiskOK, disk
<1>7. BoundsOK'
  BY InstallAssumption DEF Interrupt, IInv, BoundsOK
<1>8. QED  BY <1>1, <1>4, <1>5, <1>6, <1>7, OneRun

(* The invariant *)

LEMMA InitOK == Init => IInv
<1> SUFFICES ASSUME Init PROVE IInv  OBVIOUS
<1>1. NotStarted \in EngineStates
  BY DEF NotStarted, EngineStates, PCs, Ends
<1>2. RunOK(NotStarted)
  BY Names DEF NotStarted, RunOK, AtFile, AtOwnFile, Harmless
<1>3. DiskOK
  <2>1. here = Foreign /\ files = [f \in Folders |-> IF f \in Foreign THEN {"theirs"} ELSE {}]
    BY DEF Init
  <2>2. \A f \in Folders : files[f] = (IF f \in Foreign THEN {"theirs"} ELSE {})
    BY <2>1
  <2>3. {"theirs"} \in SUBSET Files /\ {} \in SUBSET Files
    BY DEF Files
  <2>4. files \in [Folders -> SUBSET Files]
    BY <2>1, <2>3
  <2>5. QED  BY <2>1, <2>2, <2>4, Names DEF Init, DiskOK
<1>4. BoundsOK
  <2>1. starts = 0 /\ cuts = 0 /\ undone = FALSE  BY DEF Init
  <2>2. MaxStarts \in Nat /\ MaxCuts \in Nat  BY InstallAssumption
  <2>3. starts \in 0..MaxStarts /\ cuts \in 0..MaxCuts  BY <2>1, <2>2
  <2>4. undone \in BOOLEAN /\ amiss \subseteq Unasked  BY <2>1 DEF Init
  <2>5. QED  BY <2>3, <2>4 DEF BoundsOK
<1>5. QED  BY <1>1, <1>2, <1>3, <1>4 DEF Init, IInv

LEMMA NextStep == IInv /\ [Next]_vars => IInv'
<1> SUFFICES ASSUME IInv, [Next]_vars PROVE IInv'  OBVIOUS
<1>1. CASE UNCHANGED vars
  BY <1>1 DEF vars, disk, bounds, IInv, DiskOK, BoundsOK
<1>2. ASSUME NEW e \in Engines,
             Start(e) \/ Check(e) \/ Prerequisites(e) \/ Existing(e)
      PROVE  IInv'
  BY <1>2, StartStep, CheckStep, PrerequisitesStep, ExistingStep
<1>3. ASSUME NEW e \in Engines, Removal(e) PROVE IInv'
  BY <1>3, RemoveMarkerStep, RemoveMenusStep, RemoveDirStep, RemoveAppDirStep,
     RemoveMenusFolderStep, RemoveEndsStep, RmFileStep, RmFolderStep, RmFailsStep DEF Removal
<1>4. ASSUME NEW e \in Engines, Installing(e) PROVE IInv'
  BY <1>4, StartListStep, MakeAppStep, NoteAppStep, OwnAppStep, ClearFileStep, MakeFileStep,
     NoteFileStep, OwnFileStep, ObtainStep, FillFileStep, ProjectStep, LaunchStep,
     MenusStep, NoteMenusStep, ManifestStep, MarkerStep, DoneStep DEF Installing
<1>5. ASSUME NEW e \in Engines,
             StepFails(e) \/ Rollback(e) \/ Interrupt(e) \/ Kill(e) \/ KillManifest(e)
      PROVE  IInv'
  BY <1>5, StepFailsStep, RollbackStep, InterruptStep, KillStep, KillManifestStep
<1>6. QED  BY <1>1, <1>2, <1>3, <1>4, <1>5 DEF Next

LEMMA Invariance == Spec => []IInv
  BY InitOK, NextStep, PTL DEF Spec

(* The theorems *)

\* Every variable keeps its type, with any number of runs at once.
THEOREM InstallTypeCorrect == Spec => []TypeOK
<1>1. IInv => TypeOK
  <2> SUFFICES ASSUME IInv PROVE TypeOK  OBVIOUS
  <2>1. ASSUME NEW e \in Engines
        PROVE  /\ eng[e].plan \in Plans \cup {<<>>}
               /\ eng[e].items \subseteq Deps \cup {"menus"}
               /\ ToSet(eng[e].created) \subseteq eng[e].made
               /\ eng[e].made \subseteq Folders \cup {"menus"}
               /\ At(e, "rm") => eng[e].doomed \in Folders
    <3>1. eng[e] \in EngineStates /\ RunOK(eng[e])  BY DEF IInv
    <3>2. ToSet(eng[e].created) \subseteq eng[e].made
      BY <3>1 DEF EngineStates, RunOK, ToSet
    <3>3. QED  BY <3>1, <3>2 DEF EngineStates, RunOK, Things, At
  <2>2. QED  BY <2>1 DEF IInv, DiskOK, BoundsOK, TypeOK
<1>2. QED  BY <1>1, Invariance, PTL

\* No run, and no number of runs at once, changes a folder that was there
\* before and is not this app's, whatever fails, is interrupted or is killed:
\* every rm -rf is of a folder whose .ti-owner was looked at or that the run
\* itself has made, and a run that finds the app's folder taken stops at once.
THEOREM FoldersOfOthersAreSafe == Spec => ForeignUntouched
<1>1. IInv /\ IInv' => [\A f \in Foreign : f \in here' /\ files'[f] = files[f]]_vars
  BY DEF IInv, DiskOK
<1>2. QED  BY <1>1, Invariance, PTL DEF ForeignUntouched

(* The inductive invariant *)

\* A file's folder as its steps leave it; whether its .ti-owner could be written
\* is not asked.
Stocked(d) == d \in here /\ "body" \in files[d] /\ ("owner" \in files[d] \/ d \in amiss)

\* The states of a run in which a finished install may be there.
Quiet(s) == s.pc \in {"idle", "check", "needs", "existing", "remove", "last"} \cup Ends

\* All files of the plan are there.
AfterFiles(s) == s.pc \in {"launch", "menus", "notemenus", "manifest", "marker"}

\* A run that has not come to its files.
Early(s) == \/ s.pc \in {"check", "needs", "existing", "remove", "unlink", "dirs", "rmdir", "gone",
                       "list", "mkdir", "note", "own"}
            \/ s.pc = "rm" /\ s.next \in {"dirs", "rmdir"}

\* The app's folder is this run's.
Begun(s) == s.pc = "file" \/ AtFile(s) \/ AfterFiles(s)

\* A finished install, as its manifest lists it.
FullyInstalled == /\ {"owner", "launch", "body", "manifest"} \subseteq files["app"]
                  /\ \A d \in lines \ {"menus"} : Stocked(d)

\* While a run is at work there is no marker: it comes after all the rest and
\* goes before it, unless it could not be removed.
MarkerOK(s) == "marker" \in files["app"] /\ ~undone /\ "marker" \notin amiss => Quiet(s) /\ FullyInstalled

\* The files of the plan before the one the run is at are there, unless one
\* of them is the same file, which is being made again.
FilesOK(s) ==
    /\ Early(s) => s.i = 1
    /\ Begun(s) => \A k \in 1..Len(s.plan) : k < s.i =>
                      Stocked(s.plan[k]) \/ (AtFile(s) /\ s.plan[k] = s.plan[s.i])
    /\ AtOwnFile(s) => s.plan[s.i] \in here
    /\ s.pc \in {"fetch", "fill"} => \/ "owner" \in files[s.plan[s.i]]
                                  \/ s.plan[s.i] \in amiss
    /\ s.pc = "rm" /\ s.next = "mkfile" => s.doomed = s.plan[s.i]

\* The app's own folder, as far as the run has come.
AppOK(s) ==
    /\ Begun(s) => "owner" \in files["app"]
    /\ AfterFiles(s) => "body" \in files["app"] /\ s.i > Len(s.plan)
    /\ s.pc \in {"menus", "notemenus", "manifest", "marker"} => "launch" \in files["app"]
    /\ s.pc = "marker" => /\ "manifest" \in files["app"]
                          /\ lines = ToSet(s.plan) \cup {"menus"}

OnDisk(s) == MarkerOK(s) /\ FilesOK(s) /\ AppOK(s)

(* One lemma for each action of the run *)

LEMMA MarkerDisk ==
    ASSUME NEW e \in Engines, IInv, OnDisk(eng[e]), Marker(e)
    PROVE  OnDisk(eng[e])'
<1> DEFINE r == eng[e]
<1>1. PICK s : s = eng'[e]  OBVIOUS
<1>2. /\ r \in EngineStates /\ RunOK(r) /\ OnDisk(r) /\ DiskOK
      /\ s = [r EXCEPT !.pc = "last"]
  BY <1>1 DEF IInv, Marker, At, Goes, Puts
<1>3. Len(r.plan) \in Nat /\ ToSet(r.plan) = {r.plan[k] : k \in 1..Len(r.plan)}
  <2>1. r.plan \in Seq(Deps)  BY <1>2, Names DEF EngineStates
  <2>2. QED  BY <2>1 DEF ToSet
<1>4. /\ {"owner", "launch", "body", "manifest"} \subseteq files["app"]
      /\ lines = ToSet(r.plan) \cup {"menus"}
      /\ \A k \in 1..Len(r.plan) : Stocked(r.plan[k])
  BY <1>2, <1>3
     DEF Marker, At, OnDisk, FilesOK, AppOK, Begun, AfterFiles, AtFile, EngineStates
<1>5. \A d \in lines \ {"menus"} : Stocked(d)
  BY <1>3, <1>4
<1>6. \A d : Stocked(d) => Stocked(d)'
  BY <1>2 DEF Marker, Puts, Stocked, bounds, DiskOK
<1>7. FullyInstalled'
  BY <1>2, <1>4, <1>5, <1>6, Names DEF Marker, Puts, FullyInstalled, DiskOK
<1>8. MarkerOK(s)'
  BY <1>2, <1>7 DEF MarkerOK, Quiet, EngineStates
<1>9. FilesOK(s)'
  BY <1>2, Names
     DEF Marker, At, Goes, Puts, OnDisk, FilesOK, Early, Begun, AfterFiles, AtFile,
         AtOwnFile, Stocked, bounds, disk, EngineStates, DiskOK
<1>10. AppOK(s)'
  BY <1>2, Names
     DEF Marker, At, Goes, Puts, OnDisk, AppOK, Begun, AfterFiles, AtFile, disk,
         EngineStates, DiskOK
<1>11. QED  BY <1>1, <1>8, <1>9, <1>10
          DEF OnDisk, MarkerOK, FilesOK, AppOK, Stocked, bounds, FullyInstalled

LEMMA CheckDisk ==
    ASSUME NEW e \in Engines, IInv, OnDisk(eng[e]), Check(e)
    PROVE  OnDisk(eng[e])'
<1> DEFINE r == eng[e]
<1>1. PICK s : s = eng'[e]  OBVIOUS
<1>2. /\ r \in EngineStates /\ RunOK(r) /\ OnDisk(r) /\ DiskOK
      /\ s = [r EXCEPT !.pc = IF r.cmd = "install" /\ IsInstalled THEN "started" ELSE "needs"]
  BY <1>1 DEF IInv, Check, At, Goes
<1>3. MarkerOK(s)'
  BY <1>2, Names
     DEF Check, At, Goes, OnDisk, MarkerOK, Quiet, Ends, FullyInstalled, Stocked, disk,
         bounds, EngineStates, DiskOK
<1>4. FilesOK(s)'
  BY <1>2, Names
     DEF Check, At, Goes, OnDisk, FilesOK, Early, Begun, AfterFiles, AtFile, AtOwnFile,
         Stocked, bounds, disk, EngineStates, DiskOK
<1>5. AppOK(s)'
  BY <1>2, Names
     DEF Check, At, Goes, OnDisk, AppOK, Begun, AfterFiles, AtFile, disk, EngineStates,
         DiskOK
<1>6. QED  BY <1>1, <1>3, <1>4, <1>5
          DEF OnDisk, MarkerOK, FilesOK, AppOK, Stocked, bounds, FullyInstalled

LEMMA PrerequisitesDisk ==
    ASSUME NEW e \in Engines, IInv, OnDisk(eng[e]), Prerequisites(e)
    PROVE  OnDisk(eng[e])'
<1> DEFINE r == eng[e]
<1>1. PICK s : s = eng'[e]  OBVIOUS
<1>2. /\ r \in EngineStates /\ RunOK(r) /\ OnDisk(r) /\ DiskOK
      /\ s = [r EXCEPT !.pc = "existing"]
  BY <1>1 DEF IInv, Prerequisites, At, Goes
<1>3. MarkerOK(s)'
  BY <1>2, Names
     DEF Prerequisites, At, Goes, OnDisk, MarkerOK, Quiet, Ends, FullyInstalled, Stocked,
         disk, bounds, EngineStates, DiskOK
<1>4. FilesOK(s)'
  BY <1>2, Names
     DEF Prerequisites, At, Goes, OnDisk, FilesOK, Early, Begun, AfterFiles, AtFile,
         AtOwnFile, Stocked, bounds, disk, EngineStates, DiskOK
<1>5. AppOK(s)'
  BY <1>2, Names
     DEF Prerequisites, At, Goes, OnDisk, AppOK, Begun, AfterFiles, AtFile, disk,
         EngineStates, DiskOK
<1>6. QED  BY <1>1, <1>3, <1>4, <1>5
          DEF OnDisk, MarkerOK, FilesOK, AppOK, Stocked, bounds, FullyInstalled

LEMMA RemoveMarkerDisk ==
    ASSUME NEW e \in Engines, IInv, OnDisk(eng[e]), RemoveMarker(e)
    PROVE  OnDisk(eng[e])'
<1> DEFINE r == eng[e]
<1>1. PICK s : s = eng'[e]  OBVIOUS
<1>2. /\ r \in EngineStates /\ RunOK(r) /\ OnDisk(r) /\ DiskOK
      /\ s = [r EXCEPT !.pc = "unlink",
                         !.items = IF "manifest" \in files["app"] THEN lines ELSE {}]
  BY <1>1 DEF IInv, RemoveMarker, At
<1>3. MarkerOK(s)'
  BY <1>2, Names
     DEF RemoveMarker, Works, Slips, At, OnDisk, MarkerOK, Quiet, Ends, FullyInstalled, Stocked, disk,
         bounds, EngineStates, DiskOK
<1>4. FilesOK(s)'
  BY <1>2, Names
     DEF RemoveMarker, Works, Slips, At, OnDisk, FilesOK, Early, Begun, AfterFiles, AtFile, AtOwnFile,
         Stocked, bounds, disk, EngineStates, DiskOK
<1>5. AppOK(s)'
  BY <1>2, Names
     DEF RemoveMarker, Works, Slips, At, OnDisk, AppOK, Begun, AfterFiles, AtFile, disk, EngineStates,
         DiskOK
<1>6. QED  BY <1>1, <1>3, <1>4, <1>5
          DEF OnDisk, MarkerOK, FilesOK, AppOK, Stocked, bounds, FullyInstalled

LEMMA RemoveMenusDisk ==
    ASSUME NEW e \in Engines, IInv, OnDisk(eng[e]), RemoveMenus(e)
    PROVE  OnDisk(eng[e])'
<1> DEFINE r == eng[e]
<1>1. PICK s : s = eng'[e]  OBVIOUS
<1>2. /\ r \in EngineStates /\ RunOK(r) /\ OnDisk(r) /\ DiskOK
      /\ s = [r EXCEPT !.pc = "dirs", !.items = IF Mac THEN @ ELSE @ \ {"menus"}]
  BY <1>1 DEF IInv, RemoveMenus, At
<1>3. MarkerOK(s)'
  BY <1>2, Names
     DEF RemoveMenus, Unlinks, Works, Slips, At, OnDisk, MarkerOK, Quiet, Ends, FullyInstalled, Stocked, disk,
         bounds, EngineStates, DiskOK
<1>4. FilesOK(s)'
  BY <1>2, Names
     DEF RemoveMenus, Unlinks, Works, Slips, At, OnDisk, FilesOK, Early, Begun, AfterFiles, AtFile, AtOwnFile,
         Stocked, bounds, disk, EngineStates, DiskOK
<1>5. AppOK(s)'
  BY <1>2, Names
     DEF RemoveMenus, Unlinks, Works, Slips, At, OnDisk, AppOK, Begun, AfterFiles, AtFile, disk, EngineStates,
         DiskOK
<1>6. QED  BY <1>1, <1>3, <1>4, <1>5
          DEF OnDisk, MarkerOK, FilesOK, AppOK, Stocked, bounds, FullyInstalled

LEMMA RemoveMenusFolderDisk ==
    ASSUME NEW e \in Engines, IInv, OnDisk(eng[e]), RemoveMenusFolder(e)
    PROVE  OnDisk(eng[e])'
<1> DEFINE r == eng[e]
<1>1. PICK s : s = eng'[e]  OBVIOUS
<1>2. /\ r \in EngineStates /\ RunOK(r) /\ OnDisk(r) /\ DiskOK
      /\ s = [r EXCEPT !.pc = "gone", !.items = {}]
  BY <1>1 DEF IInv, RemoveMenusFolder, At
<1>3. MarkerOK(s)'
  BY <1>2, Names
     DEF RemoveMenusFolder, Unlinks, Works, Slips, At, OnDisk, MarkerOK, Quiet, Ends, FullyInstalled, Stocked, disk,
         bounds, EngineStates, DiskOK
<1>4. FilesOK(s)'
  BY <1>2, Names
     DEF RemoveMenusFolder, Unlinks, Works, Slips, At, OnDisk, FilesOK, Early, Begun, AfterFiles, AtFile, AtOwnFile,
         Stocked, bounds, disk, EngineStates, DiskOK
<1>5. AppOK(s)'
  BY <1>2, Names
     DEF RemoveMenusFolder, Unlinks, Works, Slips, At, OnDisk, AppOK, Begun, AfterFiles, AtFile, disk, EngineStates,
         DiskOK
<1>6. QED  BY <1>1, <1>3, <1>4, <1>5
          DEF OnDisk, MarkerOK, FilesOK, AppOK, Stocked, bounds, FullyInstalled

LEMMA StartListDisk ==
    ASSUME NEW e \in Engines, IInv, OnDisk(eng[e]), StartList(e)
    PROVE  OnDisk(eng[e])'
<1> DEFINE r == eng[e]
<1>1. PICK s : s = eng'[e]  OBVIOUS
<1>2. /\ r \in EngineStates /\ RunOK(r) /\ OnDisk(r) /\ DiskOK
      /\ s = [r EXCEPT !.noting = TRUE, !.pc = "mkdir"]
  BY <1>1 DEF IInv, StartList, At
<1>3. MarkerOK(s)'
  BY <1>2, Names
     DEF StartList, At, OnDisk, MarkerOK, Quiet, Ends, FullyInstalled, Stocked, disk,
         bounds, EngineStates, DiskOK
<1>4. FilesOK(s)'
  BY <1>2, Names
     DEF StartList, At, OnDisk, FilesOK, Early, Begun, AfterFiles, AtFile, AtOwnFile,
         Stocked, bounds, disk, EngineStates, DiskOK
<1>5. AppOK(s)'
  BY <1>2, Names
     DEF StartList, At, OnDisk, AppOK, Begun, AfterFiles, AtFile, disk, EngineStates, DiskOK
<1>6. QED  BY <1>1, <1>3, <1>4, <1>5
          DEF OnDisk, MarkerOK, FilesOK, AppOK, Stocked, bounds, FullyInstalled

LEMMA MakeAppDisk ==
    ASSUME NEW e \in Engines, IInv, OnDisk(eng[e]), MakeApp(e)
    PROVE  OnDisk(eng[e])'
<1> DEFINE r == eng[e]
<1>1. PICK s : s = eng'[e]  OBVIOUS
<1>2. /\ r \in EngineStates /\ RunOK(r) /\ OnDisk(r) /\ DiskOK
      /\ s = [r EXCEPT !.made = @ \cup {"app"}, !.pc = "note"]
  BY <1>1 DEF IInv, MakeApp, At, Makes
<1>3. MarkerOK(s)'
  BY <1>2, Names
     DEF MakeApp, At, Makes, OnDisk, MarkerOK, Quiet, Ends, FullyInstalled, Stocked, disk,
         bounds, EngineStates, DiskOK
<1>4. FilesOK(s)'
  BY <1>2, Names
     DEF MakeApp, At, Makes, OnDisk, FilesOK, Early, Begun, AfterFiles, AtFile, AtOwnFile,
         Stocked, bounds, disk, EngineStates, DiskOK
<1>5. AppOK(s)'
  BY <1>2, Names
     DEF MakeApp, At, Makes, OnDisk, AppOK, Begun, AfterFiles, AtFile, disk, EngineStates,
         DiskOK
<1>6. QED  BY <1>1, <1>3, <1>4, <1>5
          DEF OnDisk, MarkerOK, FilesOK, AppOK, Stocked, bounds, FullyInstalled

LEMMA NoteAppDisk ==
    ASSUME NEW e \in Engines, IInv, OnDisk(eng[e]), NoteApp(e)
    PROVE  OnDisk(eng[e])'
<1> DEFINE r == eng[e]
<1>1. PICK s : s = eng'[e]  OBVIOUS
<1>2. /\ r \in EngineStates /\ RunOK(r) /\ OnDisk(r) /\ DiskOK
      /\ s = [r EXCEPT !.created = Append(@, "app"), !.pc = "own"]
  BY <1>1 DEF IInv, NoteApp, At, Notes
<1>3. MarkerOK(s)'
  BY <1>2, Names
     DEF NoteApp, At, Notes, OnDisk, MarkerOK, Quiet, Ends, FullyInstalled, Stocked, disk,
         bounds, EngineStates, DiskOK
<1>4. FilesOK(s)'
  BY <1>2, Names
     DEF NoteApp, At, Notes, OnDisk, FilesOK, Early, Begun, AfterFiles, AtFile, AtOwnFile,
         Stocked, bounds, disk, EngineStates, DiskOK
<1>5. AppOK(s)'
  BY <1>2, Names
     DEF NoteApp, At, Notes, OnDisk, AppOK, Begun, AfterFiles, AtFile, disk, EngineStates,
         DiskOK
<1>6. QED  BY <1>1, <1>3, <1>4, <1>5
          DEF OnDisk, MarkerOK, FilesOK, AppOK, Stocked, bounds, FullyInstalled

LEMMA OwnAppDisk ==
    ASSUME NEW e \in Engines, IInv, OnDisk(eng[e]), OwnApp(e)
    PROVE  OnDisk(eng[e])'
<1> DEFINE r == eng[e]
<1>1. PICK s : s = eng'[e]  OBVIOUS
<1>2. /\ r \in EngineStates /\ RunOK(r) /\ OnDisk(r) /\ DiskOK
      /\ s = [r EXCEPT !.pc = "file"]
  BY <1>1 DEF IInv, OwnApp, At, Goes, Puts
<1>3. MarkerOK(s)'
  BY <1>2, Names
     DEF OwnApp, At, Goes, Puts, OnDisk, MarkerOK, Quiet, Ends, FullyInstalled, Stocked,
         disk, bounds, EngineStates, DiskOK
<1>4. FilesOK(s)'
  BY <1>2, Names
     DEF OwnApp, At, Goes, Puts, OnDisk, FilesOK, Early, Begun, AfterFiles, AtFile,
         AtOwnFile, Stocked, bounds, disk, EngineStates, DiskOK
<1>5. AppOK(s)'
  BY <1>2, Names
     DEF OwnApp, At, Goes, Puts, OnDisk, AppOK, Begun, AfterFiles, AtFile, disk,
         EngineStates, DiskOK
<1>6. QED  BY <1>1, <1>3, <1>4, <1>5
          DEF OnDisk, MarkerOK, FilesOK, AppOK, Stocked, bounds, FullyInstalled

LEMMA MakeFileDisk ==
    ASSUME NEW e \in Engines, IInv, OnDisk(eng[e]), MakeFile(e)
    PROVE  OnDisk(eng[e])'
<1> DEFINE r == eng[e]
<1>1. PICK s : s = eng'[e]  OBVIOUS
<1>2. /\ r \in EngineStates /\ RunOK(r) /\ OnDisk(r) /\ DiskOK
      /\ s = [r EXCEPT !.made = @ \cup {File(e)}, !.pc = "notefile"]
  BY <1>1 DEF IInv, MakeFile, At, Makes, File
<1>3. MarkerOK(s)'
  BY <1>2, Names
     DEF MakeFile, At, Makes, File, OnDisk, MarkerOK, Quiet, Ends, FullyInstalled, Stocked,
         disk, bounds, EngineStates, DiskOK
<1>4. FilesOK(s)'
  BY <1>2, Names
     DEF MakeFile, At, Makes, File, OnDisk, FilesOK, Early, Begun, AfterFiles, AtFile,
         AtOwnFile, Stocked, bounds, disk, EngineStates, DiskOK
<1>5. AppOK(s)'
  BY <1>2, Names
     DEF MakeFile, At, Makes, File, OnDisk, AppOK, Begun, AfterFiles, AtFile, disk,
         EngineStates, DiskOK
<1>6. QED  BY <1>1, <1>3, <1>4, <1>5
          DEF OnDisk, MarkerOK, FilesOK, AppOK, Stocked, bounds, FullyInstalled

LEMMA NoteFileDisk ==
    ASSUME NEW e \in Engines, IInv, OnDisk(eng[e]), NoteFile(e)
    PROVE  OnDisk(eng[e])'
<1> DEFINE r == eng[e]
<1>1. PICK s : s = eng'[e]  OBVIOUS
<1>2. /\ r \in EngineStates /\ RunOK(r) /\ OnDisk(r) /\ DiskOK
      /\ s = [r EXCEPT !.created = Append(@, File(e)), !.pc = "ownfile"]
  BY <1>1 DEF IInv, NoteFile, At, Notes, File
<1>3. MarkerOK(s)'
  BY <1>2, Names
     DEF NoteFile, At, Notes, File, OnDisk, MarkerOK, Quiet, Ends, FullyInstalled, Stocked,
         disk, bounds, EngineStates, DiskOK
<1>4. FilesOK(s)'
  BY <1>2, Names
     DEF NoteFile, At, Notes, File, OnDisk, FilesOK, Early, Begun, AfterFiles, AtFile,
         AtOwnFile, Stocked, bounds, disk, EngineStates, DiskOK
<1>5. AppOK(s)'
  BY <1>2, Names
     DEF NoteFile, At, Notes, File, OnDisk, AppOK, Begun, AfterFiles, AtFile, disk,
         EngineStates, DiskOK
<1>6. QED  BY <1>1, <1>3, <1>4, <1>5
          DEF OnDisk, MarkerOK, FilesOK, AppOK, Stocked, bounds, FullyInstalled

LEMMA OwnFileDisk ==
    ASSUME NEW e \in Engines, IInv, OnDisk(eng[e]), OwnFile(e)
    PROVE  OnDisk(eng[e])'
<1> DEFINE r == eng[e]
<1>1. PICK s : s = eng'[e]  OBVIOUS
<1>2. /\ r \in EngineStates /\ RunOK(r) /\ OnDisk(r) /\ DiskOK
      /\ s = [r EXCEPT !.pc = "fetch"]
  BY <1>1 DEF IInv, OwnFile, At, Goes, Puts, File
<1>3. File(e) \in Deps /\ "app" \notin Deps
  BY <1>2, Names, InstallAssumption DEF OwnFile, At, File, RunOK, AtFile, EngineStates
<1>4. MarkerOK(s)'
  <2>1. files'["app"] = files["app"] /\ UNCHANGED <<undone, lines>> /\ amiss \subseteq amiss'
    BY <1>3, Names DEF OwnFile, Puts, Slips, IInv, DiskOK, bounds
  <2>2. "marker" \in files["app"] => undone \/ "marker" \in amiss
    BY <1>2 DEF OwnFile, At, OnDisk, MarkerOK, Quiet, Ends
  <2>3. QED  BY <2>1, <2>2 DEF MarkerOK
<1>5. FilesOK(s)'
  <2>1. /\ r.pc = "ownfile" /\ s.pc = "fetch" /\ s.plan = r.plan /\ s.i = r.i /\ s.next = r.next
        /\ File(e) = r.plan[r.i]
    BY <1>2 DEF OwnFile, At, File, EngineStates
  <2>2. /\ r.plan[r.i] \in here
        /\ \A k \in 1..Len(r.plan) : k < r.i => Stocked(r.plan[k]) \/ r.plan[k] = r.plan[r.i]
    BY <1>2, <2>1 DEF OnDisk, FilesOK, Begun, AtFile, AtOwnFile
  <2>3. \/ files' = [files EXCEPT ![File(e)] = @ \cup {"owner"}] /\ amiss' = amiss
        \/ files' = files /\ amiss' = amiss \cup {File(e)}
    BY <2>1, <2>2 DEF OwnFile, Puts, Slips, bounds
  <2>4. /\ here' = here /\ files \in [Folders -> SUBSET Files] /\ here \subseteq Folders
        /\ File(e) \in Folders
    BY <1>2, <2>1, <2>2 DEF OwnFile, DiskOK
  <2>5. \A d : Stocked(d) => Stocked(d)'
    BY <2>3, <2>4 DEF Stocked
  <2>6. "owner" \in files'[File(e)] \/ File(e) \in amiss'
    BY <2>3, <2>4
  <2>7. ~Early(s)  BY <2>1 DEF Early
  <2>8. QED  BY <2>1, <2>2, <2>4, <2>5, <2>6, <2>7 DEF FilesOK, AtFile, AtOwnFile
<1>6. AppOK(s)'
  BY <1>2, Names
     DEF OwnFile, At, Goes, Puts, Slips, File, OnDisk, AppOK, Begun, AfterFiles, AtFile, disk,
         EngineStates, DiskOK
<1>7. QED  BY <1>1, <1>4, <1>5, <1>6
          DEF OnDisk, MarkerOK, FilesOK, AppOK, Stocked, bounds, FullyInstalled

LEMMA ObtainDisk ==
    ASSUME NEW e \in Engines, IInv, OnDisk(eng[e]), Obtain(e)
    PROVE  OnDisk(eng[e])'
<1> DEFINE r == eng[e]
<1>1. PICK s : s = eng'[e]  OBVIOUS
<1>2. /\ r \in EngineStates /\ RunOK(r) /\ OnDisk(r) /\ DiskOK
      /\ s = [r EXCEPT !.pc = "fill"]
  BY <1>1 DEF IInv, Obtain, At, Goes
<1>3. MarkerOK(s)'
  BY <1>2, Names
     DEF Obtain, At, Goes, OnDisk, MarkerOK, Quiet, Ends, FullyInstalled, Stocked, disk,
         bounds, EngineStates, DiskOK
<1>4. FilesOK(s)'
  BY <1>2, Names
     DEF Obtain, At, Goes, OnDisk, FilesOK, Early, Begun, AfterFiles, AtFile, AtOwnFile,
         Stocked, bounds, disk, EngineStates, DiskOK
<1>5. AppOK(s)'
  BY <1>2, Names
     DEF Obtain, At, Goes, OnDisk, AppOK, Begun, AfterFiles, AtFile, disk, EngineStates,
         DiskOK
<1>6. QED  BY <1>1, <1>3, <1>4, <1>5
          DEF OnDisk, MarkerOK, FilesOK, AppOK, Stocked, bounds, FullyInstalled

LEMMA FillFileDisk ==
    ASSUME NEW e \in Engines, IInv, OnDisk(eng[e]), FillFile(e)
    PROVE  OnDisk(eng[e])'
<1> DEFINE r == eng[e]
<1>1. PICK s : s = eng'[e]  OBVIOUS
<1>2. /\ r \in EngineStates /\ RunOK(r) /\ OnDisk(r) /\ DiskOK
      /\ s = [r EXCEPT !.pc = "file", !.i = @ + 1]
  BY <1>1 DEF IInv, FillFile, At, Filled, File
<1>3. MarkerOK(s)'
  BY <1>2, Names
     DEF FillFile, At, Filled, File, OnDisk, MarkerOK, Quiet, Ends, FullyInstalled, Stocked,
         disk, bounds, EngineStates, DiskOK
<1>4. FilesOK(s)'
  <2>1. /\ r.pc = "fill" /\ s.pc = "file" /\ s.plan = r.plan /\ s.i = r.i + 1 /\ r.i \in Nat
        /\ s.next = r.next /\ File(e) = r.plan[r.i] /\ Len(r.plan) \in Nat
    BY <1>2, Names DEF FillFile, At, File, EngineStates
  <2>2. /\ r.plan[r.i] \in here
        /\ "owner" \in files[r.plan[r.i]] \/ r.plan[r.i] \in amiss
        /\ \A k \in 1..Len(r.plan) : k < r.i => Stocked(r.plan[k]) \/ r.plan[k] = r.plan[r.i]
    BY <1>2, <2>1 DEF OnDisk, FilesOK, Begun, AtFile, AtOwnFile
  <2>3. /\ files' = [files EXCEPT ![File(e)] = @ \cup {"body"}] /\ here' = here \cup {File(e)}
        /\ amiss' = amiss
    BY DEF FillFile, Filled, bounds
  <2>4. files \in [Folders -> SUBSET Files] /\ here \subseteq Folders /\ File(e) \in Folders
    BY <1>2, <2>1, <2>2 DEF DiskOK
  <2>5. \A d : Stocked(d) => Stocked(d)'
    BY <2>3, <2>4 DEF Stocked
  <2>6. \A d : d = File(e) => Stocked(d)'
    BY <2>1, <2>2, <2>3, <2>4 DEF Stocked
  <2>7. \A k \in 1..Len(s.plan) : k < s.i => Stocked(s.plan[k])'
    <3>1. SUFFICES ASSUME NEW k \in 1..Len(s.plan), k < s.i PROVE Stocked(s.plan[k])'
      OBVIOUS
    <3>2. k \in 1..Len(r.plan) /\ (k < r.i \/ k = r.i) /\ s.plan[k] = r.plan[k]
      BY <2>1, <3>1
    <3>3. Stocked(s.plan[k]) \/ s.plan[k] = File(e)
      BY <2>1, <2>2, <3>2
    <3>4. QED  BY <2>5, <2>6, <3>3
  <2>8. ~Early(s) /\ ~AtFile(s) /\ ~AtOwnFile(s)  BY <2>1 DEF Early, AtFile, AtOwnFile
  <2>9. QED  BY <2>1, <2>7, <2>8 DEF FilesOK
<1>5. AppOK(s)'
  BY <1>2, Names
     DEF FillFile, At, Filled, File, OnDisk, AppOK, Begun, AfterFiles, AtFile, disk,
         EngineStates, DiskOK
<1>6. QED  BY <1>1, <1>3, <1>4, <1>5
          DEF OnDisk, MarkerOK, FilesOK, AppOK, Stocked, bounds, FullyInstalled

LEMMA ProjectDisk ==
    ASSUME NEW e \in Engines, IInv, OnDisk(eng[e]), Project(e)
    PROVE  OnDisk(eng[e])'
<1> DEFINE r == eng[e]
<1>1. PICK s : s = eng'[e]  OBVIOUS
<1>2. /\ r \in EngineStates /\ RunOK(r) /\ OnDisk(r) /\ DiskOK
      /\ s = [r EXCEPT !.pc = "launch"]
  BY <1>1 DEF IInv, Project, At, Goes, Filled, MoreFiles
<1>3. MarkerOK(s)'
  BY <1>2, Names
     DEF Project, At, Goes, Filled, MoreFiles, OnDisk, MarkerOK, Quiet, Ends,
         FullyInstalled, Stocked, disk, bounds, EngineStates, DiskOK
<1>4. FilesOK(s)'
  BY <1>2, Names
     DEF Project, At, Goes, Filled, MoreFiles, OnDisk, FilesOK, Early, Begun, AfterFiles,
         AtFile, AtOwnFile, Stocked, bounds, disk, EngineStates, DiskOK
<1>5. AppOK(s)'
  BY <1>2, Names
     DEF Project, At, Goes, Filled, MoreFiles, OnDisk, AppOK, Begun, AfterFiles, AtFile,
         disk, EngineStates, DiskOK
<1>6. QED  BY <1>1, <1>3, <1>4, <1>5
          DEF OnDisk, MarkerOK, FilesOK, AppOK, Stocked, bounds, FullyInstalled

LEMMA LaunchDisk ==
    ASSUME NEW e \in Engines, IInv, OnDisk(eng[e]), Launch(e)
    PROVE  OnDisk(eng[e])'
<1> DEFINE r == eng[e]
<1>1. PICK s : s = eng'[e]  OBVIOUS
<1>2. /\ r \in EngineStates /\ RunOK(r) /\ OnDisk(r) /\ DiskOK
      /\ s = [r EXCEPT !.pc = "menus"]
  BY <1>1 DEF IInv, Launch, At, Goes, Puts
<1>3. MarkerOK(s)'
  BY <1>2, Names
     DEF Launch, At, Goes, Puts, OnDisk, MarkerOK, Quiet, Ends, FullyInstalled, Stocked,
         disk, bounds, EngineStates, DiskOK
<1>4. FilesOK(s)'
  BY <1>2, Names
     DEF Launch, At, Goes, Puts, OnDisk, FilesOK, Early, Begun, AfterFiles, AtFile,
         AtOwnFile, Stocked, bounds, disk, EngineStates, DiskOK
<1>5. AppOK(s)'
  BY <1>2, Names
     DEF Launch, At, Goes, Puts, OnDisk, AppOK, Begun, AfterFiles, AtFile, disk,
         EngineStates, DiskOK
<1>6. QED  BY <1>1, <1>3, <1>4, <1>5
          DEF OnDisk, MarkerOK, FilesOK, AppOK, Stocked, bounds, FullyInstalled

LEMMA NoteMenusDisk ==
    ASSUME NEW e \in Engines, IInv, OnDisk(eng[e]), NoteMenus(e)
    PROVE  OnDisk(eng[e])'
<1> DEFINE r == eng[e]
<1>1. PICK s : s = eng'[e]  OBVIOUS
<1>2. /\ r \in EngineStates /\ RunOK(r) /\ OnDisk(r) /\ DiskOK
      /\ s = [r EXCEPT !.created = Append(@, "menus"), !.pc = "manifest"]
  BY <1>1 DEF IInv, NoteMenus, At, Notes
<1>3. MarkerOK(s)'
  BY <1>2, Names
     DEF NoteMenus, At, Notes, OnDisk, MarkerOK, Quiet, Ends, FullyInstalled, Stocked, disk,
         bounds, EngineStates, DiskOK
<1>4. FilesOK(s)'
  BY <1>2, Names
     DEF NoteMenus, At, Notes, OnDisk, FilesOK, Early, Begun, AfterFiles, AtFile, AtOwnFile,
         Stocked, bounds, disk, EngineStates, DiskOK
<1>5. AppOK(s)'
  BY <1>2, Names
     DEF NoteMenus, At, Notes, OnDisk, AppOK, Begun, AfterFiles, AtFile, disk, EngineStates,
         DiskOK
<1>6. QED  BY <1>1, <1>3, <1>4, <1>5
          DEF OnDisk, MarkerOK, FilesOK, AppOK, Stocked, bounds, FullyInstalled

LEMMA ManifestDisk ==
    ASSUME NEW e \in Engines, IInv, OnDisk(eng[e]), Manifest(e)
    PROVE  OnDisk(eng[e])'
<1> DEFINE r == eng[e]
<1>1. PICK s : s = eng'[e]  OBVIOUS
<1>2. /\ r \in EngineStates /\ RunOK(r) /\ OnDisk(r) /\ DiskOK
      /\ s = [r EXCEPT !.pc = "marker"]
  BY <1>1 DEF IInv, Manifest, At, Goes, Puts
<1>3. MarkerOK(s)'
  BY <1>2, Names
     DEF Manifest, At, Goes, Puts, OnDisk, MarkerOK, Quiet, Ends, FullyInstalled, Stocked,
         disk, bounds, EngineStates, DiskOK
<1>4. FilesOK(s)'
  BY <1>2, Names
     DEF Manifest, At, Goes, Puts, OnDisk, FilesOK, Early, Begun, AfterFiles, AtFile,
         AtOwnFile, Stocked, bounds, disk, EngineStates, DiskOK
<1>5. AppOK(s)'
  BY <1>2, Names
     DEF Manifest, At, Goes, Puts, OnDisk, AppOK, Begun, AfterFiles, AtFile, disk,
         EngineStates, DiskOK
<1>6. QED  BY <1>1, <1>3, <1>4, <1>5
          DEF OnDisk, MarkerOK, FilesOK, AppOK, Stocked, bounds, FullyInstalled

LEMMA DoneDisk ==
    ASSUME NEW e \in Engines, IInv, OnDisk(eng[e]), Done(e)
    PROVE  OnDisk(eng[e])'
<1> DEFINE r == eng[e]
<1>1. PICK s : s = eng'[e]  OBVIOUS
<1>2. /\ r \in EngineStates /\ RunOK(r) /\ OnDisk(r) /\ DiskOK
      /\ s = [r EXCEPT !.pc = "done", !.noting = FALSE]
  BY <1>1 DEF IInv, Done, At
<1>3. MarkerOK(s)'
  BY <1>2, Names
     DEF Done, At, OnDisk, MarkerOK, Quiet, Ends, FullyInstalled, Stocked, disk, bounds,
         EngineStates, DiskOK
<1>4. FilesOK(s)'
  BY <1>2, Names
     DEF Done, At, OnDisk, FilesOK, Early, Begun, AfterFiles, AtFile, AtOwnFile, Stocked, bounds,
         disk, EngineStates, DiskOK
<1>5. AppOK(s)'
  BY <1>2, Names
     DEF Done, At, OnDisk, AppOK, Begun, AfterFiles, AtFile, disk, EngineStates, DiskOK
<1>6. QED  BY <1>1, <1>3, <1>4, <1>5
          DEF OnDisk, MarkerOK, FilesOK, AppOK, Stocked, bounds, FullyInstalled

LEMMA KillDisk ==
    ASSUME NEW e \in Engines, IInv, OnDisk(eng[e]), Kill(e)
    PROVE  OnDisk(eng[e])'
<1> DEFINE r == eng[e]
<1>1. PICK s : s = eng'[e]  OBVIOUS
<1>2. /\ r \in EngineStates /\ RunOK(r) /\ OnDisk(r) /\ DiskOK
      /\ s = [r EXCEPT !.pc = "killed"]
  BY <1>1 DEF IInv, Kill, Goes, Running
<1>3. MarkerOK(s)'
  BY <1>2, Names
     DEF Kill, Goes, Running, OnDisk, MarkerOK, Quiet, Ends, FullyInstalled, Stocked, disk,
         bounds, EngineStates, DiskOK
<1>4. FilesOK(s)'
  BY <1>2, Names
     DEF Kill, Goes, Running, OnDisk, FilesOK, Early, Begun, AfterFiles, AtFile, AtOwnFile,
         Stocked, bounds, disk, EngineStates, DiskOK
<1>5. AppOK(s)'
  BY <1>2, Names
     DEF Kill, Goes, Running, OnDisk, AppOK, Begun, AfterFiles, AtFile, disk, EngineStates,
         DiskOK
<1>6. QED  BY <1>1, <1>3, <1>4, <1>5
          DEF OnDisk, MarkerOK, FilesOK, AppOK, Stocked, bounds, FullyInstalled

LEMMA KillManifestDisk ==
    ASSUME NEW e \in Engines, IInv, OnDisk(eng[e]), KillManifest(e)
    PROVE  OnDisk(eng[e])'
<1> DEFINE r == eng[e]
<1>1. PICK s : s = eng'[e]  OBVIOUS
<1>2. /\ r \in EngineStates /\ RunOK(r) /\ OnDisk(r) /\ DiskOK
      /\ s = [r EXCEPT !.pc = "killed"]
  BY <1>1 DEF IInv, KillManifest, At, Goes, Puts
<1>3. MarkerOK(s)'
  BY <1>2, Names
     DEF KillManifest, At, Goes, Puts, OnDisk, MarkerOK, Quiet, Ends, FullyInstalled,
         Stocked, disk, bounds, EngineStates, DiskOK
<1>4. FilesOK(s)'
  BY <1>2, Names
     DEF KillManifest, At, Goes, Puts, OnDisk, FilesOK, Early, Begun, AfterFiles, AtFile,
         AtOwnFile, Stocked, bounds, disk, EngineStates, DiskOK
<1>5. AppOK(s)'
  BY <1>2, Names
     DEF KillManifest, At, Goes, Puts, OnDisk, AppOK, Begun, AfterFiles, AtFile, disk,
         EngineStates, DiskOK
<1>6. QED  BY <1>1, <1>3, <1>4, <1>5
          DEF OnDisk, MarkerOK, FilesOK, AppOK, Stocked, bounds, FullyInstalled

\* A run that fails.
LEMMA FailsDisk ==
    ASSUME NEW e \in Engines, NEW end \in {"failed", "blocked"}, IInv, OnDisk(eng[e]),
           FailsAs(e, end), UNCHANGED <<disk, starts, cuts, amiss>>
    PROVE  OnDisk(eng[e])'
<1> DEFINE r == eng[e]
<1>1. PICK s : s = eng'[e]  OBVIOUS
<1>2. /\ r \in EngineStates /\ RunOK(r) /\ OnDisk(r) /\ DiskOK
      /\ s = [r EXCEPT !.pc = IF r.noting THEN "rollback" ELSE end, !.end = end]
  BY <1>1 DEF IInv, FailsAs
<1>3. ~Begun(s) /\ ~Early(s) /\ s.pc # "rm" /\ ~AtOwnFile(s)
  BY <1>2 DEF Begun, Early, AtFile, AfterFiles, AtOwnFile, EngineStates
<1>4. MarkerOK(s)'
  <2>1. CASE r.noting
    BY <2>1 DEF FailsAs, MarkerOK, disk
  <2>2. CASE ~r.noting
    BY <1>2, <2>2 DEF FailsAs, OnDisk, MarkerOK, Quiet, Ends, FullyInstalled, Stocked, bounds, disk,
                      EngineStates
  <2>3. QED  BY <2>1, <2>2
<1>5. FilesOK(s)' /\ AppOK(s)'
  BY <1>3 DEF FilesOK, AppOK, Begun, AfterFiles, AtFile, AtOwnFile
<1>6. QED
  BY <1>1, <1>4, <1>5 DEF OnDisk, MarkerOK, FilesOK, AppOK, Stocked, bounds, FullyInstalled

LEMMA StepFailsDisk ==
    ASSUME NEW e \in Engines, IInv, OnDisk(eng[e]), StepFails(e)
    PROVE  OnDisk(eng[e])'
  BY FailsDisk DEF StepFails

LEMMA StartDisk ==
    ASSUME NEW e \in Engines, IInv, OnDisk(eng[e]), Start(e)
    PROVE  OnDisk(eng[e])'
<1>1. PICK s : s = eng'[e]  OBVIOUS
<1>2. s.pc \in {"remove", "check"} /\ s.i = 1
  BY <1>1 DEF Start, NotStarted, IInv
<1>3. FullyInstalled' = FullyInstalled /\ files' = files /\ undone' = undone /\ amiss' = amiss
  BY DEF Start, FullyInstalled, Stocked, bounds, disk
<1>4. "marker" \in files["app"] /\ ~undone /\ "marker" \notin amiss => FullyInstalled
  BY DEF OnDisk, MarkerOK
<1>5. MarkerOK(s)'
  BY <1>2, <1>3, <1>4 DEF MarkerOK, Quiet
<1>6. FilesOK(s)' /\ AppOK(s)'
  BY <1>2 DEF FilesOK, AppOK, Begun, AfterFiles, AtFile, AtOwnFile
<1>7. QED
  BY <1>1, <1>5, <1>6 DEF OnDisk, MarkerOK, FilesOK, AppOK, Stocked, bounds, FullyInstalled

LEMMA ExistingGoesDisk ==
    ASSUME NEW e \in Engines, IInv, OnDisk(eng[e]), NEW pc \in {"list", "remove"},
           Existing(e), Goes(e, pc), UNCHANGED undone, pc = "list" => "app" \notin here
    PROVE  OnDisk(eng[e])'
<1> DEFINE r == eng[e]
<1>1. PICK s : s = eng'[e]  OBVIOUS
<1>2. /\ r \in EngineStates /\ RunOK(r) /\ OnDisk(r) /\ DiskOK
      /\ s = [r EXCEPT !.pc = pc]
  BY <1>1 DEF IInv, Existing, At, Goes
<1>3. MarkerOK(s)'
  BY <1>2, Names
     DEF Existing, At, Goes, OnDisk, MarkerOK, Quiet, Ends, FullyInstalled, Stocked, disk,
         bounds, EngineStates, DiskOK
<1>4. FilesOK(s)'
  BY <1>2, Names
     DEF Existing, At, Goes, OnDisk, FilesOK, Early, Begun, AfterFiles, AtFile, AtOwnFile,
         Stocked, bounds, disk, EngineStates, DiskOK
<1>5. AppOK(s)'
  BY <1>2, Names
     DEF Existing, At, Goes, OnDisk, AppOK, Begun, AfterFiles, AtFile, disk, EngineStates,
         DiskOK
<1>6. QED  BY <1>1, <1>3, <1>4, <1>5
          DEF OnDisk, MarkerOK, FilesOK, AppOK, Stocked, bounds, FullyInstalled

LEMMA ExistingDisk ==
    ASSUME NEW e \in Engines, IInv, OnDisk(eng[e]), Existing(e)
    PROVE  OnDisk(eng[e])'
<1>1. CASE FailsAs(e, "blocked")  BY <1>1, FailsDisk DEF Existing
<1>2. CASE "app" \notin here /\ Goes(e, "list") /\ UNCHANGED undone
  BY <1>2, ExistingGoesDisk
<1>3. CASE Owned("app") /\ Goes(e, "remove") /\ UNCHANGED undone
  BY <1>3, ExistingGoesDisk
<1>4. QED  BY <1>1, <1>2, <1>3 DEF Existing

\* Removing a folder that the manifest lists, or the app's.
LEMMA RemovalDisk ==
    ASSUME NEW e \in Engines, IInv, OnDisk(eng[e]), eng[e].pc = "dirs",
           NEW s \in EngineStates, s = eng'[e], s.i = eng[e].i,
           s.pc \in {"dirs", "rmdir"} \/ (s.pc = "rm" /\ s.next \in {"dirs", "rmdir"}),
           UNCHANGED <<disk, bounds>>
    PROVE  OnDisk(eng[e])'
<1>1. MarkerOK(s)'
  BY DEF OnDisk, MarkerOK, Quiet, Ends, disk, bounds
<1>2. FilesOK(s)' /\ AppOK(s)'
  BY DEF OnDisk, FilesOK, AppOK, Early, Begun, AfterFiles, AtFile, AtOwnFile
<1>3. QED
  BY <1>1, <1>2 DEF OnDisk, MarkerOK, FilesOK, AppOK, Stocked, bounds, FullyInstalled

LEMMA RemoveDirDisk ==
    ASSUME NEW e \in Engines, IInv, IInv', OnDisk(eng[e]), RemoveDir(e)
    PROVE  OnDisk(eng[e])'
<1>1. PICK s \in EngineStates : s = eng'[e]  BY DEF IInv
<1>2. eng[e] \in EngineStates  BY DEF IInv
<1>3. PICK d \in eng[e].items \ {"menus"} :
         LET rest == eng[e].items \ {d}
         IN IF Owned(d)
            THEN eng' = [eng EXCEPT ![e].pc = "rm", ![e].doomed = d,
                                    ![e].next = "dirs", ![e].items = rest]
            ELSE eng' = [eng EXCEPT ![e].items = rest, ![e].bad = @ \/ d \in here]
  BY DEF RemoveDir
<1>4. s.i = eng[e].i /\ (s.pc = "dirs" \/ (s.pc = "rm" /\ s.next = "dirs"))
  <2>1. CASE Owned(d)  BY <1>1, <1>2, <1>3, <2>1 DEF IInv, EngineStates
  <2>2. CASE ~Owned(d)
    BY <1>1, <1>2, <1>3, <2>2 DEF IInv, EngineStates, RemoveDir, At
  <2>3. QED  BY <2>1, <2>2
<1>5. QED  BY <1>1, <1>4, RemovalDisk DEF RemoveDir, At

LEMMA RemoveAppDirDisk ==
    ASSUME NEW e \in Engines, IInv, IInv', OnDisk(eng[e]), RemoveAppDir(e)
    PROVE  OnDisk(eng[e])'
<1>1. PICK s \in EngineStates : s = eng'[e]  BY DEF IInv
<1>2. eng[e] \in EngineStates  BY DEF IInv
<1>3. s.i = eng[e].i /\ (s.pc = "rmdir" \/ (s.pc = "rm" /\ s.next = "rmdir"))
  BY <1>1, <1>2 DEF RemoveAppDir, Removing, IInv, EngineStates
<1>4. QED  BY <1>1, <1>3, RemovalDisk DEF RemoveAppDir, At

LEMMA RemoveEndsGoesDisk ==
    ASSUME NEW e \in Engines, IInv, OnDisk(eng[e]), NEW pc \in {"refused", "removed", "list"},
           RemoveEnds(e), Goes(e, pc), UNCHANGED undone
    PROVE  OnDisk(eng[e])'
<1> DEFINE r == eng[e]
<1>1. PICK s : s = eng'[e]  OBVIOUS
<1>2. /\ r \in EngineStates /\ RunOK(r) /\ OnDisk(r) /\ DiskOK
      /\ s = [r EXCEPT !.pc = pc]
  BY <1>1 DEF IInv, RemoveEnds, At, Goes
<1>3. MarkerOK(s)'
  BY <1>2, Names
     DEF RemoveEnds, At, Goes, OnDisk, MarkerOK, Quiet, Ends, FullyInstalled, Stocked, disk,
         bounds, EngineStates, DiskOK
<1>4. FilesOK(s)'
  BY <1>2, Names
     DEF RemoveEnds, At, Goes, OnDisk, FilesOK, Early, Begun, AfterFiles, AtFile, AtOwnFile,
         Stocked, bounds, disk, EngineStates, DiskOK
<1>5. AppOK(s)'
  BY <1>2, Names
     DEF RemoveEnds, At, Goes, OnDisk, AppOK, Begun, AfterFiles, AtFile, disk, EngineStates,
         DiskOK
<1>6. QED  BY <1>1, <1>3, <1>4, <1>5
          DEF OnDisk, MarkerOK, FilesOK, AppOK, Stocked, bounds, FullyInstalled

LEMMA RemoveEndsDisk ==
    ASSUME NEW e \in Engines, IInv, OnDisk(eng[e]), RemoveEnds(e)
    PROVE  OnDisk(eng[e])'
<1>1. CASE FailsAs(e, "failed")  BY <1>1, FailsDisk DEF RemoveEnds
<1>2. ASSUME NEW pc \in {"refused", "removed", "list"}, Goes(e, pc), UNCHANGED undone
      PROVE  OnDisk(eng[e])'
  BY <1>2, RemoveEndsGoesDisk
<1>3. QED  BY <1>1, <1>2 DEF RemoveEnds

LEMMA RmFileDisk ==
    ASSUME NEW e \in Engines, IInv, OnDisk(eng[e]), RmFile(e)
    PROVE  OnDisk(eng[e])'
<1> DEFINE r == eng[e]
<1>1. PICK s : s = eng'[e]  OBVIOUS
<1>2. /\ r \in EngineStates /\ RunOK(r) /\ OnDisk(r) /\ DiskOK
      /\ s = r
  BY <1>1 DEF IInv, RmFile, At
<1>3. MarkerOK(s)'
  BY <1>2, Names
     DEF RmFile, At, OnDisk, MarkerOK, Quiet, Ends, FullyInstalled, Stocked, disk, bounds,
         EngineStates, DiskOK
<1>4. FilesOK(s)'
  BY <1>2, Names
     DEF RmFile, At, OnDisk, FilesOK, Early, Begun, AfterFiles, AtFile, AtOwnFile, Stocked, bounds,
         disk, EngineStates, DiskOK
<1>5. AppOK(s)'
  <2>1. r.next = "mkfile" => r.doomed # "app"
    BY <1>2, Names, InstallAssumption
       DEF RmFile, At, OnDisk, FilesOK, RunOK, AtFile, EngineStates
  <2>2. Begun(r) => files'["app"] = files["app"]
    BY <1>2, <2>1, Names DEF RmFile, At, Begun, AtFile, AfterFiles, RunOK, DiskOK
  <2>3. ~AfterFiles(r) /\ s = r
    BY <1>2 DEF RmFile, At, AfterFiles
  <2>4. QED
    BY <1>2, <2>2, <2>3 DEF OnDisk, AppOK, AfterFiles
<1>6. QED  BY <1>1, <1>3, <1>4, <1>5
          DEF OnDisk, MarkerOK, FilesOK, AppOK, Stocked, bounds, FullyInstalled

LEMMA RmFolderDisk ==
    ASSUME NEW e \in Engines, IInv, OnDisk(eng[e]), RmFolder(e)
    PROVE  OnDisk(eng[e])'
<1> DEFINE r == eng[e]
<1>1. PICK s : s = eng'[e]  OBVIOUS
<1>2. /\ r \in EngineStates /\ RunOK(r) /\ OnDisk(r) /\ DiskOK
      /\ s = [r EXCEPT !.pc = r.next, !.doomed = "none"]
  BY <1>1 DEF IInv, RmFolder, At
<1>3. MarkerOK(s)'
  BY <1>2, Names
     DEF RmFolder, Works, At, OnDisk, MarkerOK, Quiet, Ends, FullyInstalled, Stocked, disk, bounds,
         EngineStates, DiskOK
<1>4. FilesOK(s)'
  BY <1>2, Names
     DEF RmFolder, Works, At, OnDisk, FilesOK, Early, Begun, AfterFiles, AtFile, AtOwnFile,
         Stocked, bounds, disk, EngineStates, DiskOK
<1>5. AppOK(s)'
  BY <1>2, Names
     DEF RmFolder, Works, At, OnDisk, AppOK, Begun, AfterFiles, AtFile, disk, EngineStates, DiskOK
<1>6. QED  BY <1>1, <1>3, <1>4, <1>5
          DEF OnDisk, MarkerOK, FilesOK, AppOK, Stocked, bounds, FullyInstalled

LEMMA RmFailsDisk ==
    ASSUME NEW e \in Engines, IInv, OnDisk(eng[e]), RmFails(e)
    PROVE  OnDisk(eng[e])'
<1> DEFINE r == eng[e]
<1>1. PICK s : s = eng'[e]  OBVIOUS
<1>2. /\ r \in EngineStates /\ RunOK(r) /\ OnDisk(r) /\ DiskOK
      /\ s = [r EXCEPT !.pc = r.next, !.doomed = "none"]
  BY <1>1 DEF IInv, RmFails, At
<1>3. MarkerOK(s)'
  BY <1>2, Names
     DEF RmFails, Slips, At, OnDisk, MarkerOK, Quiet, Ends, FullyInstalled, Stocked, disk, bounds,
         EngineStates, DiskOK
<1>4. FilesOK(s)'
  BY <1>2, Names
     DEF RmFails, Slips, At, OnDisk, FilesOK, Early, Begun, AfterFiles, AtFile, AtOwnFile,
         Stocked, bounds, disk, EngineStates, DiskOK
<1>5. AppOK(s)'
  BY <1>2, Names
     DEF RmFails, Slips, At, OnDisk, AppOK, Begun, AfterFiles, AtFile, disk, EngineStates, DiskOK
<1>6. QED  BY <1>1, <1>3, <1>4, <1>5
          DEF OnDisk, MarkerOK, FilesOK, AppOK, Stocked, bounds, FullyInstalled

LEMMA ClearGoesDisk ==
    ASSUME NEW e \in Engines, IInv, OnDisk(eng[e]), ClearFile(e),
           File(e) \notin here, Goes(e, "mkfile"), UNCHANGED undone
    PROVE  OnDisk(eng[e])'
<1> DEFINE r == eng[e]
<1>1. PICK s : s = eng'[e]  OBVIOUS
<1>2. /\ r \in EngineStates /\ RunOK(r) /\ OnDisk(r) /\ DiskOK
      /\ s = [r EXCEPT !.pc = "mkfile"]
  BY <1>1 DEF IInv, ClearFile, At, Goes
<1>3. MarkerOK(s)'
  BY <1>2, Names
     DEF ClearFile, At, Goes, OnDisk, MarkerOK, Quiet, Ends, FullyInstalled, Stocked, disk,
         bounds, EngineStates, DiskOK
<1>4. FilesOK(s)'
  BY <1>2, Names
     DEF ClearFile, At, Goes, OnDisk, FilesOK, Early, Begun, AfterFiles, AtFile, AtOwnFile,
         Stocked, bounds, disk, EngineStates, DiskOK
<1>5. AppOK(s)'
  BY <1>2, Names
     DEF ClearFile, At, Goes, OnDisk, AppOK, Begun, AfterFiles, AtFile, disk, EngineStates,
         DiskOK
<1>6. QED  BY <1>1, <1>3, <1>4, <1>5
          DEF OnDisk, MarkerOK, FilesOK, AppOK, Stocked, bounds, FullyInstalled

LEMMA ClearRemovesDisk ==
    ASSUME NEW e \in Engines, IInv, OnDisk(eng[e]), ClearFile(e),
           Removing(e, File(e), "mkfile"), UNCHANGED undone
    PROVE  OnDisk(eng[e])'
<1> DEFINE r == eng[e]
<1>1. PICK s : s = eng'[e]  OBVIOUS
<1>2. /\ r \in EngineStates /\ RunOK(r) /\ OnDisk(r) /\ DiskOK
      /\ s = [r EXCEPT !.pc = "rm", !.doomed = File(e), !.next = "mkfile"]
  BY <1>1 DEF IInv, ClearFile, At, Removing, File
<1>3. MarkerOK(s)'
  BY <1>2, Names
     DEF ClearFile, At, Removing, File, OnDisk, MarkerOK, Quiet, Ends, FullyInstalled,
         Stocked, disk, bounds, EngineStates, DiskOK
<1>4. FilesOK(s)'
  BY <1>2, Names
     DEF ClearFile, At, Removing, File, OnDisk, FilesOK, Early, Begun, AfterFiles, AtFile,
         AtOwnFile, Stocked, bounds, disk, EngineStates, DiskOK
<1>5. AppOK(s)'
  BY <1>2, Names
     DEF ClearFile, At, Removing, File, OnDisk, AppOK, Begun, AfterFiles, AtFile, disk,
         EngineStates, DiskOK
<1>6. QED  BY <1>1, <1>3, <1>4, <1>5
          DEF OnDisk, MarkerOK, FilesOK, AppOK, Stocked, bounds, FullyInstalled

LEMMA ClearFileDisk ==
    ASSUME NEW e \in Engines, IInv, OnDisk(eng[e]), ClearFile(e)
    PROVE  OnDisk(eng[e])'
<1>1. CASE FailsAs(e, "blocked")  BY <1>1, FailsDisk DEF ClearFile
<1>2. CASE File(e) \notin here /\ Goes(e, "mkfile") /\ UNCHANGED undone
  BY <1>2, ClearGoesDisk
<1>3. CASE Owned(File(e)) /\ Removing(e, File(e), "mkfile") /\ UNCHANGED undone
  BY <1>3, ClearRemovesDisk
<1>4. QED  BY <1>1, <1>2, <1>3 DEF ClearFile

LEMMA MenusMadeDisk ==
    ASSUME NEW e \in Engines, IInv, OnDisk(eng[e]), Menus(e), ~(Mac /\ menus)
    PROVE  OnDisk(eng[e])'
<1> DEFINE r == eng[e]
<1>1. PICK s : s = eng'[e]  OBVIOUS
<1>2. /\ r \in EngineStates /\ RunOK(r) /\ OnDisk(r) /\ DiskOK
      /\ s = [r EXCEPT !.made = @ \cup {"menus"}, !.pc = "notemenus"]
  BY <1>1 DEF IInv, Menus, At, Makes
<1>3. MarkerOK(s)'
  BY <1>2, Names
     DEF Menus, Works, At, Makes, OnDisk, MarkerOK, Quiet, Ends, FullyInstalled, Stocked, disk,
         bounds, EngineStates, DiskOK
<1>4. FilesOK(s)'
  BY <1>2, Names
     DEF Menus, Works, At, Makes, OnDisk, FilesOK, Early, Begun, AfterFiles, AtFile, AtOwnFile,
         Stocked, bounds, disk, EngineStates, DiskOK
<1>5. AppOK(s)'
  BY <1>2, Names
     DEF Menus, Works, At, Makes, OnDisk, AppOK, Begun, AfterFiles, AtFile, disk, EngineStates,
         DiskOK
<1>6. QED  BY <1>1, <1>3, <1>4, <1>5
          DEF OnDisk, MarkerOK, FilesOK, AppOK, Stocked, bounds, FullyInstalled

LEMMA MenusDisk ==
    ASSUME NEW e \in Engines, IInv, OnDisk(eng[e]), Menus(e)
    PROVE  OnDisk(eng[e])'
<1>1. CASE Mac /\ menus
  <2>1. FailsAs(e, "blocked") /\ UNCHANGED <<disk, starts, cuts, amiss>>
    BY <1>1 DEF Menus, disk
  <2>2. QED  BY <2>1, FailsDisk
<1>2. CASE ~(Mac /\ menus)  BY <1>2, MenusMadeDisk
<1>3. QED  BY <1>1, <1>2

LEMMA RollbackDisk ==
    ASSUME NEW e \in Engines, IInv, IInv', OnDisk(eng[e]), Rollback(e)
    PROVE  OnDisk(eng[e])'
<1> DEFINE r == eng[e]
<1>1. PICK s \in EngineStates : s = eng'[e]  BY DEF IInv
<1>2. r \in EngineStates /\ RunOK(r) /\ OnDisk(r) /\ r.pc = "rollback"
  BY DEF IInv, Rollback, At
<1>3. s.pc = "rollback" \/ s.pc = r.end \/ (s.pc = "rm" /\ s.next = "rollback")
  BY <1>1, <1>2 DEF Rollback, IInv, EngineStates
<1>4. r.end \in {"failed", "blocked"}
  BY <1>2 DEF RunOK, EngineStates
<1>5. MarkerOK(s)'
  BY <1>2 DEF Rollback, Works, Slips, OnDisk, MarkerOK, Quiet, Ends, bounds
<1>6. FilesOK(s)' /\ AppOK(s)'
  BY <1>3, <1>4 DEF FilesOK, AppOK, Early, Begun, AfterFiles, AtFile, AtOwnFile
<1>7. QED
  BY <1>1, <1>5, <1>6 DEF OnDisk, MarkerOK, FilesOK, AppOK, Stocked, bounds, FullyInstalled

LEMMA InterruptDisk ==
    ASSUME NEW e \in Engines, IInv, OnDisk(eng[e]), Interrupt(e)
    PROVE  OnDisk(eng[e])'
<1> DEFINE r == eng[e]
<1>1. PICK s : s = eng'[e]  OBVIOUS
<1>2. /\ r \in EngineStates /\ RunOK(r) /\ OnDisk(r)
      /\ s = [r EXCEPT !.pc = IF r.noting THEN "rollback" ELSE "failed",
                       !.end = "failed", !.doomed = "none", !.gap = Gap(e)]
  BY <1>1 DEF IInv, Interrupt
<1>3. ~Begun(s) /\ ~Early(s) /\ s.pc # "rm" /\ ~AtOwnFile(s)
  BY <1>2 DEF Begun, Early, AtFile, AfterFiles, AtOwnFile, EngineStates
<1>4. MarkerOK(s)'
  <2>1. CASE r.noting
    BY <2>1 DEF Interrupt, MarkerOK, disk
  <2>2. CASE ~r.noting
    BY <1>2, <2>2 DEF Interrupt, OnDisk, MarkerOK, Quiet, Ends, FullyInstalled, Stocked, bounds,
                      disk, EngineStates
  <2>3. QED  BY <2>1, <2>2
<1>5. FilesOK(s)' /\ AppOK(s)'
  BY <1>3 DEF FilesOK, AppOK, Begun, AfterFiles, AtFile, AtOwnFile
<1>6. QED
  BY <1>1, <1>4, <1>5 DEF OnDisk, MarkerOK, FilesOK, AppOK, Stocked, bounds, FullyInstalled

(* The theorem *)

LEMMA OneInit ==
    ASSUME NEW e \in Engines, Init
    PROVE  OnDisk(eng[e])
<1>1. eng[e].pc = "idle"  BY DEF Init, NotStarted
<1>2. files["app"] \in {{"theirs"}, {}}  BY Names DEF Init
<1>3. MarkerOK(eng[e])  BY <1>2 DEF MarkerOK
<1>4. FilesOK(eng[e]) /\ AppOK(eng[e])
  BY <1>1 DEF FilesOK, AppOK, Early, Begun, AfterFiles, AtFile, AtOwnFile
<1>5. QED  BY <1>3, <1>4 DEF OnDisk

LEMMA OneNext ==
    ASSUME NEW e, Engines = {e}, IInv, IInv', OnDisk(eng[e]), [Next]_vars
    PROVE  OnDisk(eng[e])'
<1>1. CASE UNCHANGED vars
  BY <1>1 DEF vars, disk, bounds, OnDisk, MarkerOK, FilesOK, AppOK, Stocked, FullyInstalled
<1>2. CASE Start(e) \/ Check(e) \/ Prerequisites(e) \/ Existing(e)
  BY <1>2, StartDisk, CheckDisk, PrerequisitesDisk, ExistingDisk
<1>3. CASE Removal(e)
  BY <1>3, RemoveMarkerDisk, RemoveMenusDisk, RemoveDirDisk, RemoveAppDirDisk,
     RemoveMenusFolderDisk, RemoveEndsDisk, RmFileDisk, RmFolderDisk, RmFailsDisk DEF Removal
<1>4. CASE Installing(e)
  BY <1>4, StartListDisk, MakeAppDisk, NoteAppDisk, OwnAppDisk, ClearFileDisk, MakeFileDisk,
     NoteFileDisk, OwnFileDisk, ObtainDisk, FillFileDisk, ProjectDisk, LaunchDisk, MenusDisk,
     NoteMenusDisk, ManifestDisk, MarkerDisk, DoneDisk DEF Installing
<1>5. CASE StepFails(e) \/ Rollback(e) \/ Interrupt(e) \/ Kill(e) \/ KillManifest(e)
  BY <1>5, StepFailsDisk, RollbackDisk, InterruptDisk, KillDisk, KillManifestDisk
<1>6. QED  BY <1>1, <1>2, <1>3, <1>4, <1>5 DEF Next

\* When at most one run is at work at a time, an app that counts as installed
\* is complete: its folder and every folder its manifest lists are there, owned
\* and filled, whatever failed, was interrupted or was killed before; but for a
\* finished install that a signal rolled back or whose marker was not removed.
THEOREM MarkerIsHonest ==
    ASSUME NEW e, Engines = {e}
    PROVE  Spec => []InstalledIsComplete
<1>1. e \in Engines  OBVIOUS
<1>2. Init => OnDisk(eng[e])
  BY <1>1, OneInit
<1>3. IInv /\ IInv' /\ OnDisk(eng[e]) /\ [Next]_vars => OnDisk(eng[e])'
  BY OneNext
<1>4. OnDisk(eng[e]) => InstalledIsComplete
  BY
     DEF OnDisk, MarkerOK, FullyInstalled, Stocked, InstalledIsComplete, IsInstalled,
         Complete
<1>5. QED  BY <1>2, <1>3, <1>4, Invariance, PTL DEF Spec
----------------------------------------------------------------------------
(* What a failed run takes back *)

Present(x) == IF x = "menus" THEN menus ELSE x \in here

\* What is there, and no removal was refused on.
Kept(x) == Present(x) /\ x \notin amiss

\* What a run has on its list, has made and not yet listed, and is removing.
Listed(s) == {s.created[k] : k \in 1..Len(s.created)}
Unlisted(s) == CASE s.pc = "note" -> {"app"}
                 [] s.pc = "notefile" -> {s.plan[s.i]}
                 [] s.pc = "notemenus" -> {"menus"}
                 [] OTHER -> {}
Rolling(s) == IF s.pc = "rm" /\ s.next = "rollback" THEN {s.doomed} ELSE {}

\* The states of a run that has a list.
Listing(s) == \/ s.pc \in {"mkdir", "note", "own", "file", "mkfile", "notefile", "ownfile", "fetch", "fill",
                           "launch", "menus", "notemenus", "manifest", "marker", "last", "rollback"}
              \/ s.pc = "rm" /\ s.next \in {"mkfile", "rollback"}
\* Those in which it may write into the app's folder, or into a file's.
FillsApp(s) == s.pc \in {"own", "file"} \/ AtFile(s)
FillsFile(s) == s.pc \in {"ownfile", "fetch", "fill"}

\* Whatever a run made and is still there will be taken back, or tried to be.
Tracked(s) ==
    \A x \in s.made : Kept(x) => x \in Listed(s) \cup s.gap \cup Unlisted(s) \cup Rolling(s)

Left(s) ==
    /\ Listing(s) => s.noting
    /\ s.pc \notin Ends /\ ~s.noting => s.made = {}
    /\ s.end = "none" => s.gap = {}
    /\ s.pc # "killed" => Tracked(s)
    /\ s.pc \in {"failed", "blocked"} => \A x \in s.made \ s.gap : ~Kept(x)
    /\ FillsApp(s) => "app" \in Listed(s)
    /\ FillsFile(s) => s.plan[s.i] \in Listed(s)

----------------------------------------------------------------------------
(* Lemmas the steps share *)

LEMMA LeftOf == ASSUME NEW e \in Engines, NEW s, s = eng'[e], Left(s)'  PROVE Left(eng[e])'
  BY DEF Left, Tracked, Kept, Present, Listing, FillsApp, FillsFile, Listed, Unlisted, Rolling, AtFile

LEMMA Appended ==
    ASSUME NEW r \in EngineStates, NEW x, NEW s, s.created = Append(r.created, x)
    PROVE  Listed(s) = Listed(r) \cup {x}
<1>1. r.created \in Seq(Things) /\ Len(r.created) \in Nat  BY DEF EngineStates
<1>2. /\ Len(s.created) = Len(r.created) + 1
      /\ \A k \in 1..Len(s.created) : s.created[k] = IF k <= Len(r.created) THEN r.created[k] ELSE x
  BY <1>1
<1>3. Listed(s) \subseteq Listed(r) \cup {x}  BY <1>1, <1>2 DEF Listed
<1>4. Listed(r) \subseteq Listed(s)  BY <1>1, <1>2 DEF Listed
<1>5. x \in Listed(s)
  <2>1. s.created[Len(r.created) + 1] = x  BY <1>1, <1>2
  <2>2. QED  BY <1>1, <1>2, <2>1 DEF Listed
<1>6. QED  BY <1>3, <1>4, <1>5

LEMMA Shortened ==
    ASSUME NEW r \in EngineStates, r.created # <<>>, NEW s, s.created = Front(r.created)
    PROVE  Listed(r) \subseteq Listed(s) \cup {Last(r.created)}
<1>1. r.created \in Seq(Things) /\ Len(r.created) \in Nat /\ Len(r.created) >= 1  BY DEF EngineStates
<1>2. /\ Len(s.created) = Len(r.created) - 1
      /\ \A k \in 1..(Len(r.created) - 1) : s.created[k] = r.created[k]
  BY <1>1 DEF Front
<1>3. QED  BY <1>1, <1>2 DEF Listed, Last

\* A step that makes nothing and puts nothing on the list.
LEMMA Moves ==
    ASSUME NEW r \in EngineStates, NEW s \in EngineStates, Left(r), r.pc \notin Ends,
           s.made = r.made, s.created = r.created, s.gap = r.gap, s.end = r.end,
           s.noting = r.noting, s.plan = r.plan, s.i = r.i,
           \A x : Kept(x)' => Kept(x),
           Unlisted(r) = {}, Rolling(r) = {}, s.pc \notin {"failed", "blocked"},
           Listing(s) => Listing(r),
           FillsApp(s) => FillsApp(r), FillsFile(s) => FillsFile(r) \/ s.plan[s.i] \in Listed(r)
    PROVE  Left(s)'
<1>1. Listed(s) = Listed(r)  BY DEF Listed
<1>2. \A x \in s.made : Kept(x)' => x \in Listed(r) \cup r.gap
  BY DEF Left, Tracked, Ends
<1>3. Tracked(s)'  BY <1>1, <1>2 DEF Tracked, Kept, Present
<1>4. s.pc \notin Ends /\ ~s.noting => s.made = {}  BY DEF Left
<1>5. QED  BY <1>1, <1>3, <1>4 DEF Left

\* A failure, where nothing is made that is not listed.
LEMMA FailsLeft ==
    ASSUME NEW e \in Engines, IInv, IInv', Left(eng[e]), NEW end \in {"failed", "blocked"}, FailsAs(e, end),
           eng[e].pc \notin Ends \cup {"note", "notefile", "notemenus", "rm"}, UNCHANGED <<here, menus, amiss>>
    PROVE  Left(eng[e])'
<1> DEFINE r == eng[e]
<1>1. PICK s \in EngineStates : s = eng'[e]  BY DEF IInv
<1>2. r \in EngineStates /\ s = [r EXCEPT !.pc = IF r.noting THEN "rollback" ELSE end, !.end = end]
  BY <1>1 DEF IInv, FailsAs
<1>3. \A x \in s.made : Kept(x)' => x \in Listed(s) \cup s.gap
  BY <1>2 DEF Left, Tracked, Kept, Present, Listed, Unlisted, Rolling, EngineStates, Ends
<1>4. CASE r.noting
  <2>1. s.pc = "rollback" /\ s.noting /\ s.end # "none"  BY <1>2, <1>4 DEF EngineStates
  <2>2. Left(s)'
    BY <1>3, <2>1 DEF Left, Tracked, Kept, Present, Listing, FillsApp, FillsFile, AtFile, Ends
  <2>3. QED  BY <1>1, <2>2, LeftOf
<1>5. CASE ~r.noting
  <2>1. s.pc = end /\ s.made = {} /\ s.end # "none"  BY <1>2, <1>5 DEF Left, EngineStates
  <2>2. Left(s)'
    BY <2>1 DEF Left, Tracked, Listing, FillsApp, FillsFile, AtFile, Ends
  <2>3. QED  BY <1>1, <2>2, LeftOf
<1>6. QED  BY <1>4, <1>5

----------------------------------------------------------------------------
(* The run up to its list *)

LEMMA StartLeft == ASSUME NEW e \in Engines, IInv, Start(e)  PROVE Left(eng[e])'
<1>1. PICK plan, cmd : eng'[e] = [NotStarted EXCEPT !.pc = IF cmd = "uninstall" THEN "remove" ELSE "check",
                                                     !.cmd = cmd, !.plan = plan]
  BY DEF Start, IInv
<1>2. PICK s : s = eng'[e]  OBVIOUS
<1>3. /\ s.pc \in {"check", "remove"} /\ s.made = {} /\ s.gap = {}
  BY <1>1, <1>2 DEF NotStarted
<1>4. Left(s)'  BY <1>3 DEF Left, Tracked, Listing, FillsApp, FillsFile, AtFile, Ends
<1>5. QED  BY <1>2, <1>4, LeftOf

LEMMA EarlyLeft ==
    ASSUME NEW e \in Engines, IInv, IInv', Left(eng[e]),
           Check(e) \/ Prerequisites(e) \/ RemoveMarker(e) \/ RemoveMenus(e) \/ RemoveDir(e) \/ RemoveAppDir(e)
           \/ RemoveMenusFolder(e) \/ RmFile(e)
    PROVE  Left(eng[e])'
<1> DEFINE r == eng[e]
<1>1. PICK s \in EngineStates : s = eng'[e]  BY DEF IInv
<1>2. r \in EngineStates /\ eng \in [Engines -> EngineStates]  BY DEF IInv
<1>3. CASE RmFile(e)
  <2>1. s = r /\ UNCHANGED <<here, menus, amiss>>  BY <1>1, <1>3 DEF RmFile, bounds
  <2>2. Left(s)'
    BY <2>1 DEF Left, Tracked, Kept, Present
  <2>3. QED  BY <1>1, <2>2, LeftOf
<1>4. ASSUME \/ Check(e) \/ Prerequisites(e) \/ RemoveMarker(e) \/ RemoveMenus(e) \/ RemoveDir(e)
             \/ RemoveAppDir(e) \/ RemoveMenusFolder(e)
      PROVE  Left(eng[e])'
  <2>1. /\ s.made = r.made /\ s.created = r.created /\ s.gap = r.gap /\ s.end = r.end
        /\ s.noting = r.noting /\ s.plan = r.plan /\ s.i = r.i
        /\ r.pc \in {"check", "needs", "remove", "unlink", "dirs", "rmdir"}
        /\ \/ s.pc \in {"started", "needs", "existing", "unlink", "dirs", "rmdir", "gone"}
           \/ s.pc = "rm" /\ s.next \in {"dirs", "rmdir"}
    <3>1. CASE Check(e) \/ Prerequisites(e)
      BY <1>1, <1>2, <3>1 DEF Check, Prerequisites, At, Goes, EngineStates
    <3>2. CASE RemoveMarker(e) \/ RemoveMenus(e) \/ RemoveMenusFolder(e)
      BY <1>1, <1>2, <3>2 DEF RemoveMarker, RemoveMenus, RemoveMenusFolder, At, EngineStates
    <3>3. CASE RemoveDir(e)
      <4>1. PICK d \in r.items \ {"menus"} :
               LET rest == r.items \ {d}
               IN \/ eng' = [eng EXCEPT ![e].pc = "rm", ![e].doomed = d, ![e].next = "dirs", ![e].items = rest]
                  \/ eng' = [eng EXCEPT ![e].items = rest, ![e].bad = @ \/ d \in here]
        BY <3>3 DEF RemoveDir
      <4>2. r.pc = "dirs"  BY <3>3 DEF RemoveDir, At
      <4>3. PICK rest : rest = r.items \ {d}  OBVIOUS
      <4>4. PICK bad : bad = (r.bad \/ d \in here)  OBVIOUS
      <4>5. \/ s = [r EXCEPT !.pc = "rm", !.doomed = d, !.next = "dirs", !.items = rest]
            \/ s = [r EXCEPT !.items = rest, !.bad = bad]
        BY <1>1, <1>2, <4>1, <4>3, <4>4
      <4>6. CASE s = [r EXCEPT !.pc = "rm", !.doomed = d, !.next = "dirs", !.items = rest]
        BY <1>2, <4>2, <4>6 DEF EngineStates
      <4>7. CASE s = [r EXCEPT !.items = rest, !.bad = bad]
        BY <1>2, <4>2, <4>7 DEF EngineStates
      <4>8. QED  BY <4>5, <4>6, <4>7
    <3>4. CASE RemoveAppDir(e)
      <4>1. \/ s = [r EXCEPT !.pc = "rm", !.doomed = "app", !.next = "rmdir"]
            \/ \E bad : s = [r EXCEPT !.pc = "rmdir", !.bad = bad]
        BY <1>1, <1>2, <3>4 DEF RemoveAppDir, Removing
      <4>2. r.pc = "dirs"  BY <3>4 DEF RemoveAppDir, At
      <4>3. CASE s = [r EXCEPT !.pc = "rm", !.doomed = "app", !.next = "rmdir"]
        BY <1>2, <4>2, <4>3 DEF EngineStates
      <4>4. CASE \E bad : s = [r EXCEPT !.pc = "rmdir", !.bad = bad]
        BY <1>2, <4>2, <4>4 DEF EngineStates
      <4>5. QED  BY <4>1, <4>3, <4>4
    <3>5. QED  BY <1>4, <3>1, <3>2, <3>3, <3>4
  <2>2. \A x : Kept(x)' => Kept(x)
    <3>1. CASE RemoveMenus(e) \/ RemoveMenusFolder(e)
      BY <3>1 DEF RemoveMenus, RemoveMenusFolder, Unlinks, Works, Slips, bounds, Kept, Present
    <3>2. CASE RemoveMarker(e)
      BY <3>2, Names DEF RemoveMarker, Works, Slips, Kept, Present, IInv, DiskOK
    <3>3. CASE RemoveDir(e)  BY <3>3 DEF RemoveDir, disk, bounds, Kept, Present
    <3>4. CASE Check(e) \/ Prerequisites(e) \/ RemoveAppDir(e)
      BY <3>4 DEF Check, Prerequisites, RemoveAppDir, disk, bounds, Kept, Present
    <3>5. QED  BY <1>4, <3>1, <3>2, <3>3, <3>4
  <2>3. Unlisted(r) = {} /\ Rolling(r) = {}  BY <2>1 DEF Unlisted, Rolling
  <2>4. ~Listing(s) /\ ~FillsApp(s) /\ ~FillsFile(s) /\ r.pc \notin Ends /\ s.pc \notin {"failed", "blocked"}
    BY <2>1 DEF Listing, FillsApp, FillsFile, AtFile, Ends
  <2>5. Left(s)'  BY <1>2, <2>1, <2>2, <2>3, <2>4, Moves
  <2>6. QED  BY <1>1, <2>5, LeftOf
<1>5. QED  BY <1>3, <1>4

LEMMA ExistingLeft ==
    ASSUME NEW e \in Engines, IInv, IInv', Left(eng[e]), Existing(e) \/ RemoveEnds(e)
    PROVE  Left(eng[e])'
<1> DEFINE r == eng[e]
<1>1. PICK s \in EngineStates : s = eng'[e]  BY DEF IInv
<1>2. r \in EngineStates /\ r.pc \in {"existing", "gone"} /\ UNCHANGED <<here, menus, amiss>>
  BY DEF IInv, Existing, RemoveEnds, At, disk
<1>3. CASE \E end \in {"failed", "blocked"} : FailsAs(e, end)
  BY <1>2, <1>3, FailsLeft DEF Ends
<1>4. CASE \E pc \in {"list", "remove", "refused", "removed"} : Goes(e, pc)
  <2>1. /\ s.made = r.made /\ s.created = r.created /\ s.gap = r.gap /\ s.end = r.end
        /\ s.noting = r.noting /\ s.plan = r.plan /\ s.i = r.i
        /\ s.pc \in {"list", "remove", "refused", "removed"}
    BY <1>1, <1>2, <1>4 DEF Goes, EngineStates, IInv
  <2>2. Unlisted(r) = {} /\ Rolling(r) = {}  BY <1>2 DEF Unlisted, Rolling
  <2>3. ~Listing(s) /\ ~FillsApp(s) /\ ~FillsFile(s) /\ r.pc \notin Ends /\ s.pc \notin {"failed", "blocked"}
    BY <1>2, <2>1 DEF Listing, FillsApp, FillsFile, AtFile, Ends
  <2>4. \A x : Kept(x)' => Kept(x)  BY <1>2 DEF Kept, Present
  <2>5. Left(s)'  BY <1>2, <2>1, <2>2, <2>3, <2>4, Moves
  <2>6. QED  BY <1>1, <2>5, LeftOf
<1>5. QED  BY <1>3, <1>4 DEF Existing, RemoveEnds

LEMMA RmFolderLeft ==
    ASSUME NEW e \in Engines, IInv, IInv', Left(eng[e]), RmFolder(e)
    PROVE  Left(eng[e])'
<1> DEFINE r == eng[e]
<1>1. PICK s \in EngineStates : s = eng'[e]  BY DEF IInv
<1>2. r \in EngineStates /\ RunOK(r) /\ r.pc = "rm" /\ s = [r EXCEPT !.pc = r.next, !.doomed = "none"]
  BY <1>1 DEF IInv, RmFolder, At
<1>3. here' = here \ {r.doomed} /\ menus' = menus /\ r.doomed # "menus"
  BY <1>2, Names DEF RmFolder, RunOK
<1>4. \A x : Kept(x)' => Kept(x) /\ x # r.doomed
  BY <1>3, Names DEF Kept, Present, RmFolder, Works, IInv, DiskOK
<1>5. \A x \in s.made : Kept(x)' => x \in Listed(s) \cup s.gap
  BY <1>2, <1>4 DEF Left, Tracked, Listed, Unlisted, Rolling, EngineStates
<1>6. s.pc \in {"idle", "rmdir", "dirs", "mkfile", "rollback"}  BY <1>2 DEF EngineStates
<1>7. Listing(s) => Listing(r)  BY <1>2, <1>6 DEF Listing, EngineStates
<1>8. FillsApp(s) => FillsApp(r)  BY <1>2, <1>6 DEF FillsApp, AtFile, EngineStates
<1>9. Left(s)'
  BY <1>2, <1>5, <1>6, <1>7, <1>8
     DEF Left, Tracked, Kept, Present, FillsFile, Listed, Ends, EngineStates
<1>10. QED  BY <1>1, <1>9, LeftOf

LEMMA RmFailsLeft ==
    ASSUME NEW e \in Engines, IInv, IInv', Left(eng[e]), RmFails(e)
    PROVE  Left(eng[e])'
<1> DEFINE r == eng[e]
<1>1. PICK s \in EngineStates : s = eng'[e]  BY DEF IInv
<1>2. r \in EngineStates /\ RunOK(r) /\ r.pc = "rm" /\ s = [r EXCEPT !.pc = r.next, !.doomed = "none"]
  BY <1>1 DEF IInv, RmFails, At
<1>3. here' = here /\ menus' = menus /\ amiss' = amiss \cup {r.doomed}
  BY DEF RmFails, Slips, disk
<1>4. \A x : Kept(x)' => Kept(x) /\ x # r.doomed
  BY <1>3 DEF Kept, Present
<1>5. \A x \in s.made : Kept(x)' => x \in Listed(s) \cup s.gap
  BY <1>2, <1>4 DEF Left, Tracked, Listed, Unlisted, Rolling, EngineStates
<1>6. s.pc \in {"idle", "rmdir", "dirs", "mkfile", "rollback"}  BY <1>2 DEF EngineStates
<1>7. Listing(s) => Listing(r)  BY <1>2, <1>6 DEF Listing, EngineStates
<1>8. FillsApp(s) => FillsApp(r)  BY <1>2, <1>6 DEF FillsApp, AtFile, EngineStates
<1>9. Left(s)'
  BY <1>2, <1>5, <1>6, <1>7, <1>8
     DEF Left, Tracked, Kept, Present, FillsFile, Listed, Ends, EngineStates
<1>10. QED  BY <1>1, <1>9, LeftOf

LEMMA StartListLeft ==
    ASSUME NEW e \in Engines, IInv, IInv', Left(eng[e]), StartList(e)
    PROVE  Left(eng[e])'
<1> DEFINE r == eng[e]
<1>1. PICK s \in EngineStates : s = eng'[e]  BY DEF IInv
<1>2. r \in EngineStates /\ r.pc = "list" /\ s = [r EXCEPT !.noting = TRUE, !.pc = "mkdir"]
  BY <1>1 DEF IInv, StartList, At
<1>3. /\ s.noting = TRUE /\ s.pc = "mkdir" /\ s.made = r.made /\ s.created = r.created
      /\ s.gap = r.gap /\ s.end = r.end /\ UNCHANGED <<here, menus, amiss>>
  BY <1>2 DEF EngineStates, StartList, disk, bounds
<1>4. Listed(s) = Listed(r) /\ Unlisted(r) = {} /\ Rolling(r) = {}
  BY <1>2, <1>3 DEF Listed, Unlisted, Rolling
<1>5. Tracked(s)'  BY <1>2, <1>3, <1>4 DEF Left, Tracked, Kept, Present, Ends
<1>6. Left(s)'
  BY <1>2, <1>3, <1>5 DEF Left, FillsApp, FillsFile, AtFile, Ends
<1>7. QED  BY <1>1, <1>6, LeftOf

----------------------------------------------------------------------------
(* The install *)

\* mkdir, and the menu entries: one more thing is there, and not yet listed.
LEMMA MakesLeft ==
    ASSUME NEW e \in Engines, IInv, IInv', Left(eng[e]), MakeApp(e) \/ MakeFile(e) \/ (Menus(e) /\ ~(Mac /\ menus))
    PROVE  Left(eng[e])'
<1> DEFINE r == eng[e]
<1>1. PICK s \in EngineStates : s = eng'[e]  BY DEF IInv
<1>2. PICK x, pc : /\ s = [r EXCEPT !.made = @ \cup {x}, !.pc = pc]
                   /\ \A y : y # x /\ Kept(y)' => Kept(y)
                   /\ \/ r.pc = "mkdir" /\ x = "app" /\ pc = "note"
                      \/ r.pc = "mkfile" /\ x = r.plan[r.i] /\ pc = "notefile"
                      \/ r.pc = "menus" /\ x = "menus" /\ pc = "notemenus"
  <2>1. CASE MakeApp(e)
    BY <1>1, <2>1 DEF MakeApp, Makes, At, IInv, Kept, Present, bounds
  <2>2. CASE MakeFile(e)
    BY <1>1, <2>2 DEF MakeFile, Makes, At, IInv, Kept, Present, File, bounds
  <2>3. CASE Menus(e) /\ ~(Mac /\ menus)
    BY <1>1, <2>3 DEF Menus, Makes, Works, At, IInv, Kept, Present
  <2>4. QED  BY <2>1, <2>2, <2>3
<1>3. /\ r \in EngineStates /\ r.noting /\ r.pc \notin Ends
  BY <1>2 DEF IInv, Left, Listing, Ends
<1>4. /\ s.made = r.made \cup {x} /\ s.pc = pc /\ s.noting /\ s.created = r.created /\ s.gap = r.gap
      /\ s.end = r.end /\ s.plan = r.plan /\ s.i = r.i
  BY <1>2, <1>3 DEF EngineStates
<1>5. Listed(s) = Listed(r) /\ Unlisted(r) = {} /\ Rolling(r) = {} /\ Unlisted(s) = {x}
  BY <1>2, <1>4 DEF Listed, Unlisted, Rolling
<1>6. Tracked(s)'
  <2>1. \A y \in r.made : Kept(y) => y \in Listed(r) \cup r.gap  BY <1>3, <1>5 DEF Left, Tracked, Ends
  <2>2. \A y \in s.made : Kept(y)' => y \in Listed(s) \cup s.gap \cup {x}
    BY <1>2, <1>4, <1>5, <2>1
  <2>3. QED  BY <1>5, <2>2 DEF Tracked, Kept, Present
<1>7. FillsApp(s) => FillsApp(r)  BY <1>2, <1>4 DEF FillsApp, AtFile
<1>8. Left(s)'
  BY <1>2, <1>3, <1>4, <1>5, <1>6, <1>7 DEF Left, FillsFile, Ends
<1>9. QED  BY <1>1, <1>8, LeftOf

\* ti_created: what was made is listed.
LEMMA NotesLeft ==
    ASSUME NEW e \in Engines, IInv, IInv', Left(eng[e]), NoteApp(e) \/ NoteFile(e) \/ NoteMenus(e)
    PROVE  Left(eng[e])'
<1> DEFINE r == eng[e]
<1>1. PICK s \in EngineStates : s = eng'[e]  BY DEF IInv
<1>2. PICK x, pc : /\ s = [r EXCEPT !.created = Append(@, x), !.pc = pc]
                   /\ \/ r.pc = "note" /\ x = "app" /\ pc = "own"
                      \/ r.pc = "notefile" /\ x = r.plan[r.i] /\ pc = "ownfile"
                      \/ r.pc = "notemenus" /\ x = "menus" /\ pc = "manifest"
                   /\ UNCHANGED <<here, menus, amiss>>
  <2>1. CASE NoteApp(e)  BY <1>1, <2>1 DEF NoteApp, Notes, At, IInv, disk, bounds
  <2>2. CASE NoteFile(e)  BY <1>1, <2>2 DEF NoteFile, Notes, At, IInv, File, disk, bounds
  <2>3. CASE NoteMenus(e)  BY <1>1, <2>3 DEF NoteMenus, Notes, At, IInv, disk, bounds
  <2>4. QED  BY <2>1, <2>2, <2>3
<1>3. r \in EngineStates /\ r.noting /\ r.pc \notin Ends
  BY <1>2 DEF IInv, Left, Listing, Ends
<1>4. /\ s.made = r.made /\ s.pc = pc /\ s.noting /\ s.created = Append(r.created, x) /\ s.gap = r.gap
      /\ s.end = r.end /\ s.plan = r.plan /\ s.i = r.i
  BY <1>2, <1>3 DEF EngineStates
<1>5. Listed(s) = Listed(r) \cup {x}  BY <1>3, <1>4, Appended
<1>6. Unlisted(r) = {x} /\ Rolling(r) = {}  BY <1>2 DEF Unlisted, Rolling
<1>7. Tracked(s)'  BY <1>2, <1>3, <1>4, <1>5, <1>6 DEF Left, Tracked, Kept, Present, Ends
<1>8. (FillsApp(s) => x = "app" \/ FillsApp(r)) /\ (FillsFile(s) => x = s.plan[s.i])
  BY <1>2, <1>4 DEF FillsApp, FillsFile, AtFile
<1>9. Left(s)'  BY <1>2, <1>3, <1>4, <1>5, <1>7, <1>8 DEF Left, Ends
<1>10. QED  BY <1>1, <1>9, LeftOf

\* The steps between: nothing new but in a folder that is listed.
LEMMA FillsLeft ==
    ASSUME NEW e \in Engines, IInv, IInv', Left(eng[e]),
           \/ OwnApp(e) \/ OwnFile(e) \/ Obtain(e) \/ FillFile(e) \/ Project(e) \/ Launch(e)
           \/ Manifest(e) \/ Marker(e)
    PROVE  Left(eng[e])'
<1> DEFINE r == eng[e]
<1>1. PICK s \in EngineStates : s = eng'[e]  BY DEF IInv
<1>2. r \in EngineStates /\ eng \in [Engines -> EngineStates]  BY DEF IInv
<1>3. /\ s.made = r.made /\ s.created = r.created /\ s.gap = r.gap /\ s.end = r.end
      /\ s.noting = r.noting /\ s.plan = r.plan
      /\ r.pc \in {"own", "ownfile", "fetch", "fill", "file", "launch", "manifest", "marker"}
      /\ s.pc \in {"file", "fetch", "fill", "launch", "menus", "marker", "last"}
      /\ s.pc = "file" => r.pc \in {"own", "fill"}
      /\ s.pc \in {"fetch", "fill"} => r.pc \in {"ownfile", "fetch"} /\ s.i = r.i
      /\ menus' = menus /\ amiss \subseteq amiss'
    BY <1>1, <1>2
       DEF OwnApp, OwnFile, Obtain, FillFile, Project, Launch, Manifest, Marker, At, Goes, Slips, disk, bounds,
           EngineStates
<1>4. \A x : x # "menus" /\ x \in here' => x \in here \cup Listed(r)
  <2>1. CASE FillFile(e)
    BY <2>1 DEF FillFile, Filled, File, At, Left, FillsFile
  <2>2. CASE Project(e)
    BY <2>2 DEF Project, Filled, At, Left, FillsApp
  <2>3. CASE ~FillFile(e) /\ ~Project(e)
    BY <2>3 DEF OwnApp, OwnFile, Obtain, Launch, Manifest, Marker, disk
  <2>4. QED  BY <2>1, <2>2, <2>3
<1>5. r.noting /\ Unlisted(r) = {} /\ Rolling(r) = {} /\ Listed(s) = Listed(r)
  BY <1>3 DEF Left, Listing, Unlisted, Rolling, Listed
<1>6. Tracked(s)'
  <2>1. \A y \in r.made : Kept(y) => y \in Listed(r) \cup r.gap  BY <1>3, <1>5 DEF Left, Tracked
  <2>2. \A y \in s.made : Kept(y)' => y \in Listed(s) \cup s.gap
    BY <1>3, <1>4, <1>5, <2>1 DEF Kept, Present
  <2>3. QED  BY <2>2 DEF Tracked, Kept, Present
<1>7. FillsApp(s) => FillsApp(r)  BY <1>3 DEF FillsApp, AtFile
<1>8. FillsFile(s) => FillsFile(r) /\ s.plan[s.i] = r.plan[r.i]  BY <1>3 DEF FillsFile
<1>9. Left(s)'
  BY <1>3, <1>5, <1>6, <1>7, <1>8 DEF Left, Ends
<1>10. QED  BY <1>1, <1>9, LeftOf

LEMMA ClearFileLeft ==
    ASSUME NEW e \in Engines, IInv, IInv', Left(eng[e]), ClearFile(e)
    PROVE  Left(eng[e])'
<1> DEFINE r == eng[e]
<1>1. PICK s \in EngineStates : s = eng'[e]  BY DEF IInv
<1>2. r \in EngineStates /\ r.pc = "file" /\ UNCHANGED <<here, menus, amiss>>
  BY DEF IInv, ClearFile, At, disk
<1>3. CASE FailsAs(e, "blocked")  BY <1>2, <1>3, FailsLeft DEF Ends
<1>4. CASE Goes(e, "mkfile") \/ Removing(e, File(e), "mkfile")
  <2>1. /\ s.made = r.made /\ s.created = r.created /\ s.gap = r.gap /\ s.end = r.end
        /\ s.noting = r.noting /\ s.plan = r.plan /\ s.i = r.i
        /\ s.pc = "mkfile" \/ (s.pc = "rm" /\ s.next = "mkfile")
    BY <1>1, <1>2, <1>4 DEF Goes, Removing, EngineStates, IInv
  <2>2. Unlisted(r) = {} /\ Rolling(r) = {} /\ Listing(r) /\ FillsApp(r)
    BY <1>2 DEF Unlisted, Rolling, Listing, FillsApp
  <2>3. ~FillsFile(s) /\ r.pc \notin Ends /\ s.pc \notin {"failed", "blocked"}
    BY <1>2, <2>1 DEF FillsFile, Ends
  <2>4. \A x : Kept(x)' => Kept(x)  BY <1>2 DEF Kept, Present
  <2>5. Left(s)'  BY <1>2, <2>1, <2>2, <2>3, <2>4, Moves
  <2>6. QED  BY <1>1, <2>5, LeftOf
<1>5. QED  BY <1>3, <1>4 DEF ClearFile

\* A run that is over, and keeps what it made or can do nothing about it.
LEMMA EndsLeft ==
    ASSUME NEW e \in Engines, IInv, IInv', Left(eng[e]), Done(e) \/ Kill(e) \/ KillManifest(e)
    PROVE  Left(eng[e])'
<1> DEFINE r == eng[e]
<1>1. PICK s \in EngineStates : s = eng'[e]  BY DEF IInv
<1>2. r \in EngineStates /\ eng \in [Engines -> EngineStates]  BY DEF IInv
<1>3. CASE Done(e)
  <2>1. /\ s.pc = "done" /\ r.pc = "last" /\ s.made = r.made /\ s.created = r.created /\ s.gap = r.gap
        /\ s.end = r.end /\ UNCHANGED <<here, menus, amiss>>
    BY <1>1, <1>2, <1>3 DEF Done, At, disk, bounds, EngineStates
  <2>2. Left(s)'
    BY <2>1 DEF Left, Tracked, Kept, Present, Listed, Unlisted, Rolling, Listing, FillsApp, FillsFile, AtFile, Ends
  <2>3. QED  BY <1>1, <2>2, LeftOf
<1>4. CASE Kill(e) \/ KillManifest(e)
  <2>1. s.pc = "killed" /\ s.gap = r.gap /\ s.end = r.end
    BY <1>1, <1>2, <1>4 DEF Kill, KillManifest, Goes, EngineStates
  <2>2. Left(s)'
    BY <2>1 DEF Left, Listing, FillsApp, FillsFile, AtFile, Ends
  <2>3. QED  BY <1>1, <2>2, LeftOf
<1>5. QED  BY <1>3, <1>4

----------------------------------------------------------------------------
(* Taking back *)

LEMMA RollbackLeft ==
    ASSUME NEW e \in Engines, IInv, IInv', Left(eng[e]), Rollback(e)
    PROVE  Left(eng[e])'
<1> DEFINE r == eng[e]
<1>1. PICK s \in EngineStates : s = eng'[e]  BY DEF IInv
<1>2. r \in EngineStates /\ r.pc = "rollback" /\ r.end \in {"failed", "blocked"} /\ r.noting
  BY DEF IInv, Rollback, At, RunOK, EngineStates, Left, Listing
<1>3. \A x \in r.made : Kept(x) => x \in Listed(r) \cup r.gap
  BY <1>2 DEF Left, Tracked, Unlisted, Rolling
<1>4. \A x : Kept(x)' => Kept(x)  BY DEF Rollback, Works, Slips, bounds, Kept, Present
<1>5. CASE r.created = <<>>
  <2>1. s = [r EXCEPT !.pc = r.end, !.noting = FALSE]
    BY <1>1, <1>5 DEF Rollback, IInv
  <2>2. Listed(r) = {}  BY <1>5 DEF Listed
  <2>3. s.pc \in {"failed", "blocked"} /\ s.made = r.made /\ s.gap = r.gap /\ s.end = r.end
    BY <1>2, <2>1 DEF EngineStates
  <2>4. Left(s)'
    BY <1>2, <1>3, <1>4, <2>1, <2>2, <2>3
       DEF Left, Tracked, Kept, Present, Listing, FillsApp, FillsFile, AtFile, Ends
  <2>5. QED  BY <1>1, <2>4, LeftOf
<1>6. CASE r.created # <<>>
  <2>1. /\ \/ s = [r EXCEPT !.created = Front(@)] /\ Last(r.created) = "menus" /\ ~Kept("menus")'
           \/ /\ Last(r.created) # "menus"
              /\ s = [r EXCEPT !.created = Front(@), !.pc = "rm", !.doomed = Last(r.created), !.next = "rollback"]
    BY <1>1, <1>6 DEF Rollback, Slips, Kept, Present, IInv
  <2>2. /\ s.made = r.made /\ s.gap = r.gap /\ s.end = r.end /\ s.noting
        /\ s.created = Front(r.created)
        /\ \/ s.pc = "rollback" /\ Last(r.created) = "menus" /\ ~Kept("menus")'
           \/ s.pc = "rm" /\ s.next = "rollback" /\ s.doomed = Last(r.created)
    <3>1. CASE s = [r EXCEPT !.created = Front(@)] /\ Last(r.created) = "menus" /\ ~Kept("menus")'
      BY <1>2, <3>1 DEF EngineStates
    <3>2. CASE /\ Last(r.created) # "menus"
               /\ s = [r EXCEPT !.created = Front(@), !.pc = "rm", !.doomed = Last(r.created), !.next = "rollback"]
      BY <1>2, <3>2 DEF EngineStates
    <3>3. QED  BY <2>1, <3>1, <3>2
  <2>3. Listed(r) \subseteq Listed(s) \cup {Last(r.created)}  BY <1>2, <1>6, <2>2, Shortened
  <2>4. \A x \in s.made : Kept(x)' => x \in Listed(s) \cup s.gap \cup Rolling(s)
    BY <1>3, <1>4, <2>2, <2>3 DEF Kept, Present, Rolling
  <2>5. Left(s)'
    BY <1>2, <2>2, <2>4 DEF Left, Tracked, Kept, Present, FillsApp, FillsFile, AtFile, Ends
  <2>6. QED  BY <1>1, <2>5, LeftOf
<1>7. QED  BY <1>5, <1>6

LEMMA InterruptLeft ==
    ASSUME NEW e \in Engines, IInv, IInv', Left(eng[e]), Interrupt(e)
    PROVE  Left(eng[e])'
<1> DEFINE r == eng[e]
<1>1. PICK s \in EngineStates : s = eng'[e]  BY DEF IInv
<1>2. PICK gap : gap = Gap(e)  OBVIOUS
<1>3. /\ r \in EngineStates /\ RunOK(r) /\ r.end = "none" /\ r.pc \notin Ends
      /\ s = [r EXCEPT !.pc = IF r.noting THEN "rollback" ELSE "failed",
                       !.end = "failed", !.doomed = "none", !.gap = gap]
  BY <1>1, <1>2 DEF IInv, Interrupt, Running
<1>4. gap = Unlisted(r) /\ r.gap = {} /\ Rolling(r) = {}
  BY <1>2, <1>3 DEF Gap, Unlisted, Rolling, Left, RunOK, At, File
<1>5. /\ s.made = r.made /\ s.created = r.created /\ s.gap = Unlisted(r) /\ s.end = "failed"
      /\ s.noting = r.noting /\ s.pc = (IF r.noting THEN "rollback" ELSE "failed")
      /\ UNCHANGED <<here, menus, amiss>>
  BY <1>3, <1>4 DEF EngineStates, Interrupt, disk
<1>6. \A x \in s.made : Kept(x)' => x \in Listed(s) \cup s.gap
  BY <1>3, <1>4, <1>5 DEF Left, Tracked, Kept, Present, Listed, Ends
<1>7. ~s.noting => s.made = {}  BY <1>3, <1>5 DEF Left
<1>8. Left(s)'
  BY <1>5, <1>6, <1>7 DEF Left, Tracked, Kept, Present, Listing, FillsApp, FillsFile, AtFile, Ends
<1>9. QED  BY <1>1, <1>8, LeftOf

LEMMA StepFailsLeft ==
    ASSUME NEW e \in Engines, IInv, IInv', Left(eng[e]), StepFails(e) \/ (Menus(e) /\ Mac /\ menus)
    PROVE  Left(eng[e])'
<1>1. \E end \in {"failed", "blocked"} : FailsAs(e, end)  BY DEF StepFails, Menus
<1>2. eng[e].pc \notin Ends \cup {"note", "notefile", "notemenus", "rm"}
  BY DEF StepFails, Menus, At, Ends
<1>3. UNCHANGED <<here, menus, amiss>>  BY DEF StepFails, Menus, disk
<1>4. QED  BY <1>1, <1>2, <1>3, FailsLeft

----------------------------------------------------------------------------
(* The first theorem *)

LEMMA LeftNext ==
    ASSUME NEW e, Engines = {e}, IInv, IInv', Left(eng[e]), [Next]_vars
    PROVE  Left(eng[e])'
<1>1. CASE UNCHANGED vars
  BY <1>1 DEF vars, disk, bounds, Left, Tracked, Kept, Present, Listing, FillsApp, FillsFile, Listed, Unlisted, Rolling, AtFile
<1>2. CASE Start(e) \/ Check(e) \/ Prerequisites(e) \/ Existing(e)
  BY <1>2, StartLeft, EarlyLeft, ExistingLeft
<1>3. CASE Removal(e)
  BY <1>3, EarlyLeft, ExistingLeft, RmFolderLeft, RmFailsLeft DEF Removal
<1>4. CASE Installing(e)
  BY <1>4, StartListLeft, MakesLeft, NotesLeft, FillsLeft, ClearFileLeft, EndsLeft, StepFailsLeft DEF Installing
<1>5. CASE StepFails(e) \/ Rollback(e) \/ Interrupt(e) \/ Kill(e) \/ KillManifest(e)
  BY <1>5, StepFailsLeft, RollbackLeft, InterruptLeft, EndsLeft
<1>6. QED  BY <1>1, <1>2, <1>3, <1>4, <1>5 DEF Next

LEMMA AlwaysLeft == ASSUME NEW e, Engines = {e}  PROVE Spec => []Left(eng[e])
<1>1. Init => Left(eng[e])
  <2> SUFFICES ASSUME Init  PROVE Left(eng[e])  OBVIOUS
  <2>1. eng[e].pc = "idle" /\ eng[e].made = {} /\ eng[e].gap = {}  BY DEF Init, NotStarted
  <2>2. QED  BY <2>1 DEF Left, Tracked, Listing, FillsApp, FillsFile, AtFile, Ends
<1>2. IInv /\ IInv' /\ Left(eng[e]) /\ [Next]_vars => Left(eng[e])'
  BY LeftNext
<1>3. QED  BY <1>1, <1>2, Invariance, PTL DEF Spec

LEMMA AlwaysOnDisk == ASSUME NEW e, Engines = {e}  PROVE Spec => []OnDisk(eng[e])
<1>1. Init => OnDisk(eng[e])  BY OneInit
<1>2. IInv /\ IInv' /\ OnDisk(eng[e]) /\ [Next]_vars => OnDisk(eng[e])'
  BY OneNext
<1>3. QED  BY <1>1, <1>2, Invariance, PTL DEF Spec

\* When at most one run is at work at a time, a run that failed has taken back
\* everything it made, whatever failed and whenever a signal came, but for what
\* the signal found made and not yet noted (ti_rollback, TI_CREATED) and the
\* very things the system refused to remove, however many those are.
THEOREM FailuresAreTakenBack ==
    ASSUME NEW e, Engines = {e}
    PROVE  Spec => []FailureLeavesNothing
<1>1. Left(eng[e]) => FailureLeavesNothing
  BY DEF Left, FailureLeavesNothing, Kept, Present
<1>2. QED  BY <1>1, AlwaysLeft, PTL

----------------------------------------------------------------------------
(* What is accounted for *)

\* No removal and no install is under way.
AtRest(s) == s.pc \in {"idle", "check", "needs", "existing", "remove"} \cup Ends

\* The folder that goes, and the run that still has things to remove.
Going(s) == IF s.pc = "rm" THEN {s.doomed} ELSE {}
HasItems(s) == s.pc \in {"unlink", "dirs", "rmdir"} \/ (s.pc = "rm" /\ s.next \in {"dirs", "rmdir"})
AtAppDir(s) == s.pc \in {"rmdir", "gone"} \/ (s.pc = "rm" /\ s.next = "rmdir")
RollingBack(s) == s.pc = "rollback" \/ (s.pc = "rm" /\ s.next = "rollback")

\* What is this app's, and no removal was refused on.
KeptMenus == menus /\ "menus" \notin amiss
Ours(d) == Owned(d) /\ d \notin amiss

\* What a run's lists say of it.
ListsOK(s) ==
    /\ s.pc \notin Ends /\ s.noting => Listing(s)
    /\ s.pc \notin Ends /\ ~s.noting => s.created = <<>>
    /\ Listed(s) \subseteq ToSet(s.plan) \cup {"app", "menus"}
    /\ Listing(s) /\ s.pc \notin {"manifest", "marker", "last"} /\ ~RollingBack(s) => "menus" \notin Listed(s)
    /\ s.pc \notin Ends /\ ~HasItems(s) => s.items = {}
    /\ s.pc = "rmdir" \/ (s.pc = "rm" /\ s.next = "rmdir") => s.items \subseteq {"menus"}
    /\ s.pc = "rm" => s.next # "idle" /\ (s.next = "rmdir" => s.doomed = "app")
    /\ s.pc = "removed" => s.cmd = "uninstall"
    /\ s.pc \in {"marker", "last"} => /\ "manifest" \in files["app"]
                                      /\ ToSet(s.plan) \cup {"menus"} \subseteq lines

\* What an uninstaller has removed and has still to remove.
UninstallOK(s) ==
    s.cmd = "uninstall" =>
        /\ s.pc = "remove" \/ HasItems(s) \/ AtAppDir(s) \/ s.pc \in Ends
        /\ s.pc = "remove" => "manifest" \in files["app"]
        /\ HasItems(s) \/ AtAppDir(s) \/ s.pc = "removed" =>
              /\ KeptMenus /\ "menus" \in lines => "menus" \in s.items
              /\ \A d \in Deps : Ours(d) /\ d \in lines => d \in s.items \cup Going(s)
        /\ s.pc = "removed" => s.items = {}
        /\ s.pc = "removed" \/ (s.pc \in {"rmdir", "gone"} /\ ~s.bad) => "app" \notin here \/ "app" \in amiss

\* Where the app's menu entries and folders are accounted for: in the manifest,
\* in what is being removed, or on the list of the run.
Account(s) == IF AtRest(s) THEN IF "manifest" \in files["app"] THEN lines ELSE {}
              ELSE Going(s) \cup IF Listing(s) THEN Listed(s) \cup Unlisted(s) ELSE s.items
Accounted(s) == /\ KeptMenus => "menus" \in Account(s)
                /\ \A d \in Deps : Ours(d) => d \in Account(s)

\* The folders that may be without a .ti-owner for the moment; one that could
\* not be written or whose folder could not be removed is missing for longer.
Excuse(s) == CASE s.pc \in {"note", "own"} -> {"app"}
               [] s.pc \in {"notefile", "ownfile"} -> {s.plan[s.i]}
               [] s.pc = "rollback" -> Listed(s)
               [] s.pc = "rm" -> {s.doomed} \cup IF s.next = "rollback" THEN Listed(s) ELSE {}
               [] OTHER -> {}
OwnedOK(s) == \A f \in here \ Foreign : Owned(f) \/ f \in Excuse(s) \/ f \in amiss

Neat(s) == /\ ListsOK(s) /\ UninstallOK(s)
           /\ cuts = 0 => Accounted(s) /\ OwnedOK(s)

----------------------------------------------------------------------------
(* Lemmas the steps share *)

\* A folder that is there after a step has its .ti-owner, or is excused, unless
\* it was without before.
Neater(r, s, f) == \/ Owned(f)' \/ f \in Excuse(s) \/ f \in amiss'
                   \/ f \in here /\ ~Owned(f) /\ f \notin Excuse(r) /\ f \notin amiss

LEMMA NeatOf == ASSUME NEW e \in Engines, NEW s, s = eng'[e], Neat(s)'  PROVE Neat(eng[e])'
  BY DEF Neat, ListsOK, UninstallOK, Accounted, OwnedOK, Account, Excuse, AtRest, Going, HasItems,
     AtAppDir, RollingBack, Listing, Listed, Unlisted, Owned, Ours, KeptMenus, AtFile

LEMMA NotListing == ASSUME NEW s, AtRest(s)  PROVE ~Listing(s) /\ ~HasItems(s) /\ ~AtAppDir(s) /\ Excuse(s) = {}
  BY DEF AtRest, Listing, HasItems, AtAppDir, Excuse, Ends

\* What is the app's after a step was so before it, and is accounted for.
LEMMA NeatAfter ==
    ASSUME NEW r, NEW s, Neat(r), cuts' = cuts, ListsOK(s)', UninstallOK(s)',
           KeptMenus' => "menus" \in Account(s)' \/ (KeptMenus /\ "menus" \notin Account(r)),
           \A d \in Deps : Ours(d)' => d \in Account(s)' \/ (Ours(d) /\ d \notin Account(r)),
           \A f \in here' \ Foreign : Neater(r, s, f)
    PROVE  Neat(s)'
<1>1. cuts' = 0 => Accounted(s)'  BY DEF Neat, Accounted
<1>2. cuts' = 0 => OwnedOK(s)'
  <2>1. Excuse(s)' = Excuse(s)  BY DEF Excuse, Listed
  <2>2. QED  BY <2>1 DEF Neat, OwnedOK, Neater
<1>3. QED  BY <1>1, <1>2 DEF Neat

\* The same for a step that changes only the run.
LEMMA NeatStill ==
    ASSUME NEW r, NEW s, Neat(r), UNCHANGED <<disk, cuts, amiss>>, ListsOK(s), UninstallOK(s),
           \A x \in Account(r) \ {"app"} : x \in Account(s) \/ (x = "menus" /\ ~KeptMenus) \/ (x # "menus" /\ ~Ours(x)),
           Excuse(r) \subseteq Excuse(s)
    PROVE  Neat(s)'
<1>1. Account(s)' = Account(s) /\ \A f : Owned(f)' = Owned(f)
  BY DEF disk, Account, AtRest, Going, Listing, Listed, Unlisted, Owned
<1>2. ListsOK(s)' /\ UninstallOK(s)'
  BY DEF disk, ListsOK, UninstallOK, Listing, Listed, Unlisted, Owned, Ours, KeptMenus, HasItems, AtAppDir, RollingBack, Going, AtFile
<1>3. /\ KeptMenus' => "menus" \in Account(s)' \/ (KeptMenus /\ "menus" \notin Account(r))
      /\ \A d \in Deps : Ours(d)' => d \in Account(s)' \/ (Ours(d) /\ d \notin Account(r))
  BY <1>1, InstallAssumption DEF disk, KeptMenus, Ours
<1>4. \A f \in here' \ Foreign : Neater(r, s, f)
  BY <1>1 DEF disk, Neater
<1>5. QED  BY <1>2, <1>3, <1>4, NeatAfter DEF disk

\* The lists of a run that is not installing, where it has come from r to s.
LEMMA PlainLists ==
    ASSUME NEW r, NEW s, ListsOK(r), s.created = r.created, s.plan = r.plan, s.noting = r.noting, s.cmd = r.cmd,
           r.pc \notin Ends, ~Listing(r), ~Listing(s),
           s.pc \in Ends \/ HasItems(s) \/ s.items = {},
           s.pc = "rmdir" \/ (s.pc = "rm" /\ s.next = "rmdir") => s.items \subseteq {"menus"},
           s.pc = "rm" => s.next # "idle" /\ (s.next = "rmdir" => s.doomed = "app"),
           s.pc = "removed" => s.cmd = "uninstall"
    PROVE  ListsOK(s) /\ ListsOK(s)'
<1>1. Listed(s) = Listed(r)  BY DEF Listed
<1>2. ~s.noting /\ s.created = <<>>  BY DEF ListsOK
<1>3. s.pc \notin {"marker", "last"}  BY DEF Listing
<1>4. QED  BY <1>1, <1>2, <1>3 DEF ListsOK

LEMMA NoneListed == ASSUME NEW s, s.created = <<>>  PROVE Listed(s) = {}
  BY DEF Listed

\* ti_fail: what was accounted for by the list still is, or there is no list.
LEMMA FailsNeat ==
    ASSUME NEW e \in Engines, IInv, IInv', Left(eng[e]), Neat(eng[e]), NEW end \in {"failed", "blocked"},
           FailsAs(e, end), UNCHANGED <<disk, cuts, amiss>>,
           \/ eng[e].pc \in {"needs", "existing", "gone"}
           \/ Listing(eng[e]) /\ eng[e].pc \notin {"note", "notefile", "notemenus", "rm"},
           eng[e].pc = "own" \/ Excuse(eng[e]) = {}
    PROVE  Neat(eng[e])'
<1> DEFINE r == eng[e]
<1>1. PICK s \in EngineStates : s = eng'[e]  BY DEF IInv
<1>2. r \in EngineStates /\ s = [r EXCEPT !.pc = IF r.noting THEN "rollback" ELSE end, !.end = end]
  BY <1>1 DEF IInv, FailsAs
<1>3. /\ s.made = r.made /\ s.created = r.created /\ s.items = r.items /\ s.plan = r.plan /\ s.cmd = r.cmd
      /\ s.noting = r.noting /\ s.end = end /\ s.next = r.next
      /\ s.pc = (IF r.noting THEN "rollback" ELSE end)
  BY <1>2 DEF EngineStates
<1>4. Listed(s) = Listed(r) /\ Going(r) = {} /\ Going(s) = {}  BY <1>3 DEF Listed, Going
<1>5. CASE r.noting
  <2>1. s.pc = "rollback" /\ Listing(s) /\ Listing(r) /\ ~AtRest(s) /\ ~AtRest(r)
    BY <1>3, <1>5 DEF Listing, AtRest, Ends, Neat, ListsOK
  <2>2. s.cmd # "uninstall"
    BY <1>3, <2>1 DEF Neat, UninstallOK, HasItems, AtAppDir, Listing, Ends, AtFile
  <2>3. Unlisted(r) = {} /\ r.items = {}
    BY <2>1 DEF Unlisted, Neat, ListsOK, Listing, Ends, HasItems
  <2>4. ListsOK(s)
    BY <1>3, <1>4, <1>5, <2>1, <2>3 DEF Neat, ListsOK, HasItems, RollingBack, Ends
  <2>5. UninstallOK(s)  BY <2>2 DEF UninstallOK
  <2>6. Account(r) \subseteq Account(s)
    BY <1>4, <2>1, <2>3 DEF Account
  <2>7. Excuse(r) \subseteq Excuse(s)
    <3>1. CASE r.pc = "own"
      BY <1>4, <2>1, <3>1 DEF Excuse, Left, FillsApp
    <3>2. CASE r.pc # "own"  BY <3>2
    <3>3. QED  BY <3>1, <3>2
  <2>8. Neat(s)'  BY <2>4, <2>5, <2>6, <2>7, NeatStill
  <2>9. QED  BY <1>1, <2>8, NeatOf
<1>6. CASE ~r.noting
  <2>1. r.pc \in {"needs", "existing", "gone"} /\ s.pc = end /\ AtRest(s)
    BY <1>3, <1>6 DEF Left, AtRest, Ends
  <2>2. ListsOK(s)
    BY <1>3, <1>4, <2>1, NotListing DEF Neat, ListsOK, Ends, HasItems
  <2>3. UninstallOK(s)
    BY <1>3, <2>1 DEF UninstallOK, HasItems, AtAppDir, Ends
  <2>4. Account(r) \subseteq Account(s)
    <3>1. CASE r.pc = "gone"
      BY <1>4, <2>1, <3>1 DEF Account, AtRest, Ends, Listing, Neat, ListsOK, HasItems
    <3>2. CASE r.pc # "gone"
      BY <2>1, <3>2 DEF Account, AtRest
    <3>3. QED  BY <3>1, <3>2
  <2>5. Excuse(r) = {}  BY <2>1
  <2>6. Neat(s)'  BY <2>2, <2>3, <2>4, <2>5, NeatStill
  <2>7. QED  BY <1>1, <2>6, NeatOf
<1>7. QED  BY <1>5, <1>6

----------------------------------------------------------------------------
(* Starting and removing *)

LEMMA StartNeat ==
    ASSUME NEW e \in Engines, IInv, IInv', Neat(eng[e]), Start(e)
    PROVE  Neat(eng[e])'
<1> DEFINE r == eng[e]
<1>1. PICK s \in EngineStates : s = eng'[e]  BY DEF IInv
<1>2. PICK plan \in Plans, cmd \in {"install", "reinstall", "uninstall"} :
        /\ cmd = "uninstall" => "manifest" \in files["app"]
        /\ s = [NotStarted EXCEPT !.pc = IF cmd = "uninstall" THEN "remove" ELSE "check",
                                  !.cmd = cmd, !.plan = plan]
  BY <1>1 DEF Start, IInv
<1>3. /\ s.pc = (IF cmd = "uninstall" THEN "remove" ELSE "check") /\ s.cmd = cmd /\ ~s.noting
      /\ s.created = <<>> /\ s.items = {} /\ s.end = "none" /\ s.next = "idle"
  BY <1>2 DEF NotStarted
<1>4. AtRest(r) /\ AtRest(s)  BY <1>3 DEF Start, Running, AtRest
<1>5. UNCHANGED <<disk, cuts, amiss>>  BY DEF Start
<1>6. ListsOK(s)  BY <1>3, <1>4, NotListing, NoneListed DEF ListsOK, Ends
<1>7. UninstallOK(s)  BY <1>2, <1>3, <1>4, NotListing DEF UninstallOK
<1>8. Account(r) = Account(s) /\ Excuse(r) = {}  BY <1>4, NotListing DEF Account
<1>9. Neat(s)'  BY <1>5, <1>6, <1>7, <1>8, NeatStill
<1>10. QED  BY <1>1, <1>9, NeatOf

LEMMA CheckNeat ==
    ASSUME NEW e \in Engines, IInv, IInv', Neat(eng[e]), Check(e) \/ Prerequisites(e)
    PROVE  Neat(eng[e])'
<1> DEFINE r == eng[e]
<1>1. PICK s \in EngineStates : s = eng'[e]  BY DEF IInv
<1>2. r \in EngineStates /\ eng \in [Engines -> EngineStates]  BY DEF IInv
<1>3. /\ s.created = r.created /\ s.items = r.items /\ s.plan = r.plan /\ s.cmd = r.cmd
      /\ s.noting = r.noting /\ s.end = r.end /\ s.next = r.next
      /\ r.pc \in {"check", "needs"} /\ s.pc \in {"started", "needs", "existing"}
  BY <1>1, <1>2 DEF Check, Prerequisites, At, Goes, EngineStates
<1>4. AtRest(r) /\ AtRest(s)  BY <1>3 DEF AtRest, Ends
<1>5. UNCHANGED <<disk, cuts, amiss>>  BY DEF Check, Prerequisites, bounds
<1>6. ListsOK(s)
  BY <1>3, <1>4, NotListing DEF Neat, ListsOK, Listed, Ends
<1>7. UninstallOK(s)
  BY <1>3, <1>4, NotListing DEF Neat, UninstallOK, Ends
<1>8. Account(r) = Account(s) /\ Excuse(r) = {}  BY <1>4, NotListing DEF Account
<1>9. Neat(s)'  BY <1>5, <1>6, <1>7, <1>8, NeatStill
<1>10. QED  BY <1>1, <1>9, NeatOf

LEMMA ExistingNeat ==
    ASSUME NEW e \in Engines, IInv, IInv', Left(eng[e]), Neat(eng[e]), Existing(e)
    PROVE  Neat(eng[e])'
<1> DEFINE r == eng[e]
<1>1. PICK s \in EngineStates : s = eng'[e]  BY DEF IInv
<1>2. /\ r \in EngineStates /\ r.pc = "existing" /\ AtRest(r) /\ UNCHANGED <<disk, cuts, amiss>>
      /\ Excuse(r) = {} /\ r.cmd # "uninstall"
  BY NotListing DEF IInv, Existing, At, AtRest, Neat, UninstallOK, HasItems, AtAppDir, Ends
<1>3. CASE FailsAs(e, "blocked")  BY <1>2, <1>3, FailsNeat
<1>4. ASSUME NEW pc \in {"list", "remove"}, Goes(e, pc), pc = "list" => "app" \notin here
      PROVE  Neat(eng[e])'
  <2>1. /\ s.created = r.created /\ s.items = r.items /\ s.plan = r.plan /\ s.cmd = r.cmd
        /\ s.noting = r.noting /\ s.end = r.end /\ s.next = r.next /\ s.pc = pc
    BY <1>1, <1>2, <1>4 DEF Goes, EngineStates, IInv
  <2>2. ~Listing(s) /\ ~HasItems(s) /\ ~AtAppDir(s) /\ s.cmd # "uninstall"
    BY <1>2, <2>1 DEF Listing, HasItems, AtAppDir, AtFile
  <2>3. ListsOK(s)  BY <1>2, <2>1, <2>2, NotListing DEF Neat, ListsOK, Listed, Ends, HasItems
  <2>4. UninstallOK(s)  BY <2>2 DEF UninstallOK
  <2>5. Account(r) \subseteq Account(s)
    <3>1. CASE pc = "remove"  BY <1>2, <2>1, <3>1 DEF Account, AtRest
    <3>2. CASE pc = "list"
      <4>1. files["app"] = {}  BY <1>4, <3>2, Names DEF IInv, DiskOK
      <4>2. QED  BY <1>2, <4>1 DEF Account
    <3>3. QED  BY <3>1, <3>2
  <2>6. Neat(s)'  BY <1>2, <2>3, <2>4, <2>5, NeatStill
  <2>7. QED  BY <1>1, <2>6, NeatOf
<1>5. QED  BY <1>3, <1>4 DEF Existing

LEMMA RemoveMarkerNeat ==
    ASSUME NEW e \in Engines, IInv, IInv', Neat(eng[e]), RemoveMarker(e)
    PROVE  Neat(eng[e])'
<1> DEFINE r == eng[e]
<1>1. PICK s \in EngineStates : s = eng'[e]  BY DEF IInv
<1>2. PICK items : items = IF "manifest" \in files["app"] THEN lines ELSE {}  OBVIOUS
<1>3. r \in EngineStates /\ r.pc = "remove" /\ s = [r EXCEPT !.pc = "unlink", !.items = items]
  BY <1>1, <1>2 DEF IInv, RemoveMarker, At
<1>4. /\ s.created = r.created /\ s.items = items /\ s.plan = r.plan /\ s.cmd = r.cmd
      /\ s.noting = r.noting /\ s.end = r.end /\ s.next = r.next /\ s.pc = "unlink"
  BY <1>3 DEF EngineStates
<1>5. /\ files' = [files EXCEPT !["app"] = @ \ {"marker"}] \/ files' = files
      /\ UNCHANGED <<here, lines, menus, cuts>>
      /\ amiss' \ {"marker"} = amiss \ {"marker"}
  BY DEF RemoveMarker, Works, Slips
<1>6. \A f \in Folders : Owned(f)' <=> Owned(f)  BY <1>5, Names DEF Owned, IInv, DiskOK
<1>7. (KeptMenus' <=> KeptMenus) /\ \A d \in Deps : Ours(d)' <=> Ours(d)
  BY <1>5, <1>6, InstallAssumption DEF KeptMenus, Ours, Folders
<1>8. AtRest(r) /\ ~AtRest(s) /\ ~Listing(s) /\ ~AtAppDir(s) /\ Account(r) = items /\ Account(s)' = items
  BY <1>2, <1>3, <1>4 DEF AtRest, Ends, Account, Listing, AtFile, AtAppDir, Going
<1>9. ListsOK(s)'
  BY <1>3, <1>4, <1>8, NotListing DEF Neat, ListsOK, Listed, Listing, HasItems, AtFile, Ends
<1>10. UninstallOK(s)'
  BY <1>2, <1>3, <1>4, <1>5, <1>7 DEF Neat, UninstallOK, HasItems, AtAppDir
<1>11. \A f \in here' \ Foreign : Neater(r, s, f)
  BY <1>5, <1>6, <1>8, NotListing, Names DEF IInv, DiskOK, Neater
<1>12. Neat(s)'  BY <1>5, <1>8, <1>9, <1>10, <1>11, <1>7, NeatAfter
<1>13. QED  BY <1>1, <1>12, NeatOf

LEMMA RemoveMenusNeat ==
    ASSUME NEW e \in Engines, IInv, IInv', Neat(eng[e]), RemoveMenus(e)
    PROVE  Neat(eng[e])'
<1> DEFINE r == eng[e]
<1>1. PICK s \in EngineStates : s = eng'[e]  BY DEF IInv
<1>2. PICK items : items = IF Mac THEN r.items ELSE r.items \ {"menus"}  OBVIOUS
<1>3. r \in EngineStates /\ r.pc = "unlink" /\ s = [r EXCEPT !.pc = "dirs", !.items = items]
  BY <1>1, <1>2 DEF IInv, RemoveMenus, At
<1>4. /\ s.created = r.created /\ s.items = items /\ s.plan = r.plan /\ s.cmd = r.cmd
      /\ s.noting = r.noting /\ s.end = r.end /\ s.next = r.next /\ s.pc = "dirs"
  BY <1>3 DEF EngineStates
<1>5. /\ UNCHANGED <<here, files, lines, cuts>> /\ amiss' \ {"menus"} = amiss \ {"menus"}
      /\ KeptMenus' => KeptMenus /\ ("menus" \in r.items => "menus" \in items)
  BY <1>2 DEF RemoveMenus, Unlinks, Works, Slips, bounds, KeptMenus
<1>6. \A f : Owned(f)' <=> Owned(f)  BY <1>5 DEF Owned
<1>7. \A d \in Deps : Ours(d)' <=> Ours(d)
  BY <1>5, <1>6, InstallAssumption DEF Ours
<1>8. Account(r) = r.items /\ Account(s)' = items /\ Excuse(r) = {} /\ Excuse(s) = {}
  BY <1>3, <1>4 DEF AtRest, Ends, Account, Listing, AtFile, Going, Excuse
<1>9. ListsOK(s)'
  <2>1. ~Listing(r) /\ ~Listing(s) /\ HasItems(s) /\ r.pc \notin Ends
    BY <1>3, <1>4 DEF Listing, HasItems, Ends
  <2>2. QED  BY <1>2, <1>4, <2>1, PlainLists DEF Neat
<1>10. UninstallOK(s)'
  BY <1>2, <1>3, <1>4, <1>5, <1>7, InstallAssumption DEF Neat, UninstallOK, HasItems, AtAppDir, Going
<1>11. KeptMenus' => "menus" \in Account(s)' \/ (KeptMenus /\ "menus" \notin Account(r))
  BY <1>5, <1>8
<1>12. \A d \in Deps : d \in Account(r) => d \in Account(s)'  BY <1>2, <1>8, InstallAssumption
<1>13. \A f \in here' \ Foreign : Neater(r, s, f)
  BY <1>5, <1>6, <1>8, Names DEF Neater, IInv, DiskOK
<1>14. Neat(s)'  BY <1>5, <1>6, <1>8, <1>9, <1>10, <1>11, <1>12, <1>13, <1>7, NeatAfter
<1>15. QED  BY <1>1, <1>14, NeatOf

LEMMA RemoveMenusFolderNeat ==
    ASSUME NEW e \in Engines, IInv, IInv', Neat(eng[e]), RemoveMenusFolder(e)
    PROVE  Neat(eng[e])'
<1> DEFINE r == eng[e]
<1>1. PICK s \in EngineStates : s = eng'[e]  BY DEF IInv
<1>2. PICK items : items = {}  OBVIOUS
<1>3. r \in EngineStates /\ r.pc = "rmdir" /\ s = [r EXCEPT !.pc = "gone", !.items = items]
  BY <1>1, <1>2 DEF IInv, RemoveMenusFolder, At
<1>4. /\ s.created = r.created /\ s.items = items /\ s.plan = r.plan /\ s.cmd = r.cmd
      /\ s.noting = r.noting /\ s.end = r.end /\ s.next = r.next /\ s.pc = "gone" /\ s.bad = r.bad
  BY <1>3 DEF EngineStates
<1>5. r.items \subseteq {"menus"}  BY <1>3 DEF Neat, ListsOK
<1>6. /\ UNCHANGED <<here, files, lines, cuts>> /\ amiss' \ {"menus"} = amiss \ {"menus"}
      /\ KeptMenus' => KeptMenus /\ "menus" \notin r.items
  BY <1>2 DEF RemoveMenusFolder, Unlinks, Works, Slips, bounds, KeptMenus
<1>7. \A f : Owned(f)' <=> Owned(f)  BY <1>6 DEF Owned
<1>8. \A d \in Deps : Ours(d)' <=> Ours(d)
  BY <1>6, <1>7, InstallAssumption DEF Ours
<1>9. Account(r) = r.items /\ Account(s)' = items /\ Excuse(r) = {} /\ Excuse(s) = {}
  BY <1>3, <1>4 DEF AtRest, Ends, Account, Listing, AtFile, Going, Excuse
<1>10. ListsOK(s)'
  <2>1. ~Listing(r) /\ ~Listing(s) /\ r.pc \notin Ends
    BY <1>3, <1>4 DEF Listing, Ends
  <2>2. QED  BY <1>2, <1>4, <2>1, PlainLists DEF Neat
<1>11. UninstallOK(s)'
  BY <1>2, <1>3, <1>4, <1>5, <1>6, <1>8, InstallAssumption DEF Neat, UninstallOK, HasItems, AtAppDir, Going
<1>12. KeptMenus' => "menus" \in Account(s)' \/ (KeptMenus /\ "menus" \notin Account(r))
  BY <1>6, <1>9
<1>13. \A d \in Deps : d \in Account(r) => d \in Account(s)'  BY <1>2, <1>5, <1>9, InstallAssumption
<1>14. \A f \in here' \ Foreign : Neater(r, s, f)
  BY <1>6, <1>7, <1>9, Names DEF Neater, IInv, DiskOK
<1>15. Neat(s)'  BY <1>6, <1>7, <1>9, <1>10, <1>11, <1>12, <1>13, <1>14, <1>8, NeatAfter
<1>16. QED  BY <1>1, <1>15, NeatOf

LEMMA RemoveDirNeat ==
    ASSUME NEW e \in Engines, IInv, IInv', Neat(eng[e]), RemoveDir(e)
    PROVE  Neat(eng[e])'
<1> DEFINE r == eng[e]
<1>1. PICK s \in EngineStates : s = eng'[e]  BY DEF IInv
<1>2. PICK d \in r.items \ {"menus"} :
        IF Owned(d)
        THEN eng' = [eng EXCEPT ![e].pc = "rm", ![e].doomed = d, ![e].next = "dirs", ![e].items = r.items \ {d}]
        ELSE eng' = [eng EXCEPT ![e].items = r.items \ {d}, ![e].bad = @ \/ d \in here]
  BY DEF RemoveDir
<1>3. r \in EngineStates /\ r.pc = "dirs" /\ UNCHANGED <<disk, cuts, amiss>>
  BY DEF IInv, RemoveDir, At, bounds
<1>4. /\ s.created = r.created /\ s.items = r.items \ {d} /\ s.plan = r.plan /\ s.cmd = r.cmd
      /\ s.noting = r.noting /\ s.end = r.end
      /\ \/ s.pc = "rm" /\ s.next = "dirs" /\ s.doomed = d
         \/ s.pc = "dirs" /\ s.next = r.next /\ ~Owned(d)
  <2>1. CASE Owned(d)
    <3>1. s = [r EXCEPT !.pc = "rm", !.doomed = d, !.next = "dirs", !.items = r.items \ {d}]
      BY <1>1, <1>2, <2>1 DEF IInv
    <3>2. QED  BY <1>3, <3>1 DEF EngineStates
  <2>2. CASE ~Owned(d)
    <3>1. PICK bad : bad = (r.bad \/ d \in here)  OBVIOUS
    <3>2. s = [r EXCEPT !.items = r.items \ {d}, !.bad = bad]
      BY <1>1, <1>2, <2>2, <3>1 DEF IInv
    <3>3. QED  BY <1>3, <2>2, <3>2 DEF EngineStates
  <2>3. QED  BY <2>1, <2>2
<1>5. HasItems(s) /\ ~Listing(s) /\ ~AtRest(s) /\ HasItems(r) /\ ~Listing(r) /\ ~AtRest(r) /\ r.pc \notin Ends
  BY <1>3, <1>4 DEF HasItems, Listing, AtRest, AtFile, Ends
<1>6. /\ Account(r) = r.items /\ Excuse(r) = {} /\ Account(s) = Going(s) \cup (r.items \ {d})
      /\ Going(r) = {} /\ (Owned(d) => Going(s) = {d})
  BY <1>3, <1>4, <1>5 DEF Account, Going, Excuse
<1>7. ListsOK(s)  BY <1>4, <1>5, PlainLists DEF Neat
<1>8. UninstallOK(s)
  <2>1. s.pc \notin {"remove", "removed", "rmdir", "gone", "unlink"}  BY <1>4
  <2>2. ASSUME s.cmd = "uninstall"
        PROVE  /\ KeptMenus /\ "menus" \in lines => "menus" \in s.items
               /\ \A x \in Deps : Ours(x) /\ x \in lines => x \in s.items \cup Going(s)
    <3>1. /\ KeptMenus /\ "menus" \in lines => "menus" \in r.items
          /\ \A x \in Deps : Ours(x) /\ x \in lines => x \in r.items
      BY <1>3, <1>4, <1>5, <1>6, <2>2 DEF Neat, UninstallOK
    <3>2. QED  BY <1>2, <1>4, <1>6, <3>1 DEF Ours
  <2>3. QED  BY <1>5, <2>1, <2>2 DEF UninstallOK
<1>9. \A x \in Account(r) : x \in Account(s) \/ (x # "menus" /\ ~Ours(x))
  BY <1>2, <1>6 DEF Ours
<1>10. Neat(s)'  BY <1>3, <1>6, <1>7, <1>8, <1>9, NeatStill
<1>11. QED  BY <1>1, <1>10, NeatOf

LEMMA RemoveAppDirNeat ==
    ASSUME NEW e \in Engines, IInv, IInv', Neat(eng[e]), RemoveAppDir(e)
    PROVE  Neat(eng[e])'
<1> DEFINE r == eng[e]
<1>1. PICK s \in EngineStates : s = eng'[e]  BY DEF IInv
<1>2. r \in EngineStates /\ r.pc = "dirs" /\ r.items \subseteq {"menus"} /\ UNCHANGED <<disk, cuts, amiss>>
  BY DEF IInv, RemoveAppDir, At, bounds
<1>3. /\ s.created = r.created /\ s.items = r.items /\ s.plan = r.plan /\ s.cmd = r.cmd
      /\ s.noting = r.noting /\ s.end = r.end
      /\ \/ s.pc = "rm" /\ s.next = "rmdir" /\ s.doomed = "app"
         \/ s.pc = "rmdir" /\ s.bad
  <2>1. CASE Owned("app")
    <3>1. s = [r EXCEPT !.pc = "rm", !.doomed = "app", !.next = "rmdir"]
      BY <1>1, <2>1 DEF RemoveAppDir, Removing, IInv
    <3>2. QED  BY <1>2, <3>1 DEF EngineStates
  <2>2. CASE ~Owned("app")
    <3>1. s = [r EXCEPT !.pc = "rmdir", !.bad = TRUE]
      BY <1>1, <2>2 DEF RemoveAppDir, IInv
    <3>2. QED  BY <1>2, <3>1 DEF EngineStates
  <2>3. QED  BY <2>1, <2>2
<1>4. /\ AtAppDir(s) /\ HasItems(s) /\ ~Listing(s) /\ HasItems(r) /\ ~Listing(r) /\ ~AtRest(r)
      /\ r.pc \notin Ends
  BY <1>2, <1>3 DEF AtAppDir, HasItems, Listing, AtRest, AtFile, Ends
<1>5. Account(r) \subseteq Account(s) /\ Excuse(r) = {} /\ Going(r) = {}
  BY <1>2, <1>3, <1>4 DEF Account, Going, Excuse, AtRest, Ends
<1>6. ListsOK(s)  BY <1>2, <1>3, <1>4, PlainLists DEF Neat
<1>7. UninstallOK(s)
  <2>1. s.cmd = "uninstall" => /\ KeptMenus /\ "menus" \in lines => "menus" \in s.items
                               /\ \A x \in Deps : ~(Ours(x) /\ x \in lines)
    BY <1>2, <1>3, <1>4, <1>5, InstallAssumption DEF Neat, UninstallOK
  <2>2. QED  BY <1>3, <1>4, <2>1 DEF UninstallOK, Ends
<1>8. Neat(s)'  BY <1>2, <1>5, <1>6, <1>7, NeatStill
<1>9. QED  BY <1>1, <1>8, NeatOf

LEMMA RemoveEndsNeat ==
    ASSUME NEW e \in Engines, IInv, IInv', Left(eng[e]), Neat(eng[e]), RemoveEnds(e)
    PROVE  Neat(eng[e])'
<1> DEFINE r == eng[e]
<1>1. PICK s \in EngineStates : s = eng'[e]  BY DEF IInv
<1>2. r \in EngineStates /\ r.pc = "gone" /\ UNCHANGED <<disk, cuts, amiss>>
  BY DEF IInv, RemoveEnds, At
<1>3. /\ AtAppDir(r) /\ ~HasItems(r) /\ ~Listing(r) /\ ~AtRest(r) /\ r.pc \notin Ends
      /\ Going(r) = {} /\ Excuse(r) = {}
  BY <1>2 DEF AtAppDir, HasItems, Listing, AtRest, AtFile, Ends, Going, Excuse
<1>4. r.items = {} /\ Account(r) = {}  BY <1>2, <1>3 DEF Neat, ListsOK, Account
<1>5. CASE FailsAs(e, "failed")
  BY <1>2, <1>3, <1>5, FailsNeat
<1>6. ASSUME NEW pc \in {"list", "refused", "removed"}, Goes(e, pc),
             pc = "list" => r.cmd # "uninstall",
             pc = "removed" => r.cmd = "uninstall" /\ ~r.bad
      PROVE  Neat(eng[e])'
  <2>1. /\ s.created = r.created /\ s.items = {} /\ s.plan = r.plan /\ s.cmd = r.cmd
        /\ s.noting = r.noting /\ s.end = r.end /\ s.next = r.next /\ s.pc = pc
    BY <1>1, <1>2, <1>4, <1>6 DEF Goes, EngineStates, IInv
  <2>2. ~Listing(s) /\ ~HasItems(s) /\ ~AtAppDir(s) /\ Going(s) = {}
    BY <2>1 DEF Listing, HasItems, AtAppDir, AtFile, Going
  <2>3. ListsOK(s)  BY <1>3, <1>6, <2>1, <2>2, PlainLists DEF Neat
  <2>4. UninstallOK(s)
    <3>1. CASE pc = "list"  BY <1>6, <2>1, <3>1 DEF UninstallOK
    <3>2. CASE pc = "refused"  BY <2>1, <2>2, <3>2 DEF UninstallOK, Ends
    <3>3. CASE pc = "removed"
      <4>1. /\ "app" \notin here \/ "app" \in amiss
            /\ ~(KeptMenus /\ "menus" \in lines)
            /\ \A x \in Deps : ~(Ours(x) /\ x \in lines)
        BY <1>2, <1>3, <1>4, <1>6, <3>3 DEF Neat, UninstallOK
      <4>2. QED  BY <2>1, <2>2, <3>3, <4>1 DEF UninstallOK, Ends
    <3>4. QED  BY <3>1, <3>2, <3>3
  <2>5. Neat(s)'  BY <1>2, <1>3, <1>4, <2>3, <2>4, NeatStill
  <2>6. QED  BY <1>1, <2>5, NeatOf
<1>7. QED  BY <1>5, <1>6 DEF RemoveEnds

LEMMA RmFileNeat ==
    ASSUME NEW e \in Engines, IInv, IInv', Neat(eng[e]), RmFile(e)
    PROVE  Neat(eng[e])'
<1> DEFINE r == eng[e]
<1>1. PICK s \in EngineStates : s = eng'[e]  BY DEF IInv
<1>2. /\ s = r /\ r.pc = "rm" /\ UNCHANGED <<here, lines, menus, cuts, amiss>>
  BY <1>1 DEF RmFile, At, bounds
<1>3. PICK x \in files[r.doomed] : files' = [files EXCEPT ![r.doomed] = @ \ {x}]
  BY DEF RmFile
<1>4. \A f \in Folders : /\ Owned(f)' => Owned(f)
                         /\ f # r.doomed => (Owned(f)' <=> Owned(f))
  BY <1>2, <1>3 DEF Owned, IInv, DiskOK
<1>5. ~AtRest(r) /\ r.pc \notin {"remove", "marker", "last"} /\ r.doomed \in Excuse(r)
  BY <1>2 DEF AtRest, Ends, Excuse
<1>6. ListsOK(s)'  BY <1>2, <1>5 DEF Neat, ListsOK
<1>7. UninstallOK(s)'
  BY <1>2, <1>4, <1>5 DEF Neat, UninstallOK, Folders, Ours, KeptMenus
<1>8. Account(s)' = Account(r)  BY <1>2, <1>5 DEF Account
<1>9. KeptMenus' => "menus" \in Account(s)' \/ (KeptMenus /\ "menus" \notin Account(r))
  BY <1>2, <1>8 DEF KeptMenus
<1>10. \A d \in Deps : Ours(d)' => d \in Account(s)' \/ (Ours(d) /\ d \notin Account(r))
  BY <1>4, <1>8, <1>2 DEF Folders, Ours
<1>11. \A f \in here' \ Foreign : Neater(r, s, f)
  BY <1>2, <1>4, <1>5 DEF IInv, DiskOK, Neater
<1>12. Neat(s)'  BY <1>2, <1>6, <1>7, <1>9, <1>10, <1>11, NeatAfter
<1>13. QED  BY <1>1, <1>12, NeatOf

LEMMA RmFolderNeat ==
    ASSUME NEW e \in Engines, IInv, IInv', Left(eng[e]), Neat(eng[e]), RmFolder(e)
    PROVE  Neat(eng[e])'
<1> DEFINE r == eng[e]
<1>1. PICK s \in EngineStates : s = eng'[e]  BY DEF IInv
<1>2. /\ r \in EngineStates /\ RunOK(r) /\ r.pc = "rm" /\ s = [r EXCEPT !.pc = r.next, !.doomed = "none"]
      /\ files[r.doomed] = {} /\ here' = here \ {r.doomed} /\ UNCHANGED <<files, lines, menus, cuts>>
  BY <1>1 DEF IInv, RmFolder, At, Works
<1>3. /\ r.doomed \in Folders /\ r.doomed \notin amiss'
       /\ \A f \in Folders \cup {"menus"} : f # r.doomed => (f \in amiss' <=> f \in amiss)
  BY <1>2, Names DEF RunOK, RmFolder, Works, Folders
<1>4. /\ s.created = r.created /\ s.items = r.items /\ s.plan = r.plan /\ s.cmd = r.cmd
      /\ s.noting = r.noting /\ s.end = r.end /\ s.next = r.next /\ s.pc = r.next /\ s.bad = r.bad
      /\ s.pc \in {"rmdir", "dirs", "mkfile", "rollback"} /\ r.doomed \in Folders
  BY <1>2 DEF EngineStates, RunOK, Neat, ListsOK
<1>5. \A f : Owned(f)' <=> Owned(f) /\ f # r.doomed  BY <1>2 DEF Owned
<1>6. ~Owned(r.doomed)  BY <1>2 DEF Owned
<1>7. (KeptMenus' <=> KeptMenus) /\ \A d \in Deps : Ours(d)' <=> Ours(d) /\ d # r.doomed
  BY <1>2, <1>3, <1>5, Names DEF KeptMenus, Ours, Folders
<1>8. /\ ~AtRest(r) /\ ~AtRest(s) /\ Going(r) = {r.doomed} /\ Going(s) = {} /\ Unlisted(r) = {} /\ Unlisted(s) = {}
      /\ Listed(s) = Listed(r) /\ (Listing(s) <=> Listing(r)) /\ (HasItems(s) <=> HasItems(r))
      /\ (AtAppDir(s) <=> AtAppDir(r)) /\ (RollingBack(s) <=> RollingBack(r))
      /\ r.pc \notin Ends /\ s.pc \notin Ends
  BY <1>2, <1>4 DEF AtRest, Ends, Going, Unlisted, Listed, Listing, HasItems, AtAppDir, RollingBack
<1>9. ListsOK(s)'
  BY <1>2, <1>4, <1>8 DEF Neat, ListsOK, HasItems
<1>10. UninstallOK(s)'
  <2>1. CASE s.cmd # "uninstall"  BY <2>1 DEF UninstallOK
  <2>2. CASE s.cmd = "uninstall"
    <3>1. HasItems(r) \/ AtAppDir(r)  BY <1>2, <1>4, <1>8, <2>2 DEF Neat, UninstallOK
    <3>2. /\ KeptMenus /\ "menus" \in lines => "menus" \in r.items
          /\ \A d \in Deps : Ours(d) /\ d \in lines => d \in r.items \cup {r.doomed}
      BY <1>2, <1>4, <1>8, <2>2, <3>1 DEF Neat, UninstallOK
    <3>3. s.pc = "rmdir" => r.doomed = "app"  BY <1>2, <1>4 DEF Neat, ListsOK
    <3>4. QED  BY <1>2, <1>4, <1>7, <1>8, <3>1, <3>2, <3>3 DEF UninstallOK
  <2>3. QED  BY <2>1, <2>2
<1>11. /\ Account(s)' = IF Listing(r) THEN Listed(r) ELSE r.items
       /\ Account(r) = {r.doomed} \cup Account(s)'
  BY <1>4, <1>8 DEF Account
<1>12. KeptMenus' => "menus" \in Account(s)' \/ (KeptMenus /\ "menus" \notin Account(r))
  BY <1>4, <1>7, <1>11, Names
<1>13. \A d \in Deps : Ours(d)' => d \in Account(s)' \/ (Ours(d) /\ d \notin Account(r))
  BY <1>7, <1>11
<1>14. Excuse(r) \subseteq {r.doomed} \cup Excuse(s)
  BY <1>2, <1>4, <1>8 DEF Excuse
<1>15. \A f \in here' \ Foreign : Neater(r, s, f)
  BY <1>2, <1>3, <1>5, <1>14 DEF Neater, IInv, DiskOK
<1>16. Neat(s)'  BY <1>2, <1>9, <1>10, <1>12, <1>13, <1>15, NeatAfter
<1>17. QED  BY <1>1, <1>16, NeatOf

LEMMA RmFailsNeat ==
    ASSUME NEW e \in Engines, IInv, IInv', Left(eng[e]), Neat(eng[e]), RmFails(e)
    PROVE  Neat(eng[e])'
<1> DEFINE r == eng[e]
<1>1. PICK s \in EngineStates : s = eng'[e]  BY DEF IInv
<1>2. /\ r \in EngineStates /\ RunOK(r) /\ r.pc = "rm" /\ s = [r EXCEPT !.pc = r.next, !.doomed = "none"]
      /\ UNCHANGED <<here, files, lines, menus, cuts>> /\ amiss' = amiss \cup {r.doomed}
  BY <1>1 DEF IInv, RmFails, At, Slips, disk
<1>3. r.doomed \in Folders  BY <1>2 DEF RunOK
<1>4. /\ s.created = r.created /\ s.items = r.items /\ s.plan = r.plan /\ s.cmd = r.cmd
      /\ s.noting = r.noting /\ s.end = r.end /\ s.next = r.next /\ s.pc = r.next /\ s.bad = r.bad
      /\ s.pc \in {"rmdir", "dirs", "mkfile", "rollback"} /\ r.doomed \in Folders
  BY <1>2 DEF EngineStates, RunOK, Neat, ListsOK
<1>5. \A f : Owned(f)' <=> Owned(f)  BY <1>2 DEF Owned
<1>6. (KeptMenus' <=> KeptMenus) /\ \A d \in Deps : Ours(d)' <=> Ours(d) /\ d # r.doomed
  BY <1>2, <1>3, <1>5, Names DEF KeptMenus, Ours, Folders
<1>7. /\ ~AtRest(r) /\ ~AtRest(s) /\ Going(r) = {r.doomed} /\ Going(s) = {} /\ Unlisted(r) = {} /\ Unlisted(s) = {}
      /\ Listed(s) = Listed(r) /\ (Listing(s) <=> Listing(r)) /\ (HasItems(s) <=> HasItems(r))
      /\ (AtAppDir(s) <=> AtAppDir(r)) /\ (RollingBack(s) <=> RollingBack(r))
      /\ r.pc \notin Ends /\ s.pc \notin Ends
  BY <1>2, <1>4 DEF AtRest, Ends, Going, Unlisted, Listed, Listing, HasItems, AtAppDir, RollingBack
<1>8. ListsOK(s)'
  BY <1>2, <1>4, <1>7 DEF Neat, ListsOK, HasItems
<1>9. UninstallOK(s)'
  <2>1. CASE s.cmd # "uninstall"  BY <2>1 DEF UninstallOK
  <2>2. CASE s.cmd = "uninstall"
    <3>1. HasItems(r) \/ AtAppDir(r)  BY <1>2, <1>4, <1>7, <2>2 DEF Neat, UninstallOK
    <3>2. /\ KeptMenus /\ "menus" \in lines => "menus" \in r.items
          /\ \A d \in Deps : Ours(d) /\ d \in lines => d \in r.items \cup {r.doomed}
      BY <1>2, <1>4, <1>7, <2>2, <3>1 DEF Neat, UninstallOK
    <3>3. s.pc = "rmdir" => r.doomed = "app"  BY <1>2, <1>4 DEF Neat, ListsOK
    <3>4. QED  BY <1>2, <1>4, <1>6, <1>7, <3>1, <3>2, <3>3 DEF UninstallOK
  <2>3. QED  BY <2>1, <2>2
<1>10. /\ Account(s)' = IF Listing(r) THEN Listed(r) ELSE r.items
       /\ Account(r) = {r.doomed} \cup Account(s)'
  BY <1>4, <1>7 DEF Account
<1>11. KeptMenus' => "menus" \in Account(s)' \/ (KeptMenus /\ "menus" \notin Account(r))
  BY <1>4, <1>6, <1>10, Names
<1>12. \A d \in Deps : Ours(d)' => d \in Account(s)' \/ (Ours(d) /\ d \notin Account(r))
  BY <1>6, <1>10
<1>13. Excuse(r) \subseteq {r.doomed} \cup Excuse(s)
  BY <1>2, <1>4, <1>7 DEF Excuse
<1>14. \A f \in here' \ Foreign : Neater(r, s, f)
  BY <1>2, <1>5, <1>13 DEF Neater, IInv, DiskOK
<1>15. Neat(s)'  BY <1>2, <1>8, <1>9, <1>11, <1>12, <1>14, NeatAfter
<1>16. QED  BY <1>1, <1>15, NeatOf

----------------------------------------------------------------------------
(* Installing *)

LEMMA NotUninstall == ASSUME NEW r, UninstallOK(r), Listing(r) \/ r.pc = "list"  PROVE r.cmd # "uninstall"
  BY DEF UninstallOK, Listing, HasItems, AtAppDir, Ends

\* A step of a run that has a list and keeps it: the list, with what is made
\* and not yet on it, grows, and what is owned is on it or was owned before.
LEMMA InstallStep ==
    ASSUME NEW e \in Engines, IInv', Left(eng[e]), Neat(eng[e]), cuts' = cuts,
           NEW s, s = eng'[e], Listing(eng[e]), Listing(s), eng[e].pc # "rm",
           s.noting = eng[e].noting, s.cmd = eng[e].cmd, s.items = eng[e].items, s.plan = eng[e].plan,
           s.end = eng[e].end,
           Listed(s) \subseteq ToSet(s.plan) \cup {"app", "menus"},
           "menus" \in Listed(s) => s.pc \in {"manifest", "marker", "last"} \/ RollingBack(s),
           s.pc \in {"marker", "last"} => "manifest" \in files'["app"] /\ ToSet(s.plan) \cup {"menus"} \subseteq lines',
           Listed(eng[e]) \cup Unlisted(eng[e]) \subseteq Going(s) \cup Listed(s) \cup Unlisted(s),
           KeptMenus' => KeptMenus \/ "menus" \in Unlisted(s),
           \A d \in Deps : Ours(d)' => Ours(d) \/ d \in Listed(s),
           \A f \in here' \ Foreign : Neater(eng[e], s, f)
    PROVE  Neat(eng[e])'
<1> DEFINE r == eng[e]
<1>1. r.noting /\ s.cmd # "uninstall"  BY NotUninstall DEF Left, Neat
<1>2. /\ ~HasItems(r) /\ ~HasItems(s) /\ ~AtRest(r) /\ ~AtRest(s) /\ r.pc \notin Ends /\ s.pc \notin Ends
      /\ Going(r) = {}
  BY DEF Listing, HasItems, AtRest, Ends, Going
<1>3. s.items = {}  BY <1>2 DEF Neat, ListsOK
<1>4. s.pc = "rm" => s.next \notin {"idle", "dirs", "rmdir"}  BY DEF Listing
<1>5. s.pc \notin {"dirs", "rmdir"}  BY DEF Listing
<1>6. ListsOK(s)'
  BY <1>1, <1>2, <1>3, <1>4, <1>5 DEF ListsOK, Ends
<1>7. UninstallOK(s)'  BY <1>1 DEF UninstallOK
<1>8. /\ Account(r) = Listed(r) \cup Unlisted(r)
      /\ Account(s)' = Going(s) \cup Listed(s) \cup Unlisted(s)
  BY <1>2 DEF Account
<1>9. KeptMenus' => "menus" \in Account(s)' \/ (KeptMenus /\ "menus" \notin Account(r))  BY <1>8
<1>10. \A d \in Deps : Ours(d)' => d \in Account(s)' \/ (Ours(d) /\ d \notin Account(r))
  BY <1>8
<1>11. Neat(s)'  BY <1>6, <1>7, <1>9, <1>10, NeatAfter
<1>12. QED  BY <1>11, NeatOf

LEMMA StartListNeat ==
    ASSUME NEW e \in Engines, IInv, IInv', Neat(eng[e]), StartList(e)
    PROVE  Neat(eng[e])'
<1> DEFINE r == eng[e]
<1>1. PICK s \in EngineStates : s = eng'[e]  BY DEF IInv
<1>2. /\ r \in EngineStates /\ r.pc = "list" /\ s = [r EXCEPT !.noting = TRUE, !.pc = "mkdir"]
      /\ UNCHANGED <<disk, cuts, amiss>>
  BY <1>1 DEF IInv, StartList, At, bounds
<1>3. /\ s.created = r.created /\ s.items = r.items /\ s.plan = r.plan /\ s.cmd = r.cmd /\ s.noting
      /\ s.end = r.end /\ s.pc = "mkdir"
  BY <1>2 DEF EngineStates
<1>4. /\ Listing(s) /\ ~HasItems(s) /\ ~Listing(r) /\ ~HasItems(r) /\ ~AtRest(r) /\ r.pc \notin Ends
      /\ Going(r) = {} /\ Excuse(r) = {} /\ r.cmd # "uninstall"
  BY <1>2, <1>3, NotUninstall DEF Listing, HasItems, AtRest, AtFile, Ends, Going, Excuse, Neat
<1>5. r.items = {} /\ r.created = <<>>  BY <1>4 DEF Neat, ListsOK
<1>6. ListsOK(s)  BY <1>3, <1>4, <1>5, NoneListed DEF ListsOK
<1>7. UninstallOK(s)  BY <1>3, <1>4 DEF UninstallOK
<1>8. Account(r) = {}  BY <1>4, <1>5 DEF Account
<1>9. Neat(s)'  BY <1>2, <1>4, <1>6, <1>7, <1>8, NeatStill
<1>10. QED  BY <1>1, <1>9, NeatOf

\* mkdir, and the menu entries.
LEMMA MakesNeat ==
    ASSUME NEW e \in Engines, IInv, IInv', Left(eng[e]), Neat(eng[e]),
           MakeApp(e) \/ MakeFile(e) \/ (Menus(e) /\ ~(Mac /\ menus))
    PROVE  Neat(eng[e])'
<1> DEFINE r == eng[e]
<1>1. PICK s \in EngineStates : s = eng'[e]  BY DEF IInv
<1>2. PICK x, pc : /\ s = [r EXCEPT !.made = @ \cup {x}, !.pc = pc]
                   /\ here' = here \cup ({x} \ {"menus"}) /\ x \notin here
                   /\ KeptMenus' => KeptMenus \/ x = "menus"
                   /\ amiss' \ {"menus"} = amiss \ {"menus"}
                   /\ \/ r.pc = "mkdir" /\ x = "app" /\ pc = "note"
                      \/ r.pc = "mkfile" /\ x = r.plan[r.i] /\ pc = "notefile"
                      \/ r.pc = "menus" /\ x = "menus" /\ pc = "notemenus"
  <2>1. CASE MakeApp(e)
    BY <1>1, <2>1 DEF MakeApp, Makes, At, IInv, bounds, KeptMenus
  <2>2. CASE MakeFile(e)
    <3>1. File(e) # "menus"
      BY <2>2, Names, InstallAssumption DEF MakeFile, At, File, IInv, RunOK, AtFile, EngineStates
    <3>2. QED  BY <1>1, <2>2, <3>1 DEF MakeFile, Makes, At, IInv, File, bounds, KeptMenus
  <2>3. CASE Menus(e) /\ ~(Mac /\ menus)
    <3>1. "menus" \notin here  BY Names DEF IInv, DiskOK
    <3>2. QED  BY <1>1, <2>3, <3>1 DEF Menus, Makes, Works, At, IInv, KeptMenus
  <2>4. QED  BY <2>1, <2>2, <2>3
<1>3. r \in EngineStates /\ UNCHANGED <<files, lines, cuts>>
  BY DEF IInv, MakeApp, MakeFile, Menus, Works, bounds
<1>4. /\ s.pc = pc /\ s.created = r.created /\ s.items = r.items /\ s.plan = r.plan /\ s.i = r.i
      /\ s.cmd = r.cmd /\ s.noting = r.noting /\ s.end = r.end
  BY <1>2, <1>3 DEF EngineStates
<1>5. /\ Listing(r) /\ Listing(s) /\ ~RollingBack(r) /\ r.pc \notin {"manifest", "marker", "last", "rm"}
      /\ s.pc \notin {"marker", "last"} /\ Listed(s) = Listed(r) /\ Unlisted(r) = {} /\ Unlisted(s) = {x}
      /\ Excuse(r) = {} /\ x \in Excuse(s) \cup {"menus"}
  BY <1>2, <1>4 DEF Listing, RollingBack, Listed, Unlisted, Excuse
<1>6. Listed(s) \subseteq ToSet(s.plan) \cup {"app", "menus"} /\ "menus" \notin Listed(s)
  BY <1>4, <1>5 DEF Neat, ListsOK
<1>7. \A f \in here' : f # "menus" => (Owned(f)' => Owned(f)) /\ (f # x => f \in here /\ (Owned(f) => Owned(f)'))
  <2>1. x \in Folders => files[x] = {}  BY <1>2 DEF IInv, DiskOK
  <2>2. here' \subseteq Folders  BY DEF IInv, DiskOK
  <2>3. QED  BY <1>2, <1>3, <2>1, <2>2 DEF Owned
<1>8. \A d \in Deps : Ours(d)' => Ours(d)
  BY <1>2, <1>7, InstallAssumption DEF Owned, Ours
<1>9. \A f \in here' \ Foreign : Neater(r, s, f)
  <2>1. "menus" \notin here'  BY Names DEF IInv, DiskOK
  <2>2. QED  BY <1>2, <1>5, <1>7, <2>1 DEF Neater
<1>10. QED  BY <1>1, <1>2, <1>3, <1>4, <1>5, <1>6, <1>8, <1>9, InstallStep

\* ti_created.
LEMMA NotesNeat ==
    ASSUME NEW e \in Engines, IInv, IInv', Left(eng[e]), Neat(eng[e]), NoteApp(e) \/ NoteFile(e) \/ NoteMenus(e)
    PROVE  Neat(eng[e])'
<1> DEFINE r == eng[e]
<1>1. PICK s \in EngineStates : s = eng'[e]  BY DEF IInv
<1>2. PICK x, pc : /\ s = [r EXCEPT !.created = Append(@, x), !.pc = pc]
                   /\ \/ r.pc = "note" /\ x = "app" /\ pc = "own"
                      \/ r.pc = "notefile" /\ x = r.plan[r.i] /\ pc = "ownfile"
                      \/ r.pc = "notemenus" /\ x = "menus" /\ pc = "manifest"
  <2>1. CASE NoteApp(e)  BY <1>1, <2>1 DEF NoteApp, Notes, At, IInv
  <2>2. CASE NoteFile(e)  BY <1>1, <2>2 DEF NoteFile, Notes, At, IInv, File
  <2>3. CASE NoteMenus(e)  BY <1>1, <2>3 DEF NoteMenus, Notes, At, IInv
  <2>4. QED  BY <2>1, <2>2, <2>3
<1>3. r \in EngineStates /\ RunOK(r) /\ UNCHANGED <<here, files, lines, menus, cuts, amiss>>
  BY DEF IInv, NoteApp, NoteFile, NoteMenus, disk, bounds
<1>4. /\ s.pc = pc /\ s.created = Append(r.created, x) /\ s.items = r.items /\ s.plan = r.plan /\ s.i = r.i
      /\ s.cmd = r.cmd /\ s.noting = r.noting /\ s.end = r.end
  BY <1>2, <1>3 DEF EngineStates
<1>5. Listed(s) = Listed(r) \cup {x}  BY <1>3, <1>4, Appended
<1>6. /\ Listing(r) /\ Listing(s) /\ ~RollingBack(r) /\ r.pc \notin {"manifest", "marker", "last", "rm"}
      /\ s.pc \notin {"marker", "last"} /\ Unlisted(r) = {x} /\ Excuse(r) \subseteq Excuse(s)
      /\ x = "menus" => s.pc = "manifest"
  <2>1. r.pc = "notefile" => x # "menus"
    BY <1>2, <1>3, Names, InstallAssumption DEF RunOK, AtFile, EngineStates
  <2>2. QED  BY <1>2, <1>4, <2>1 DEF Listing, RollingBack, Unlisted, Excuse
<1>7. x \in ToSet(s.plan) \cup {"app", "menus"}
  <2>1. CASE r.pc = "notefile"
    <3>1. r.i \in 1..Len(r.plan)  BY <1>3, <2>1, Names DEF RunOK, AtFile, EngineStates
    <3>2. QED  BY <1>2, <1>4, <2>1, <3>1 DEF ToSet
  <2>2. CASE r.pc # "notefile"  BY <1>2, <2>2
  <2>3. QED  BY <2>1, <2>2
<1>8. "menus" \notin Listed(r) /\ Listed(r) \subseteq ToSet(s.plan) \cup {"app", "menus"}
  BY <1>4, <1>6 DEF Neat, ListsOK
<1>9. /\ KeptMenus' <=> KeptMenus
      /\ \A d \in Deps : Ours(d)' <=> Ours(d)
      /\ \A f \in here' \ Foreign : Neater(r, s, f)
  BY <1>3, <1>6 DEF Owned, KeptMenus, Ours, Neater
<1>10. QED  BY <1>1, <1>3, <1>4, <1>5, <1>6, <1>7, <1>8, <1>9, InstallStep

\* The .ti-owner of the app's folder and of a file's, and what is put in them.
LEMMA FillsNeat ==
    ASSUME NEW e \in Engines, IInv, IInv', Left(eng[e]), Neat(eng[e]), OnDisk(eng[e]),
           \/ OwnApp(e) \/ OwnFile(e) \/ Obtain(e) \/ FillFile(e) \/ Project(e) \/ Launch(e)
           \/ Manifest(e) \/ Marker(e)
    PROVE  Neat(eng[e])'
<1> DEFINE r == eng[e]
<1>1. PICK s \in EngineStates : s = eng'[e]  BY DEF IInv
<1>2. r \in EngineStates /\ RunOK(r) /\ eng \in [Engines -> EngineStates]  BY DEF IInv
<1>3. /\ s.created = r.created /\ s.items = r.items /\ s.plan = r.plan
      /\ s.cmd = r.cmd /\ s.noting = r.noting /\ s.end = r.end
      /\ r.pc \in {"own", "ownfile", "fetch", "fill", "file", "launch", "manifest", "marker"}
      /\ s.pc \in {"file", "fetch", "fill", "launch", "menus", "marker", "last"}
      /\ s.pc \in {"marker", "last"} <=> r.pc \in {"manifest", "marker"}
      /\ menus' = menus /\ cuts' = cuts /\ amiss \subseteq amiss'
    BY <1>1, <1>2
       DEF OwnApp, OwnFile, Obtain, FillFile, Project, Launch, Manifest, Marker, At, Goes, Slips, disk, bounds,
           EngineStates
<1>4. /\ Listing(r) /\ Listing(s) /\ ~RollingBack(r) /\ Listed(s) = Listed(r)
      /\ Unlisted(r) = {} /\ Unlisted(s) = {} /\ Excuse(s) = {}
  BY <1>3 DEF Listing, RollingBack, Listed, Unlisted, Excuse
<1>5. /\ Listed(s) \subseteq ToSet(s.plan) \cup {"app", "menus"}
      /\ "menus" \in Listed(s) => s.pc \in {"marker", "last"}
  BY <1>3, <1>4 DEF Neat, ListsOK
<1>6. s.pc \in {"marker", "last"} => "manifest" \in files'["app"] /\ ToSet(s.plan) \cup {"menus"} \subseteq lines'
  <2>1. CASE Manifest(e)
    BY <1>3, <2>1, Names DEF Manifest, Puts, IInv, DiskOK
  <2>2. CASE Marker(e)
    <3>1. "manifest" \in files["app"] /\ ToSet(s.plan) \cup {"menus"} \subseteq lines
      BY <1>3, <2>2 DEF Marker, At, Neat, ListsOK
    <3>2. QED  BY <2>2, <3>1, Names DEF Marker, Puts, IInv, DiskOK
  <2>3. CASE r.pc \notin {"manifest", "marker"}  BY <1>3, <2>3
  <2>4. QED
    BY <2>1, <2>2, <2>3 DEF OwnApp, OwnFile, Obtain, FillFile, Project, Launch, At
<1>7. /\ here' = here
      /\ \A f \in Folders : Owned(f) => Owned(f)'
      /\ \A f \in Folders : Owned(f)' => Owned(f) \/ (f = "app" /\ r.pc = "own") \/ (f = r.plan[r.i] /\ r.pc = "ownfile")
      /\ r.pc = "own" => "owner" \in files'["app"]
      /\ r.pc = "ownfile" => \/ r.plan[r.i] \notin here \/ r.plan[r.i] \in amiss'
                            \/ "owner" \in files'[r.plan[r.i]]
  <2>1. CASE OwnApp(e)
    BY <2>1, Names DEF OwnApp, At, Puts, Owned, IInv, DiskOK
  <2>2. CASE OwnFile(e)
    <3>1. r.plan[r.i] \in Folders
      BY <1>2, <2>2, Names DEF OwnFile, At, RunOK, AtFile, EngineStates, Folders
    <3>2. r.pc = "ownfile" /\ here' = here  BY <2>2 DEF OwnFile, At
    <3>3. \/ r.plan[r.i] \in here /\ files' = [files EXCEPT ![r.plan[r.i]] = @ \cup {"owner"}]
          \/ files' = files /\ (r.plan[r.i] \notin here \/ r.plan[r.i] \in amiss')
      BY <2>2 DEF OwnFile, File, Puts, Slips
    <3>4. /\ \A f \in Folders : /\ files[f] \subseteq files'[f]
                                /\ f # r.plan[r.i] => files'[f] = files[f]
          /\ \/ r.plan[r.i] \notin here \/ r.plan[r.i] \in amiss'
             \/ "owner" \in files'[r.plan[r.i]]
      BY <3>1, <3>3 DEF IInv, DiskOK
    <3>5. QED  BY <3>2, <3>4 DEF Owned
  <2>3. CASE FillFile(e)
    <3>1. r.pc = "fill" /\ r.plan[r.i] \in Folders
      BY <1>2, <2>3, Names DEF FillFile, At, RunOK, AtFile, EngineStates, Folders
    <3>2. r.plan[r.i] \in here
      BY <3>1 DEF OnDisk, FilesOK, AtOwnFile
    <3>3. here' = here /\ files' = [files EXCEPT ![r.plan[r.i]] = @ \cup {"body"}]
      BY <2>3, <3>2 DEF FillFile, Filled, File
    <3>4. QED  BY <3>1, <3>3 DEF Owned, IInv, DiskOK
  <2>4. CASE Project(e)
    <3>1. r.pc = "file"  BY <2>4 DEF Project, At
    <3>2. "owner" \in files["app"]  BY <3>1 DEF OnDisk, AppOK, Begun
    <3>3. "app" \in here  BY <3>2, Names DEF IInv, DiskOK
    <3>4. here' = here /\ files' = [files EXCEPT !["app"] = @ \cup {"body"}]
      BY <2>4, <3>3 DEF Project, Filled
    <3>5. QED  BY <3>1, <3>4, Names DEF Owned, IInv, DiskOK
  <2>5. CASE Launch(e) \/ Manifest(e) \/ Marker(e)
    <3>1. r.pc \in {"launch", "manifest", "marker"} /\ here' = here
          /\ \E x \in {"launch", "manifest", "marker"} : files' = [files EXCEPT !["app"] = @ \cup {x}]
      BY <2>5 DEF Launch, Manifest, Marker, At, Puts
    <3>2. QED  BY <3>1, Names DEF Owned, IInv, DiskOK
  <2>6. CASE Obtain(e)
    BY <2>6 DEF Obtain, At, Owned, disk
  <2>7. QED  BY <2>1, <2>2, <2>3, <2>4, <2>5, <2>6
<1>8. \A d \in Deps : Ours(d)' => Ours(d) \/ d \in Listed(s)
  <2>1. r.pc = "ownfile" => r.plan[r.i] \in Listed(s)
    BY <1>4 DEF Left, FillsFile
  <2>2. QED  BY <1>3, <1>7, <2>1, InstallAssumption DEF Folders, Ours
<1>9. \A f \in here' \ Foreign : Neater(r, s, f)
  <2>1. \A f \in Excuse(r) : (r.pc = "own" /\ f = "app") \/ (r.pc = "ownfile" /\ f = r.plan[r.i])
    BY <1>3 DEF Excuse
  <2>2. \A f \in Excuse(r) : f \in here => Owned(f)' \/ f \in amiss'  BY <1>7, <2>1 DEF Owned
  <2>3. here \subseteq Folders  BY DEF IInv, DiskOK
  <2>4. QED  BY <1>3, <1>7, <2>2, <2>3 DEF Neater
<1>10. QED  BY <1>1, <1>3, <1>4, <1>5, <1>6, <1>8, <1>9, InstallStep DEF KeptMenus

LEMMA DoneNeat ==
    ASSUME NEW e \in Engines, IInv, IInv', Neat(eng[e]), Done(e)
    PROVE  Neat(eng[e])'
<1> DEFINE r == eng[e]
<1>1. PICK s \in EngineStates : s = eng'[e]  BY DEF IInv
<1>2. /\ r \in EngineStates /\ r.pc = "last" /\ s = [r EXCEPT !.pc = "done", !.noting = FALSE]
      /\ UNCHANGED <<disk, cuts, amiss>>
  BY <1>1 DEF IInv, Done, At, bounds
<1>3. /\ s.created = r.created /\ s.items = r.items /\ s.plan = r.plan /\ s.cmd = r.cmd
      /\ s.end = r.end /\ s.pc = "done"
  BY <1>2 DEF EngineStates
<1>4. /\ Listing(r) /\ ~Listing(s) /\ AtRest(s) /\ ~AtRest(r) /\ Going(r) = {} /\ Unlisted(r) = {} /\ Excuse(r) = {}
      /\ Listed(s) = Listed(r) /\ r.cmd # "uninstall"
  BY <1>2, <1>3, NotUninstall DEF Neat, Listing, AtRest, Ends, Going, Unlisted, Excuse, Listed
<1>5. ListsOK(s)  BY <1>3, <1>4 DEF Neat, ListsOK, Ends
<1>6. UninstallOK(s)  BY <1>3, <1>4 DEF UninstallOK
<1>7. Account(r) \ {"app"} \subseteq Account(s)
  BY <1>2, <1>4 DEF Account, Neat, ListsOK
<1>8. Neat(s)'  BY <1>2, <1>4, <1>5, <1>6, <1>7, NeatStill
<1>9. QED  BY <1>1, <1>8, NeatOf

\* A folder in the way of a file's is removed, or is somebody else's.
LEMMA ClearFileNeat ==
    ASSUME NEW e \in Engines, IInv, IInv', Left(eng[e]), Neat(eng[e]), ClearFile(e)
    PROVE  Neat(eng[e])'
<1> DEFINE r == eng[e]
<1>1. PICK s \in EngineStates : s = eng'[e]  BY DEF IInv
<1>2. r \in EngineStates /\ r.pc = "file" /\ UNCHANGED <<disk, cuts, amiss>>
  BY DEF IInv, ClearFile, At
<1>3. /\ Listing(r) /\ ~RollingBack(r) /\ Unlisted(r) = {} /\ Excuse(r) = {}
      /\ r.pc \notin {"note", "notefile", "notemenus", "rm"}
  BY <1>2 DEF Listing, RollingBack, Unlisted, Excuse
<1>4. CASE FailsAs(e, "blocked")  BY <1>2, <1>3, <1>4, FailsNeat
<1>5. CASE Goes(e, "mkfile") \/ Removing(e, File(e), "mkfile")
  <2>1. /\ s.created = r.created /\ s.items = r.items /\ s.plan = r.plan
        /\ s.cmd = r.cmd /\ s.noting = r.noting /\ s.end = r.end
        /\ s.pc = "mkfile" \/ (s.pc = "rm" /\ s.next = "mkfile")
    BY <1>1, <1>2, <1>5 DEF Goes, Removing, EngineStates, IInv
  <2>2. Listing(s) /\ Listed(s) = Listed(r)  BY <2>1 DEF Listing, Listed
  <2>3. Listed(r) \subseteq ToSet(s.plan) \cup {"app", "menus"} /\ "menus" \notin Listed(s)
    BY <1>2, <1>3, <2>1, <2>2 DEF Neat, ListsOK
  <2>4. /\ KeptMenus' <=> KeptMenus
        /\ \A d \in Deps : Ours(d)' <=> Ours(d)
        /\ \A f \in here' \ Foreign : Neater(r, s, f)
    BY <1>2, <1>3 DEF Owned, KeptMenus, Ours, Neater, disk
  <2>5. s.pc \notin {"marker", "last"}  BY <2>1
  <2>6. QED  BY <1>1, <1>2, <1>3, <2>1, <2>2, <2>3, <2>4, <2>5, InstallStep
<1>6. QED  BY <1>4, <1>5 DEF ClearFile

\* A step fails; or menu entries are in the way.
LEMMA StepFailsNeat ==
    ASSUME NEW e \in Engines, IInv, IInv', Left(eng[e]), Neat(eng[e]), StepFails(e) \/ (Menus(e) /\ Mac /\ menus)
    PROVE  Neat(eng[e])'
<1> DEFINE r == eng[e]
<1>1. PICK end \in {"failed", "blocked"} : FailsAs(e, end)
  BY DEF StepFails, Menus, At
<1>2. /\ r.pc \in {"needs", "existing"} \/ (Listing(r) /\ r.pc \notin {"note", "notefile", "notemenus", "rm"})
      /\ r.pc = "own" \/ Excuse(r) = {}
      /\ UNCHANGED <<disk, cuts, amiss>>
  BY DEF StepFails, Menus, At, Listing, Excuse, disk
<1>3. QED  BY <1>1, <1>2, FailsNeat

----------------------------------------------------------------------------
(* Taking back, and being cut off *)

LEMMA ShortenedIn ==
    ASSUME NEW r \in EngineStates, r.created # <<>>, NEW s, s.created = Front(r.created)
    PROVE  Listed(s) \subseteq Listed(r)
<1>1. r.created \in Seq(Things) /\ Len(r.created) \in Nat /\ Len(r.created) >= 1  BY DEF EngineStates
<1>2. /\ Len(s.created) = Len(r.created) - 1
      /\ \A k \in 1..(Len(r.created) - 1) : s.created[k] = r.created[k]
  BY <1>1 DEF Front
<1>3. QED  BY <1>1, <1>2 DEF Listed

LEMMA RollbackNeat ==
    ASSUME NEW e \in Engines, IInv, IInv', Left(eng[e]), Neat(eng[e]), Rollback(e)
    PROVE  Neat(eng[e])'
<1> DEFINE r == eng[e]
<1>1. PICK s \in EngineStates : s = eng'[e]  BY DEF IInv
<1>2. /\ r \in EngineStates /\ r.pc = "rollback" /\ r.end \in {"failed", "blocked"}
      /\ UNCHANGED <<here, files, lines, cuts>> /\ (KeptMenus' => KeptMenus)
      /\ amiss' \ {"menus"} = amiss \ {"menus"}
  BY DEF IInv, Rollback, At, RunOK, EngineStates, Works, Slips, bounds, KeptMenus
<1>3. /\ Listing(r) /\ ~AtRest(r) /\ ~HasItems(r) /\ r.pc \notin Ends /\ Unlisted(r) = {} /\ Going(r) = {}
      /\ Excuse(r) = Listed(r) /\ r.cmd # "uninstall" /\ r.noting
  BY <1>2, NotUninstall DEF Left, Neat, Listing, AtRest, HasItems, Ends, Unlisted, Going, Excuse
<1>4. Account(r) = Listed(r) /\ Listed(r) \subseteq ToSet(r.plan) \cup {"app", "menus"} /\ r.items = {}
  BY <1>3 DEF Account, Neat, ListsOK
<1>5. (\A f : Owned(f)' <=> Owned(f)) /\ \A d \in Deps : Ours(d)' <=> Ours(d)
  BY <1>2, InstallAssumption DEF Owned, Ours
<1>6. CASE r.created = <<>>
  <2>1. s = [r EXCEPT !.pc = r.end, !.noting = FALSE] /\ menus' = menus /\ amiss' = amiss
    BY <1>1, <1>6 DEF Rollback, IInv, bounds
  <2>2. /\ s.pc = r.end /\ s.created = r.created /\ s.plan = r.plan /\ s.cmd = r.cmd /\ s.end = r.end
        /\ s.items = r.items
    BY <1>2, <2>1 DEF EngineStates
  <2>3. Listed(r) = {} /\ Listed(s) = {}  BY <1>6, <2>2, NoneListed
  <2>4. s.pc \in Ends /\ ~Listing(s) /\ ~HasItems(s) /\ s.pc \notin {"removed", "dirs", "rmdir", "rm", "marker", "last"}
    BY <1>2, <2>2 DEF Ends, Listing, HasItems
  <2>5. ListsOK(s)  BY <2>3, <2>4 DEF ListsOK
  <2>6. UninstallOK(s)  BY <1>3, <2>2 DEF UninstallOK
  <2>7. UNCHANGED <<disk, cuts, amiss>>  BY <1>2, <2>1 DEF disk
  <2>8. Neat(s)'  BY <1>3, <1>4, <2>3, <2>5, <2>6, <2>7, NeatStill
  <2>9. QED  BY <1>1, <2>8, NeatOf
<1>7. CASE r.created # <<>>
  <2>1. \/ s = [r EXCEPT !.created = Front(@)] /\ Last(r.created) = "menus" /\ ~KeptMenus'
        \/ s = [r EXCEPT !.created = Front(@), !.pc = "rm", !.doomed = Last(r.created), !.next = "rollback"]
    BY <1>1, <1>7 DEF Rollback, Slips, KeptMenus, IInv
  <2>2. /\ s.created = Front(r.created) /\ s.plan = r.plan /\ s.cmd = r.cmd /\ s.end = r.end /\ s.items = r.items
        /\ s.noting
        /\ \/ s.pc = "rollback" /\ Last(r.created) = "menus" /\ ~KeptMenus'
           \/ s.pc = "rm" /\ s.next = "rollback" /\ s.doomed = Last(r.created)
    <3>1. CASE s = [r EXCEPT !.created = Front(@)] /\ Last(r.created) = "menus" /\ ~KeptMenus'
      BY <1>2, <1>3, <3>1 DEF EngineStates
    <3>2. CASE s = [r EXCEPT !.created = Front(@), !.pc = "rm", !.doomed = Last(r.created), !.next = "rollback"]
      BY <1>2, <1>3, <3>2 DEF EngineStates
    <3>3. QED  BY <2>1, <3>1, <3>2
  <2>3. Listed(r) \subseteq Listed(s) \cup {Last(r.created)} /\ Listed(s) \subseteq Listed(r)
    BY <1>2, <1>7, <2>2, Shortened, ShortenedIn
  <2>4. /\ Listing(s) /\ RollingBack(s) /\ ~HasItems(s) /\ ~AtRest(s) /\ s.pc \notin {"removed", "dirs", "marker", "last"}
        /\ s.pc \notin Ends
    BY <2>2 DEF Listing, RollingBack, HasItems, AtRest, Ends
  <2>5. ListsOK(s)'  BY <1>4, <2>2, <2>3, <2>4 DEF ListsOK
  <2>6. UninstallOK(s)'  BY <1>3, <2>2 DEF UninstallOK
  <2>7. Listed(r) \subseteq Account(s)' \cup (IF KeptMenus' THEN {} ELSE {"menus"})
    BY <2>2, <2>3, <2>4 DEF Account, Going
  <2>8. KeptMenus' => "menus" \in Account(s)' \/ (KeptMenus /\ "menus" \notin Account(r))
    BY <1>2, <1>4, <2>7
  <2>9. \A d \in Deps : Ours(d)' => d \in Account(s)' \/ (Ours(d) /\ d \notin Account(r))
    BY <1>4, <1>5, <2>7, InstallAssumption
  <2>10. Listed(r) \subseteq Excuse(s) \cup {"menus"}
    BY <2>2, <2>3 DEF Excuse
  <2>11. \A f \in here' \ Foreign : Neater(r, s, f)
    <3>1. "menus" \notin here'  BY Names DEF IInv, DiskOK
    <3>2. QED  BY <1>2, <1>3, <1>5, <2>10, <3>1 DEF Neater
  <2>12. Neat(s)'  BY <1>2, <2>5, <2>6, <2>8, <2>9, <2>11, NeatAfter
  <2>13. QED  BY <1>1, <2>12, NeatOf
<1>8. QED  BY <1>6, <1>7

\* Once a run was cut off only what the manifest lists is accounted for.
LEMMA CutNeat ==
    ASSUME NEW e \in Engines, IInv, IInv', Left(eng[e]), Neat(eng[e]), Interrupt(e) \/ Kill(e) \/ KillManifest(e)
    PROVE  Neat(eng[e])'
<1> DEFINE r == eng[e]
<1>1. PICK s \in EngineStates : s = eng'[e]  BY DEF IInv
<1>2. r \in EngineStates /\ cuts' # 0 /\ eng \in [Engines -> EngineStates]
  BY DEF IInv, BoundsOK, Interrupt, Kill, KillManifest
<1>3. CASE Kill(e) \/ KillManifest(e)
  <2>1. s.pc = "killed" /\ s.created = r.created /\ s.plan = r.plan
    BY <1>1, <1>2, <1>3 DEF Kill, KillManifest, Goes, EngineStates
  <2>2. ~Listing(s) /\ ~HasItems(s) /\ ~AtAppDir(s) /\ s.pc \in Ends /\ Listed(s) = Listed(r)
    BY <2>1 DEF Listing, HasItems, AtAppDir, Ends, Listed
  <2>3. ListsOK(s)'  BY <2>1, <2>2 DEF Neat, ListsOK
  <2>4. UninstallOK(s)'  BY <2>1, <2>2 DEF UninstallOK
  <2>5. Neat(s)'  BY <1>2, <2>3, <2>4 DEF Neat
  <2>6. QED  BY <1>1, <2>5, NeatOf
<1>4. CASE Interrupt(e)
  <2>1. PICK gap : gap = Gap(e)  OBVIOUS
  <2>2. /\ r.pc \notin Ends
        /\ s = [r EXCEPT !.pc = IF r.noting THEN "rollback" ELSE "failed",
                         !.end = "failed", !.doomed = "none", !.gap = gap]
    BY <1>1, <1>2, <1>4, <2>1 DEF Interrupt, Running
  <2>3. /\ s.pc = (IF r.noting THEN "rollback" ELSE "failed") /\ s.created = r.created /\ s.plan = r.plan
        /\ s.items = r.items /\ s.noting = r.noting /\ s.cmd = r.cmd
    BY <1>2, <2>2 DEF EngineStates
  <2>4. Listed(s) = Listed(r) /\ ~HasItems(s) /\ ~AtAppDir(s)
    BY <2>3 DEF Listed, HasItems, AtAppDir
  <2>5. CASE r.noting
    <3>1. Listing(r) /\ ~HasItems(r) /\ r.cmd # "uninstall"
      BY <2>2, <2>5, NotUninstall DEF Neat, ListsOK, Listing, HasItems
    <3>2. s.pc = "rollback" /\ Listing(s) /\ RollingBack(s) /\ s.pc \notin Ends
      BY <2>3, <2>5 DEF Listing, RollingBack, Ends
    <3>3. s.items = {}  BY <2>2, <2>3, <3>1 DEF Neat, ListsOK
    <3>4. ListsOK(s)'  BY <2>3, <2>4, <2>5, <3>2, <3>3 DEF Neat, ListsOK
    <3>5. UninstallOK(s)'  BY <2>3, <3>1 DEF UninstallOK
    <3>6. Neat(s)'  BY <1>2, <3>4, <3>5 DEF Neat
    <3>7. QED  BY <1>1, <3>6, NeatOf
  <2>6. CASE ~r.noting
    <3>1. s.pc = "failed" /\ ~Listing(s) /\ s.pc \in Ends
      BY <2>3, <2>6 DEF Listing, Ends
    <3>2. ListsOK(s)'  BY <2>3, <2>4, <3>1 DEF Neat, ListsOK
    <3>3. UninstallOK(s)'  BY <2>4, <3>1 DEF UninstallOK
    <3>4. Neat(s)'  BY <1>2, <3>2, <3>3 DEF Neat
    <3>5. QED  BY <1>1, <3>4, NeatOf
  <2>7. QED  BY <2>5, <2>6
<1>5. QED  BY <1>3, <1>4

----------------------------------------------------------------------------
(* The other two theorems *)

LEMMA NeatInit == ASSUME NEW e \in Engines, Init  PROVE Neat(eng[e])
<1>1. PICK s : s = eng[e]  OBVIOUS
<1>2. /\ s.pc = "idle" /\ s.cmd = "none" /\ s.items = {} /\ ~s.noting /\ s.created = <<>> /\ s.end = "none"
  BY <1>1 DEF Init, NotStarted
<1>3. ListsOK(s)
  BY <1>2, NoneListed DEF ListsOK, Ends, Listing, HasItems
<1>4. UninstallOK(s)  BY <1>2 DEF UninstallOK
<1>5. \A f : ~Owned(f)  BY Names DEF Init, Owned
<1>6. ~menus /\ here = Foreign  BY DEF Init
<1>7. Accounted(s) /\ OwnedOK(s)
  BY <1>2, <1>5, <1>6 DEF Accounted, OwnedOK, KeptMenus, Ours
<1>8. Neat(s)  BY <1>3, <1>4, <1>7 DEF Neat
<1>9. QED  BY <1>1, <1>8

LEMMA NeatNext ==
    ASSUME NEW e, Engines = {e}, IInv, IInv', OnDisk(eng[e]), Left(eng[e]), Neat(eng[e]), [Next]_vars
    PROVE  Neat(eng[e])'
<1>1. CASE UNCHANGED vars
  BY <1>1 DEF vars, disk, bounds, Neat, ListsOK, UninstallOK, Accounted, OwnedOK, Account, Excuse, AtRest,
     Going, HasItems, AtAppDir, RollingBack, Listing, Listed, Unlisted, Owned, Ours, KeptMenus, AtFile
<1>2. CASE Start(e) \/ Check(e) \/ Prerequisites(e) \/ Existing(e)
  BY <1>2, StartNeat, CheckNeat, ExistingNeat
<1>3. CASE Removal(e)
  BY <1>3, RemoveMarkerNeat, RemoveMenusNeat, RemoveDirNeat, RemoveAppDirNeat, RemoveMenusFolderNeat,
     RemoveEndsNeat, RmFileNeat, RmFolderNeat, RmFailsNeat DEF Removal
<1>4. CASE Installing(e)
  BY <1>4, StartListNeat, MakesNeat, NotesNeat, FillsNeat, ClearFileNeat, DoneNeat, StepFailsNeat DEF Installing
<1>5. CASE StepFails(e) \/ Rollback(e) \/ Interrupt(e) \/ Kill(e) \/ KillManifest(e)
  BY <1>5, StepFailsNeat, RollbackNeat, CutNeat
<1>6. QED  BY <1>1, <1>2, <1>3, <1>4, <1>5 DEF Next

LEMMA AlwaysNeat == ASSUME NEW e, Engines = {e}  PROVE Spec => [](IInv /\ Neat(eng[e]))
<1>1. Init => Neat(eng[e])  BY NeatInit
<1>2. IInv /\ IInv' /\ OnDisk(eng[e]) /\ Left(eng[e]) /\ Neat(eng[e]) /\ [Next]_vars => Neat(eng[e])'
  BY NeatNext
<1>3. QED  BY <1>1, <1>2, AlwaysLeft, AlwaysOnDisk, Invariance, PTL DEF Spec

\* However often runs fail, when none is cut off the next one is stopped by
\* nothing but a folder of somebody else, or the very thing that could not be
\* removed or marked as this app's and that nothing has put right since: what
\* else a failed run made is gone, and what an earlier one installed is in the
\* manifest and this app's (ti_fail "already exists", .ti-owner).
THEOREM RetriesAreFree ==
    ASSUME NEW e, Engines = {e}
    PROVE  Spec => []RetryIsNotBlocked
<1>1. Neat(eng[e]) => RetryIsNotBlocked
  <2> SUFFICES ASSUME Neat(eng[e]), cuts = 0  PROVE InTheWay(e) \subseteq Foreign \cup amiss
    BY DEF RetryIsNotBlocked
  <2> DEFINE s == eng[e]
  <2>1. Accounted(s) /\ OwnedOK(s) /\ ListsOK(s)  BY DEF Neat
  <2>2. CASE At(e, "existing") /\ "app" \in here /\ ~Owned("app")
    <3>1. Excuse(s) = {}  BY <2>2 DEF At, Excuse
    <3>2. QED  BY <2>1, <2>2, <3>1 DEF InTheWay, OwnedOK, At
  <2>3. CASE At(e, "file") /\ MoreFiles(e) /\ File(e) \in here /\ ~Owned(File(e))
    <3>1. Excuse(s) = {}  BY <2>3 DEF At, Excuse
    <3>2. QED  BY <2>1, <2>3, <3>1 DEF InTheWay, OwnedOK, At
  <2>4. CASE At(e, "menus") /\ Mac /\ menus
    <3>1. Account(s) = Listed(s) /\ "menus" \notin Listed(s)
      BY <2>1, <2>4 DEF At, Account, AtRest, Ends, Going, Listing, Unlisted, RollingBack, ListsOK
    <3>2. "menus" \in amiss  BY <2>1, <2>4, <3>1 DEF Accounted, KeptMenus
    <3>3. QED  BY <2>4, <3>2 DEF InTheWay, At
  <2>5. QED  BY <2>2, <2>3, <2>4 DEF InTheWay
<1>2. QED  BY <1>1, AlwaysNeat, PTL

\* An uninstaller that says it removed the app has left no folder the manifest
\* lists and no menu entry, and when no run was ever cut off, nothing at all,
\* but for what the system refused to remove (ti_uninstall, ti_remove_app).
THEOREM UninstallIsClean ==
    ASSUME NEW e, Engines = {e}
    PROVE  Spec => []UninstallLeavesNothing
<1>1. IInv /\ Neat(eng[e]) => UninstallLeavesNothing
  <2> SUFFICES ASSUME IInv, Neat(eng[e]), eng[e].pc = "removed"
      PROVE  /\ Owned("app") => "app" \in amiss
             /\ "menus" \in lines \/ cuts = 0 => ~KeptMenus
             /\ \A d \in Deps : d \in lines \/ cuts = 0 => ~Ours(d)
    BY DEF UninstallLeavesNothing, At, KeptMenus, Ours
  <2> DEFINE s == eng[e]
  <2>1. s.cmd = "uninstall"  BY DEF Neat, ListsOK
  <2>2. /\ s.items = {} /\ Going(s) = {} /\ ~(KeptMenus /\ "menus" \in lines)
        /\ \A d \in Deps : Ours(d) /\ d \in lines => d \in s.items \cup Going(s)
        /\ "app" \notin here \/ "app" \in amiss
    BY <2>1 DEF Neat, UninstallOK, Going
  <2>3. Account(s) \subseteq lines  BY DEF Account, AtRest, Ends
  <2>4. cuts = 0 => ~KeptMenus /\ \A d \in Deps : ~Ours(d)
    BY <2>2, <2>3 DEF Neat, Accounted
  <2>5. QED  BY <2>2, <2>4 DEF Owned
<1>2. QED  BY <1>1, AlwaysNeat, PTL
=============================================================================
