--------------------------- MODULE PageCatalogue ---------------------------
(***************************************************************************)
(* The catalogue a page builds installers from                             *)
(* (src/web_client/catalog-refresh.js, the second half of overlay.js, and  *)
(* the refresh and start of catalog-editor.js): the one baked into the     *)
(* page, the newer one a build server hands out, the one record the tabs   *)
(* of a browser keep it in, the folders unpacked from it one at a time,    *)
(* and the effective catalogue a build takes with it.                      *)
(*                                                                         *)
(* A step is what runs until the browser gives the page its next event:    *)
(* an await of something already there ends inside the same step.          *)
(***************************************************************************)
EXTENDS Naturals, FiniteSets

CONSTANTS
    Tabs,       \* the tabs of one origin whose pages are followed in full
    Elsewhere,  \* more of its tabs, followed as far as the record they share
    Baked,      \* [Tabs -> 1..MaxIssue], the catalogue built into the page there
    Ours,       \* the issues signed by the key that is built into these pages
    MaxIssue,   \* bound: catalogues ever signed, in the order of `issued'
    Folders,    \* the catalogue's folders
    MaxSwaps    \* bound: how often one page has its catalogue replaced

Issues == 1..MaxIssue
None == 0           \* no stored record, or: the catalogue baked into the page

ASSUME CatalogueAssumption ==
    /\ MaxIssue \in Nat /\ MaxSwaps \in Nat \ {0}
    /\ Ours \subseteq Issues
    /\ Baked \in [Tabs \cup Elsewhere -> Ours]
    /\ Tabs \cap Elsewhere = {}

VARIABLES
    stored,     \* the record ti-catalog-refresh in IndexedDB
    open,       \* the tabs whose page is open
    refreshed,  \* the catalogue standing in for the baked one
    gen,        \* `generation'; it also names the object filesPromise holds
    has,        \* the folders assigned into each generation's files
    loaded,     \* loadedFolders
    unpacking,  \* unpacks under way: the folder and the generation it began in
    load,       \* where loadOverlay is
    found,      \* the record loadOverlay has read and is taking apart
    touched,    \* the folders the overlay's changes are about
    cache,      \* catalogCache: an effective catalogue, worked out or on its way
    build,      \* one build asked for in this page
    fetch,      \* where doRefresh is, and what it holds
    back,       \* `Go back': the record is deleted, the swap still to come
    editor      \* S.files of the Runtimes page

useVars == <<refreshed, gen, loaded>>
loadVars == <<load, found, touched>>
effVars == <<cache, build>>
formVars == <<fetch, back>>
vars == <<stored, open, useVars, has, unpacking, loadVars, effVars, formVars, editor>>

----------------------------------------------------------------------------
Gens == 0..MaxSwaps
NotShown == 0

NoFetch == [at |-> "idle", issue |-> None, late |-> FALSE]

\* An effective catalogue: `base' is the generation of the shared files it
\* took, `waits' that of its changed folders, `changed' those folders and
\* `applied' the ones whose changes took effect.
NoEff == [at |-> "none", base |-> 0, waits |-> 0, changed |-> {}, applied |-> {}]

\* `asked' is the generation in which the build was asked for, `from' the one
\* its runtime's folder came from.
NoBuild == [at |-> "none", asked |-> 0, eff |-> NoEff, folder |-> None, from |-> 0]
Ended(ok) == [NoBuild EXCEPT !.at = IF ok THEN "built" ELSE "failed"]

InUse(t) == IF refreshed[t] = None THEN Baked[t] ELSE refreshed[t]

Init == /\ stored = None
        /\ open = {}
        /\ refreshed = [t \in Tabs |-> None]
        /\ gen = [t \in Tabs |-> 0]
        /\ has = [t \in Tabs |-> [g \in Gens |-> {}]]
        /\ loaded = [t \in Tabs |-> {}]
        /\ unpacking = [t \in Tabs |-> {}]
        /\ load = [t \in Tabs |-> "none"]
        /\ found = [t \in Tabs |-> None]
        /\ touched = [t \in Tabs |-> {}]
        /\ cache = [t \in Tabs |-> NoEff]
        /\ build = [t \in Tabs |-> NoBuild]
        /\ fetch = [t \in Tabs \cup Elsewhere |-> NoFetch]
        /\ back = [t \in Tabs |-> FALSE]
        /\ editor = [t \in Tabs |-> NotShown]

----------------------------------------------------------------------------
(* Folders. *)

\* The unpacks under way once ensureFolders has been asked for F.
Unpacking(t, F) == unpacking[t] \cup {<<f, gen[t]>> : f \in F \ loaded[t]}

\* A folder is unpacked.  It counts only in the generation it was read in.
Unpack(t) ==
    /\ \E u \in unpacking[t] :
          /\ unpacking' = [unpacking EXCEPT ![t] = @ \ {u}]
          /\ IF u[2] = gen[t]
               THEN /\ has' = [has EXCEPT ![t][u[2]] = @ \cup {u[1]}]
                    /\ loaded' = [loaded EXCEPT ![t] = @ \cup {u[1]}]
               ELSE UNCHANGED <<has, loaded>>
    /\ UNCHANGED <<stored, open, refreshed, gen, loadVars, effVars, formVars, editor>>

\* Mutant: a folder under way is not waited for if it is loaded.
UnpackedWhenLoaded(t, g, F) == F \subseteq loaded[t]

\* What an ensureFolders of generation g waits for.
Unpacked(t, g, F) == \A f \in F : <<f, g>> \notin unpacking[t]

----------------------------------------------------------------------------
(* Effective catalogues. *)

\* loadOverlay is over: take the changes of the moment, ask for their folders.
Resumed(t, e, F) == IF e.at = "overlay"
                    THEN [e EXCEPT !.at = "folders", !.waits = gen[t], !.changed = F] ELSE e

\* effectiveCatalog(): the cached one, or a new one on the files of the moment.
Effective(t) ==
    LET new == [NoEff EXCEPT !.at = "overlay", !.base = gen[t]]
    IN IF cache[t] # NoEff THEN cache[t]
       ELSE IF load[t] = "loaded" THEN Resumed(t, new, touched[t])
       ELSE new

\* Its caller waits for folders from now on.
Asks(t) == IF load[t] = "loaded" /\ cache[t] = NoEff THEN Unpacking(t, touched[t])
           ELSE unpacking[t]

\* Mutant: the changes are applied to the folders that are there.
ApplyUnwaited(t) ==
    /\ \E e \in {cache[t], build[t].eff} :
          /\ e.at = "folders"
          /\ LET done == [e EXCEPT !.at = "done", !.applied = e.changed \cap has[t][e.base]]
             IN /\ cache' = [cache EXCEPT ![t] = IF @ = e THEN done ELSE @]
                /\ build' = [build EXCEPT ![t].eff = IF @ = e THEN done ELSE @]
    /\ UNCHANGED <<stored, open, useVars, has, unpacking, loadVars, formVars, editor>>

\* applyOverlay: a change takes effect if the files it is applied to have its
\* folder.  What emit() has dropped from the cache goes on for whoever waits.
Apply(t) ==
    /\ \E e \in {cache[t], build[t].eff} :
          /\ e.at = "folders" /\ Unpacked(t, e.waits, e.changed)
          /\ LET done == [e EXCEPT !.at = "done", !.applied = e.changed \cap has[t][e.base]]
             IN /\ cache' = [cache EXCEPT ![t] = IF @ = e THEN done ELSE @]
                /\ build' = [build EXCEPT ![t].eff = IF @ = e THEN done ELSE @]
    /\ UNCHANGED <<stored, open, useVars, has, unpacking, loadVars, formVars, editor>>

----------------------------------------------------------------------------
(* A build in the page: local-api.js submit(), then loadRuntimes. *)

AskBuild(t) ==
    /\ t \in open /\ build[t] = NoBuild
    /\ \E f \in Folders :
          build' = [build EXCEPT ![t] = [at |-> "env", asked |-> gen[t], eff |-> Effective(t),
                                         folder |-> f, from |-> 0]]
    /\ cache' = [cache EXCEPT ![t] = Effective(t)]
    /\ unpacking' = [unpacking EXCEPT ![t] = Asks(t)]
    /\ UNCHANGED <<stored, open, useVars, has, loadVars, formVars, editor>>

\* The job starts and asks the effective catalogue for its runtime's folder:
\* a changed folder is in it already, another is unpacked from the catalogue
\* the page uses at this moment.
StartBuild(t) ==
    /\ build[t].at = "env" /\ build[t].eff.at = "done"
    /\ LET b == build[t] IN
         IF b.folder \in b.eff.changed
           THEN /\ build' = [build EXCEPT ![t] = Ended(b.folder \in has[t][b.eff.base])]
                /\ UNCHANGED unpacking
           ELSE /\ build' = [build EXCEPT ![t].from = gen[t], ![t].at = "folder"]
                /\ unpacking' = [unpacking EXCEPT ![t] = Unpacking(t, {b.folder})]
    /\ UNCHANGED <<stored, open, useVars, has, loadVars, cache, formVars, editor>>

FinishBuild(t) ==
    /\ build[t].at = "folder"
    /\ Unpacked(t, build[t].from, {build[t].folder})
    /\ build' = [build EXCEPT ![t] = Ended(@.folder \in has[t][@.from])]
    /\ UNCHANGED <<stored, open, useVars, has, unpacking, loadVars, cache, formVars, editor>>

----------------------------------------------------------------------------
(* Replacing the catalogue. *)

\* setRefreshedCatalog: what was derived from the old one is dropped, and
\* emit() drops the effective catalogue.
Swap(t, i) ==
    /\ refreshed' = [refreshed EXCEPT ![t] = i]
    /\ gen' = [gen EXCEPT ![t] = @ + 1]
    /\ loaded' = [loaded EXCEPT ![t] = {}]
    /\ cache' = [cache EXCEPT ![t] = NoEff]

\* The bound: swaps made, and those the steps under way may still make.
One(p) == IF p THEN 1 ELSE 0
Coming(t) == One(load[t] \in {"read", "split"}) + One(fetch[t] # NoFetch) + One(back[t])
MaySwap(t) == gen[t] + Coming(t) < MaxSwaps

\* Whether a page takes a stored record for its own: the key built into it
\* must have signed it.
Believes(i) == i \in Ours

----------------------------------------------------------------------------
(* loadOverlay, when a page opens and when another tab changes the overlay. *)

\* Opening a page asks for the effective catalogue at once (installLocalApi).
OpenPage(t) ==
    /\ t \notin open
    /\ open' = open \cup {t}
    /\ load' = [load EXCEPT ![t] = "read"]
    /\ cache' = [cache EXCEPT ![t] = Effective(t)]
    /\ UNCHANGED <<stored, refreshed, gen, has, loaded, unpacking, found, touched, build,
                   formVars, editor>>

\* catalog-refresh.js readStored: a record that is not ours is not believed.
ReadRefreshed(t) ==
    /\ load[t] = "read"
    /\ IF Believes(stored)
         THEN found' = [found EXCEPT ![t] = stored] /\ load' = [load EXCEPT ![t] = "split"]
         ELSE /\ load' = [load EXCEPT ![t] = IF stored = None THEN "changes" ELSE "clear"]
              /\ UNCHANGED found
    /\ UNCHANGED <<stored, open, useVars, has, unpacking, touched, effVars, formVars, editor>>

\* clearStored, in a transaction of its own: it deletes what is there by then.
ClearStored(t) ==
    /\ load[t] = "clear"
    /\ stored' = None
    /\ load' = [load EXCEPT ![t] = "changes"]
    /\ UNCHANGED <<found, open, useVars, has, unpacking, touched, effVars, formVars, editor>>

\* Taken apart, it is swapped in; it is the record as it was when it was read.
Adopt(t) ==
    /\ load[t] = "split"
    /\ Swap(t, found[t])
    /\ load' = [load EXCEPT ![t] = "changes"]
    /\ found' = [found EXCEPT ![t] = None]
    /\ UNCHANGED <<stored, open, has, unpacking, touched, build, formVars, editor>>

\* The stored changes are read; whoever waits for the overlay goes on, and
\* emit() drops the effective catalogue.
LoadChanges(t) ==
    /\ load[t] = "changes"
    /\ load' = [load EXCEPT ![t] = "loaded"]
    /\ \E F \in SUBSET Folders :
          /\ touched' = [touched EXCEPT ![t] = F]
          /\ build' = [build EXCEPT ![t].eff = Resumed(t, @, F)]
          /\ unpacking' = [unpacking EXCEPT ![t] =
                IF "overlay" \in {cache[t].at, build[t].eff.at} THEN Unpacking(t, F) ELSE @]
    /\ cache' = [cache EXCEPT ![t] = NoEff]
    /\ UNCHANGED <<stored, open, useVars, has, found, formVars, editor>>

\* The `storage' event: another tab changed the overlay.
OverlayChanged(t) ==
    /\ load[t] = "loaded" /\ MaySwap(t)
    /\ load' = [load EXCEPT ![t] = "read"]
    /\ UNCHANGED <<stored, open, useVars, has, unpacking, found, touched, effVars, formVars, editor>>

ClosePage(t) ==
    /\ t \in open
    /\ open' = open \ {t}
    /\ refreshed' = [refreshed EXCEPT ![t] = None]
    /\ gen' = [gen EXCEPT ![t] = 0]
    /\ has' = [has EXCEPT ![t] = [g \in Gens |-> {}]]
    /\ loaded' = [loaded EXCEPT ![t] = {}]
    /\ unpacking' = [unpacking EXCEPT ![t] = {}]
    /\ load' = [load EXCEPT ![t] = "none"]
    /\ found' = [found EXCEPT ![t] = None]
    /\ touched' = [touched EXCEPT ![t] = {}]
    /\ cache' = [cache EXCEPT ![t] = NoEff]
    /\ build' = [build EXCEPT ![t] = NoBuild]
    /\ fetch' = [fetch EXCEPT ![t] = NoFetch]
    /\ back' = [back EXCEPT ![t] = FALSE]
    /\ editor' = [editor EXCEPT ![t] = NotShown]
    /\ UNCHANGED stored

----------------------------------------------------------------------------
(* The Runtimes page, and refreshing from a build server. *)

\* start(): the overlay first, then the files of the moment, once.
OpenEditor(t) ==
    /\ load[t] = "loaded" /\ editor[t] = NotShown
    /\ editor' = [editor EXCEPT ![t] = InUse(t)]
    /\ UNCHANGED <<stored, open, useVars, has, unpacking, loadVars, effVars, formVars>>

\* Mutant: the page looks at its own catalogue only.
FloorOfPage(t) == Baked[t]

\* The later of what the page was built with and what this browser has
\* accepted, a record of another key not counted.
Floor(t) == IF Believes(stored) /\ stored > Baked[t] THEN stored ELSE Baked[t]

\* fetchCatalog as far as the download.  The statement is signed by the page's
\* key and may be about any catalogue ever signed, as servers are not all up to
\* date; it is refused if it is below the floor of this moment.
Look(t) ==
    /\ fetch[t] = NoFetch
    /\ t \in Tabs => editor[t] # NotShown /\ MaySwap(t)
    /\ \E i \in Issues : /\ Believes(i) /\ i >= Floor(t)
                         /\ fetch' = [fetch EXCEPT ![t].at = "archive", ![t].issue = i]
    /\ UNCHANGED <<stored, open, useVars, has, unpacking, loadVars, effVars, back, editor>>

\* The archive does not arrive, is not the one the statement names, or cannot
\* be read.
DownloadFails(t) ==
    /\ fetch[t].at = "archive"
    /\ fetch' = [fetch EXCEPT ![t] = NoFetch]
    /\ UNCHANGED <<stored, open, useVars, has, unpacking, loadVars, effVars, back, editor>>

\* The archive arrives and is the one the statement names: writeStored puts
\* the record, whatever is there now.
Store(t) ==
    /\ fetch[t].at = "archive"
    /\ stored' = fetch[t].issue
    /\ fetch' = [u \in DOMAIN fetch |->
          IF u = t THEN IF t \in Tabs THEN [fetch[u] EXCEPT !.at = "swap"] ELSE NoFetch
          ELSE [fetch[u] EXCEPT !.late = @ \/ fetch[u].at = "archive"]]
    /\ UNCHANGED <<open, useVars, has, unpacking, loadVars, effVars, back, editor>>

\* A browser that is out of room: the catalogue is used for this tab only.
StoreFails(t) ==
    /\ fetch[t].at = "archive"
    /\ fetch' = [fetch EXCEPT ![t].at = "swap"]
    /\ UNCHANGED <<stored, open, useVars, has, unpacking, loadVars, effVars, back, editor>>

SwapIn(t) ==
    /\ fetch[t].at = "swap"
    /\ Swap(t, fetch[t].issue)
    /\ fetch' = [fetch EXCEPT ![t] = NoFetch]
    /\ UNCHANGED <<stored, open, has, unpacking, loadVars, build, back, editor>>

\* A page built with another key, on the same origin, keeps its own record.
StoreOfOthers ==
    /\ \E i \in Issues \ Ours : stored' = i
    /\ UNCHANGED <<open, useVars, has, unpacking, loadVars, effVars, formVars, editor>>

\* `Go back to the one built into this page': clearStored, then the swap.
GoBack(t) ==
    /\ editor[t] # NotShown /\ refreshed[t] # None /\ ~back[t] /\ MaySwap(t)
    /\ stored' = None
    /\ back' = [back EXCEPT ![t] = TRUE]
    /\ UNCHANGED <<open, useVars, has, unpacking, loadVars, effVars, fetch, editor>>

SwapBack(t) ==
    /\ back[t]
    /\ Swap(t, None)
    /\ back' = [back EXCEPT ![t] = FALSE]
    /\ UNCHANGED <<stored, open, has, unpacking, loadVars, build, fetch, editor>>

----------------------------------------------------------------------------
Loading(t) == ReadRefreshed(t) \/ ClearStored(t) \/ Adopt(t) \/ LoadChanges(t)
Building(t) == AskBuild(t) \/ Unpack(t) \/ Apply(t) \/ StartBuild(t) \/ FinishBuild(t)
Replacing(t) == StoreFails(t) \/ SwapIn(t) \/ GoBack(t) \/ SwapBack(t)
Fetching(t) == Look(t) \/ DownloadFails(t) \/ Store(t)

Next == \/ \E t \in Tabs : \/ OpenPage(t) \/ ClosePage(t) \/ OverlayChanged(t) \/ OpenEditor(t)
                           \/ Loading(t) \/ Building(t) \/ Replacing(t)
        \/ \E t \in Tabs \cup Elsewhere : Fetching(t)
        \/ StoreOfOthers

Spec == Init /\ [][Next]_vars

\* The page runs every continuation it is owed.  Nothing is assumed of
\* people, of servers or of other tabs.
FairSpec == /\ Spec
            /\ \A t \in Tabs : /\ WF_vars(Loading(t))
                               /\ WF_vars(Unpack(t))
                               /\ WF_vars(Apply(t))
                               /\ WF_vars(StartBuild(t))
                               /\ WF_vars(FinishBuild(t))

----------------------------------------------------------------------------
\* `Comparing only against the baked one left a window': what a browser has
\* accepted is only undone by a refresh that had looked before another tab
\* stored something newer.
OlderOnlyIfOvertaken ==
    [][{stored, stored'} \subseteq Ours /\ stored' < stored =>
          \E t \in Tabs \cup Elsewhere : fetch[t].late /\ fetch'[t] # fetch[t]]_vars

\* `The job is built with the catalogue as it is now, even if the changes
\* move on while it runs': a build never mixes the files of one catalogue with
\* the summary of another, leaves some of the overlay's changes out or misses
\* its folder, unless the page replaced its catalogue after it was asked for.
BuildIsWholeUnlessSwapped ==
    [][\A t \in Tabs : LET b == build[t] IN
          \/ b.at = "folder" /\ build'[t].at = "built" /\ b.from # b.eff.base
          \/ build'[t].at = "failed" /\ b.at # "failed"
          \/ build'[t].at = "built" /\ b.at # "built" /\ b.eff.applied # b.eff.changed
          => gen[t] > b.asked]_vars

\* `Swapped in, which drops everything derived from the old catalogue and
\* repaints': the Runtimes page shows the catalogue in use.
EditorShowsInUse ==
    \A t \in Tabs : editor[t] # NotShown => editor[t] = InUse(t)

\* A build that was asked for gets its catalogue or fails, whatever is
\* replaced under it: nothing waits for an unpack that no longer counts.
EveryBuildGetsItsCatalogue ==
    \A t \in Tabs : build[t].at = "env" ~> build[t].at \in {"built", "failed", "none"}
=============================================================================
