# TiddlyInstall in TLA+

TLA+ models of [TiddlyInstall](../src/README.md), the TLC runs that check
them on small instances, and TLAPS proofs of what matters most for every
instance. Paths below are relative to the repository's root, so `src/…` is its
source directory. `PROJECT.json` is the machine-readable form of this page: the
components, the runs, which lines of which file each definition stands for, the
mutants that show that each property can fail, the hazards and the theorems.

## 1. The system

TiddlyInstall turns the address of a source project into an installer. A page
(`src/web_client`) asks a build server (`src/build_server`), or a copy of the
same code inside the page, to resolve a project into a *record* (what it needs)
and a *plan* (which file comes from where, with its hash). The page attaches the
record to a prebuilt installer base (`src/installers`) and the user downloads
it. When it runs, it finds its record, gets the plan again (signed by the
server), downloads and checks every file, and installs into folders of its own,
from which an uninstaller can take it away.

### Components

| component | state it keeps | operations | talks to |
|---|---|---|---|
| job queue (`build_server/lib/queue.js`) | Redis: ticket counter, job records, queued and running sets, durations; BullMQ: job states, locks | submit, position, eta, the worker function, crash and restart | Redis, BullMQ, the builder |
| build server routes (`server.js`, `limiter.js`, …) | limiter windows, caches kept by mtime | POST /api/build, status, plan, takedown checks, files | queue, store, takedown, builder |
| record and source store (`jobs.js`, `files.js`) | content-addressed files | storeRecord, storeIcon, download, writeAtomic | file system |
| takedown and revocations (`revocations.js`, `takedown.mjs`) | takedown.txt, revoked.txt and its serial, the document of the hour | check, add, sign | routes, installers |
| job builder (`shared/builder.js`, `form-job.js`) | one job's results | form to request, validate, runJob, packs | resolver, store, network |
| resolver, templates (`shared/resolve.js`) | the candidates it remembers | a project and a catalogue to a plan | catalogue |
| release ledger (`shared/ledger.js`, `shared/merkle.js`) | the chain of releases | append, prove, verify | release tools, verify page |
| page catalogue (`web_client/catalog-refresh.js`, `overlay.js`) | signed base files, loaded folders, the stored newer catalogue, the floor | refresh, adopt, load a folder, effective catalogue | other tabs (storage), server |
| overlay (`web_client/overlay.js`, `overlay-consent.js`) | the user's changes, the consent to use them | edit, persist, forget, ask | localStorage, IndexedDB, other tabs |
| API client and ticket page (`web_client/api.js`, `build.js`) | outage and backoff, the poll's sequence number | request, retry, health, poll, paint | server |
| API inside the page (`web_client/local-api.js`) | links and their generations, the picked destination | build, pack, hand over | builder, page catalogue |
| edit page and sign panel (`web_client/edit.js`, `sign-ui.js`, `sign-services.js`) | the opened installer, its record and plan, packed files, credentials, a waiting signature | open, edit, save, sign | signing services |
| verify page (`web_client/verify.js`, `shared/ledger.js`, `shared/merkle.js`) | the files dropped, the rows shown of each | drop, read, ask the server, check the ledger | server |
| Runtimes page (`web_client/catalog-editor.js`, `change-list.js`) | the list of changes, the open form, an imported file | edit, revert, import | overlay |
| Create page (`web_client/new.js`, `write-editor.js`, `shared/form-job.js`) | the fields, the catalogue table, the picked archive | choose, type, tick, build | API client, API inside the page |
| installer files (`shared/tifile.js`, `icon.js`, `authenticode.js`) | the bytes of one installer | write, read, set an icon, sign | builder, edit page, engines |
| outgoing connections (`netsafe.js`, `signrelay.js`, `limiter.js`) | hits per address | relay, tsa, sign | the web |
| installer engine, Linux and macOS (`installers/unix/ti-engine.sh`) | app and file folders, `.ti-owner`, manifest, `.ti-installed`, menu entries | install, reinstall, uninstall, rollback | file system, server |
| installer, Windows (`installers/windows/*.nsi`) | the same protocol in NSIS | the same | the same |

The remaining parts (layout and navigation of the pages, packing scripts, registry
data, operators' tools, tests, vendored code) are listed in `PROJECT.json` with
the reason why they have no model.

### What is hard

* **Await points.** Server and page are JavaScript: every `await` in `submit()`,
  the worker function, a catalogue refresh, an overlay save, a plan's resolution,
  a health check or a signing lets somebody else run. Several tabs share one
  storage without a lock.
* **Two owners of one job.** BullMQ owns when a job runs, the job record in Redis
  is what a page sees, and nothing updates both at once. A crash, a lost lock, a
  refused command or the two hour timer falls between any two of the updates.
* **A shell script on somebody's disk.** The installer may be killed, interrupted
  or fail at any command, and run again over what it left; the same folders are
  used by the next version of the app, whose plan has other files.
* **Newer and older.** A catalogue, a takedown list and a record all have a
  newer version somewhere; each check against it is made before something slow.
* **One variable for several actors.** The page's builds share one destination,
  the sign panel's signings one set of credentials, two writers of a file one
  `.tmp` name.
* **A file with several writers and readers.** A page, a server and a stream write the
  block behind a program, the page puts an icon before it and a signature after it, other
  tools sign and strip, and three engines and a page read it back, each in its own way.
* **Services that charge.** A signing service is several calls; any of them may be lost
  after it did its work, and what comes back must be something the page can write.
* **A form whose fields follow one another.** Source, language, template, platforms, builds
  and launch command each change when another does, while catalogues are being fetched.
* **Edges of ranges.** OS versions that get the same share one block of a plan,
  with a lowest version and a lowest build; a pack has to contain what a
  block of *some* of the ticked versions asks for.

### What correct means

* *Queue*: the position a page shows is honest; every accepted job ends; a job
  BullMQ completed has its last state on record; what a page sees of a job only
  moves forward, but for a second attempt; packs work one at a time.
* *Installer engine*: `.ti-installed` means fully installed; a failed run takes back
  what it made; a failure never blocks the next try; an uninstall leaves
  nothing; a folder of somebody else is never touched.
* *Page catalogue*: no catalogue is replaced by an older one; what is unpacked
  belongs to the catalogue in use; a build is not a mixture of two.
* *Overlay*: no change is used without consent to that change, none gets lost
  between the two places it may be stored in; the Runtimes page shows what builds get.
* *Store and takedown*: a file holds the bytes its name says; what was withdrawn
  when a request came in is neither built nor planned.
* *Page*: answers are painted in order; no build is lost; a user's choice of
  server is kept; a file goes where its own user asked.
* *Plans*: every machine a plan has a target for can run what it is given, and is
  given the best that there is for it; a pack has what its plan will ask for.
* *Edit and sign*: what is saved or signed is one installer, the one that was
  shown; credentials are read by the signing they were typed for; what a service was paid
  for can be used.
* *Installer file*: whatever was done to it, each reader finds what was put in last.
* *Verify page*: it says "proved", "signed", "not withdrawn" or "unchanged" only of what is.
* *Outgoing calls*: nothing is sent to the server's own network, no credential to another
  origin; a caller's limit is the caller's.
* *Create page*: what is sent is what the form showed, and a typed command is kept.

## 2. The modules

| module | what it is |
|---|---|
| `JobLife` | abstract: what a page polling one job may see |
| `JobQueue` | detailed: submit(), Redis, BullMQ, the worker function, faults |
| `JobQueueProofs` | theorems: its types, final records, positions, that it implements `JobLife`, that packs take turns, and what is on the list of queued jobs |
| `MCJobQueue` + 3 configurations | instances of `JobQueue` |
| `InstallEngine` | the Unix installer engine and its uninstaller |
| `InstallEngineProofs` | theorems: its types, that other folders are safe, that its marker means fully installed, that a failed run takes back what it made and does not block the next, and that an uninstall is complete |
| `MCInstallEngine` + 2 configurations | instances of `InstallEngine` |
| `PageCatalogue` | the catalogue a page builds from: refreshes, folders, effective catalogues |
| `MCPageCatalogue` + 2 configurations | instances of `PageCatalogue` |
| `OverlayStore` | the user's changes to it: two places, several tabs, consent |
| `ListOps` | lists, and what a loop passes on of one |
| `ChangeEditor` | the list of those changes: the Runtimes page's forms, imports, and what builds get |
| `NewPage` | the Create page's form, its catalogue table and the job it sends |
| `OverlayStoreProofs` | theorems about `OverlayStore` and `NewPage`: changes that are used were agreed to, a save leaves the old list or the new one, a form sends what was meant to where the page said |
| `MCOverlayStore` + 2 configurations | instances of `OverlayStore`, `ChangeEditor` and `NewPage` |
| `BuildServer` | jobs, plans and stored files of the build server, its takedown list |
| `TicketPage` | extends `BuildServer` with a page that sends a form and polls its ticket |
| `PageBuilds` | builds made inside a page |
| `ServiceProofs` | theorems about these three: withdrawals hold, stored files are whole, builds in a page keep apart, no build is lost, a choice is kept, answers paint in order |
| `MCService` | instance of these three |
| `Resolver` | the plan resolver, as operators |
| `Plans` | extends `Resolver`: a form to a record, a plan and the files of a pack |
| `PlansProofs` | theorems: each machine gets what is best for it, and a pack has all of it |
| `EditPage`, `SignPanel` | an installer that is opened, edited, saved and signed |
| `SignServices` | the calls each signing service is sent, and how its answers are read |
| `InstallerFile` | the bytes of an installer: what writes them and what reads them back |
| `VerifyPage` | what the verify page says of a file, the release ledger and its proofs |
| `Admission` | who a caller of the server is, and the limits per address |
| `Outgoing` | what the server fetches for a page: addresses, redirects, credentials |
| `InstallerProofs` | theorems about `SignPanel`, `SignServices`, `EditPage`, `Admission` and `Outgoing` |
| `PageProofs` | theorems about `VerifyPage` and `PageCatalogue`: rows that reassure are earned, a rewritten ledger is seen, files are not mixed; newer catalogues are kept, builds are of one catalogue |
| `FileProofs` | theorems about `ChangeEditor` and `InstallerFile`: builds get what the rows of the Runtimes page show, and an installer reads back as what was put into it |
| `MCInstaller` + 2 configurations | instances of `Plans` to `Outgoing` |

`JobQueue` and `BuildServer` meet in one place: a queued job of `BuildServer` starts at
some time, and again after a crash, which is what `JobQueue` says of it. `PageCatalogue`
takes an overlay's changes as given and follows which catalogue they are applied to;
`OverlayStore` takes the catalogue as given and follows which changes are used;
`ChangeEditor` follows what the changes are. `NewPage` ends where a job is posted, `Plans`
begins with what the form says, `JobQueue`, `BuildServer` and `PageBuilds` with the post.
`SignPanel` takes a service as a number of calls, `SignServices` makes those calls one by one.

`MCOverlayStore` and `MCInstaller` hold several models that share no state. Their runs
choose one of them in the initial state (`part`) and leave the others at rest: each part
is checked as if it were alone.

Operators commented *Mutant* are not part of a specification: each changes one
definition the way a plausible bug would, and `PROJECT.json` says which property
has to catch it.

### JobQueue and the code

| state | code |
|---|---|
| `ticket`, `tick` | `ti:ticket`, and `j.ticket` of each job |
| `sub` | at which await `submit()` is |
| `record` | `ti:job:<id>`: status, and `step` for the progress text (0 none yet, `FinalStep` for "Done" or "Failed") |
| `queued`, `running`, `durs` | `ti:queued:<class>`, `ti:running:<class>`, the length of `ti:dur:<class>` |
| `bull`, `place`, `stalls` | BullMQ's state of a job, the order of `add`, its stalled counter |
| `run` | every activation of the worker function: at which await, the job in memory, saves chained on `saving`, whether the handler still works, how the race against the timer ended, the await it was broken off at (`cut`, for the properties) |
| `faults` | how many faults happened (a bound, and the antecedent of some properties) |

`Ticket`, `SaveQueued`, `ZAdd`, `Add`, `Unlist` are the awaits of `submit()`;
`Get` … `Finish` those of the worker function. `Progress` and `SaveProgress` are the
`progress()` callback and the promise chain `saving`; `HandlerEnds`, `TimeOut`
and `EndsUnheard` are the two sides of `Promise.race`. `LPush` and `LTrim` are the two awaits that keep the durations. `Take`, `Stall` and
`Complete` are BullMQ, modelled from how the code uses it: priorities, one
attempt, `maxStalledCount` 1, a lock of two minutes. Faults are `Crash` (every
activation and submission under way is gone, and what Redis and BullMQ hold
stays: the process is killed, without `close()`, which waits for the jobs at work), a refused Redis command at each await, a lost lock, an expired record.

The handler (`runJob`) is abstracted to: it sends up to `MaxStep` increasing
progress messages, then resolves or rejects, or never does either. A refused
first save that nothing has chained on yet ends the Node process on an
unhandled rejection; that is `Start` with a lost save and then `Crash`.
`eta()` is arithmetic on `durs` and `running` and only reads; `depths` and `ping`
only read.

### InstallEngine and the code

| state | code |
|---|---|
| `here`, `files` | the folders below the install root, and in each: `.ti-owner` naming this app, somebody else's files, what was unpacked, launch.sh and uninstall.sh, the manifest, `.ti-installed` |
| `lines` | the folders and shortcuts the last manifest lists |
| `menus` | menu entries and launchers outside the root |
| `eng` | one run of the script: the command it is at, its plan, what it has noted for the rollback (`TI_CREATED`), the folder an `rm -rf` is in |
| `amiss` | what a command nobody asks about failed on, until it is put right (for the properties) |

Each action is one command that changes the disk: `ti_remove_app` is
`RemoveMarker` … `RemoveAppDir`, with `rm -rf` as `RmFile` in any order and then
`RmFolder`, or `RmFails`; the app's empty folder in Applications goes last (`RemoveMenusFolder`); the install is `StartList` … `Done` in the order of `ti_install_main`;
`ti_fail` is `FailsAs` and `ti_rollback` is `Rollback`. `StepFails` is any
command whose failure the script asks about. What it does not ask about
(`rm -rf` of a rollback, an uninstall and before a download, `rm` of the marker and of menu entries, the write of
`.ti-owner` into a file's folder) may fail for the things in `Unasked`, and the run goes on as if it had
not: so the uninstaller says "has been removed" (ti-engine.sh:3066) after an `rm -rf` that was refused (3128,
3132). `Interrupt` the trap on INT, TERM
and HUP after the command the shell is at, `Kill` SIGKILL or a power cut,
`KillManifest` the same in the middle of writing the manifest. Bodies of files
(what a step unpacks) are one value. Metadata, signature checks, screens,
elevation and the choice of a download source come before the first action or
change nothing on the app's disk, and are not modelled.

### BuildServer, TicketPage, PageBuilds and the code

| state | code |
|---|---|
| `list`, `readable` | `takedown.txt` (`TakenDown`, `TakenDownRecord` are the two checks of `server.js`) |
| `disk`, `tmp`, `at`, `nxt` | a stored file, its `.tmp`, and for each writer the name its open file has now and the next piece it writes |
| `pc` | a job, or the await at which a request for a plan is |
| `srcSha` | `srcShaCache`, filled once |
| `plan` | what the signed plan sends an engine to |
| `page` | `api.js` and `build.js` in one record: base, the probe of the page's own server, outage, health check, polls in flight, the post, what is painted, the page's own build, what never ends |
| `up`, `strays` | the server's addresses that answer; posts that were given up on and may still arrive |
| `gens`, `saveTo`, `dest` | `generations`, `saveTo` and a build's copy of it in `local-api.js` |

The actions of `BuildServer` are the awaits of `acceptJob`, `runJob`, `planByName`,
`plan()` and `writeAtomic`; `Withdraw`, `ListFails` and `Crash` are the operator, the
disk and the process. `TicketPage` has one action for each event of the page: a timer, an answer,
a failure, a click. An answer
is two steps: the headers, which end the time-out, and the body, which may then break off, or never
end (`NeverEnds`). A build of the page itself is `running` until `OwnBuildEnds`, and may fail or never end. Its posts and polls reach the same `Accept` and the
same `pc` as `BuildServer`. `PageBuilds` has the four moments at which a build
touches what it shares with others: `Click`, `Submit`, `HandOver`, `Done`/`Fail`.
The list of what is withdrawn is read anew for each question (`TakenDown`); one that cannot be read answers
"not withdrawn" (`blind`), though the comment at server.js:300 says that its callers fail closed.
`AskSource` checks the record by its hash and by the source it names, from the file as it is on disk; the source's
archive is named in a plan whether or not its SHA-256 is on the list by then (`srcFile`). `since`, `signedOn`, `blind`, `unread`, `raced`, `lost`, `written`, `together`, `mine`, and
of the page `unheard`, `known`, `chosen` and `during`, only record what happened, for the properties.

### PageCatalogue, OverlayStore and the code

| state | code |
|---|---|
| `stored` | the record `ti-catalog-refresh` in IndexedDB, one for all tabs |
| `refreshed`, `gen`, `has`, `loaded`, `unpacking` | the catalogue in place of the baked one, `generation`, what is in its files, `loadedFolders`, unpacks under way |
| `load`, `found`, `touched` | where `loadOverlay` is, the record it took, the folders of the changes |
| `cache`, `build` | `catalogCache`, and one build that waits for an effective catalogue |
| `fetch`, `back`, `editor` | `doRefresh`, "Go back", `S.files` of the Runtimes page |
| `ls`, `db`, `queue` | localStorage (a list or a pointer), IndexedDB, its operations in order |
| `saves`, `heard`, `memory` | `writeStored` calls under way, a `storage` event on its way, `state.storage` |
| `changes`, `pending`, `consent`, `answered`, `refused`, `panel`, `click` | the fields of `state` and the panel of `overlay-consent.js` |

A stored catalogue that is refused is deleted in a transaction of its own (`ClearStored`), by which time another tab may
have stored a newer one. A small list that localStorage refuses is not asked of IndexedDB (`WriteRefused`).

In both a step is what JavaScript runs before it returns to its event loop; an
await of something that is there already ends in the same step.

### Resolver, Plans and the code

`Resolver` follows `shared/resolve.js` from versions and ranges to blocks: `Candidates` with
the memo, recipes, companions, floors, and `Blocks`, where equal choices of neighbouring OS versions
are joined. `best` and `companions` call each other: `Companions` is that recursion as a function of how deep
it is, which is at most the number of runtimes, since no runtime needs itself. The loop over a scale with its
`cur` and `flush` is the function `after` of `BlocksOf`. A catalogue is
a value of the shape described in `MCInstaller`. `Plans` adds the form (`FormProblem`,
`Ticked`), `validate` (`Valid`), the record (`App`), a plan's targets (`Target`), what a
page packs (`PlanPackFiles`) and what a server packs (`PlanFiles`), and as
state: `host` (page or server), the folders `loaded`, what is `remembered`, the
`list` in force and the build `made` last.

### EditPage, SignPanel and the code

| state | code |
|---|---|
| `insts`, `current`, `reading` | the opened installers, `inst`, files being read |
| `recordText`, `planText`, `packs`, `icon`, `adding`, `ack` | what the page shows of it: which opening each part came from |
| `saving`, `saved` | a save at its await, and the parts of the file it makes |
| `choice`, `service`, `keys`, `online` | the sign panel's fields |
| `creds`, `blank` | the variable `creds` and which objects `forgetCreds` has blanked |
| `signings`, `waiting`, `release` | signings at their awaits, `remoteState`/`pasteState`, the last download |

A part of an installer is known by the opening it came from, so that an installer put
together from two of them can be seen. A signing service is the number of its
calls, which of them read credentials, and where they go (browser, server, paste).

`SignServices` is one press of the button for one service: `order` is what was typed,
`stage` the call that is next, `got` what the calls before it brought. A service's account
is a constant (`Holds`); each call does its work or not and is answered or not. `WriteFile` is what the
panel does once the service has signed: it reads the certificate it was given, if the service sent none, and only then (sign-ui.js:346)
learns whether a file can be written. `performed`
is what the service signed, and so charged for, `excuse` that an answer was lost, late or not
what the service means.

### InstallerFile and the code

A file is a sequence of cells, and a header kept beside them: its sections, the entry of its
certificate table, its checksum. A hash or a checksum is the thing it is taken of. The
writers are `WriteInstallerFile` (server), `WriteLayout` (page), `StreamLayout` (straight to
disk) and `WriteMacZip`; the readers `ReadBack` (page), `FindBlock` (the installer on Windows)
and `FindMetadata` (on Linux and mac). `BuildFile`, `SaveEdited`, `Sign`, `Strip` and `Seal` are
what happens to one file in its life; `madeOf` is what was put into it last. What a tool that
strips or seals does is outside of this code and modelled from how the readers allow for it.

### VerifyPage and the code

`dropped` are the files put on the page, each at its await; `said` the rows its last step
added, `page` which file each part of the page is about. Between the awaits somebody withdraws
something (`lists`) or the catalogue changes. A hash is an injective constructor, so a Merkle
tree is a tree of pairs and its root can be taken apart only by its proof. A server answers
with documents signed by us, by another, by nobody, changed, old or new. Asked for a plan by name it may answer with any plan our key has signed, of whatever record
(`SignedRecords`): the page checks the signature and takes the record line as it is (verify.js:349-365).

### Admission, Outgoing and the code

`hits` are the limiter's windows by limiter and address; `let` when a caller, whatever its
address looks like, was let through, and `unfair` that one was refused for what others did: the two
are there for the property. `Forwarded` is what a proxy makes of the header, `ClientIP`
what the server reads in it. In `Outgoing`, `fetch` is one request through `safeFetch` and `wire`
what was sent last. The web (`Links`) is a constant: what each name may resolve to at any
time, public or not.

### ChangeEditor, NewPage and the code

| state | code |
|---|---|
| `base`, `list` | the catalogue built in, `state.changes` |
| `shown`, `form`, `review` | `S.ov`, the item that is open, the changes of an imported file |
| `awaited` | continuations of saves that wait for the storage |
| `fields`, `unticked` | the form's controls, `state.unticked` of the template editor |
| `localPick`, `reads` | the archive read, and those being read |
| `apiAt`, `catalog`, `catalogSeq`, `fetches` | the place in use, the table shown and the requests for it |
| `submission`, `posted` | the press of Build at its await, the job sent |

`ApplyOverlay` is what builds get, `ItemRows` what the Runtimes page shows: two translations of
two pieces of code that have to agree. `typed`, `ticked`, `said`, `moved`, `meant` and `built`
record what the person did and saw, for the properties.

## 3. The runs

| run | instance | shows |
|---|---|---|
| `jobqueue` | two packs, their one slot, one progress message, one fault of any kind | positions, overlapping packs, and that every accepted job ends |
| `jobqueue_faults` | one build, two slots, two progress messages, three faults | what is left on the list of queued jobs and why, the bound of the durations, final records, and that the queue implements `JobLife` |
| `jobqueue_progress` | two packs, no fault | *violated*: "Progress is saved in order, and before the final state" |
| `install` | one engine at a time, three starts, two cuts, three plans, a foreign folder, macOS, four things a command may fail on unasked | types and the five installer properties |
| `install_two` | two engines at once, no cut | *violated*: `.ti-installed` means "fully installed" |
| `page_catalogue` | one tab followed in full, one more; three issues, one of another key; two swaps | which catalogue is stored, used and built from |
| `page_editor` | one refresh in one tab | *violated*: a refresh "repaints" what was derived from the old catalogue |
| `overlay` | one tab and one that saves; no, a small and a big list; one fault. Two edits over two catalogues. Four gestures on the Create page | consent, saves, rows against builds, and what the form sends |
| `overlay_answer` | the store alone, without a fault | *violated*: the answer is about "exactly what was answered about" |
| `service` | two jobs, two requests by name, one by record, one by source; a page; three builds in a page | stored files, withdrawals, outages, paints, links and destinations |
| `installer` | four catalogues, six forms, machines on both sides of every edge; two opened installers; three signings; every service; two dropped files; four requests; one fetch; a file's life of three changes | plans and packs, what is saved, signed, paid for, said, let through, fetched and read back |
| `verify_same` | the verify page alone | *violated*: an installer just as the server made it is called changed |

**Bounds of the queue and the engine.** `MaxStep`, `MaxFaults`, `MaxStarts` and `MaxCuts` bound the models,
`MaxHistory` stands for the 50 durations the code keeps. Two jobs of one class
on one slot are the smallest instance with a position that can be wrong, a
second job that waits behind a handler, and an overlap; a third job of the class
adds only one more that waits. One job with two attempts at once needs two slots, and three
faults (a lost lock, and two more for the two attempts) reach every combination of
two activations writing one record. For the installer, three starts are install,
reinstall with another plan, and uninstall; two cuts are a run that is cut
off and a cleanup that is cut off in turn. The three plans gain a file, lose a
file, and meet a foreign folder. `Unasked` names the app's folder, one file's, the menu entries
and the marker: one thing of each kind a command may fail on without being asked. What the theorems state does not depend on any
of these bounds. `install` has `Mac = TRUE`, where the menu step can be
blocked; Linux overwrites its entries, which is the same step without that
failure (`install_two` runs it).

**Bounds of the pages.** `MaxSwaps` 2 lets a catalogue be replaced, and replaced again while what
the first replacement began is still under way. Another tab is followed as far as
the record it shares, which is all a page can see of it. Three issues are an old, a
newer and one signed by another key. One folder is enough: folders are independent but
for the generation they were unpacked in. Of the overlay, no list, a small and a big one
cover every change of place, and one more save of the tab at a time (`MaxSaves` 1) with
those of another tab the races between them. `MaxEdits` 2 is a change and another of the same or
of another item, an import being one edit of any length; `MaxReloads` 1 the page opened again over another catalogue.
`MaxGestures` 4 and one job are the Create page up to what it sends: two fields that depend
on one another, a change of one of them meanwhile and the press of Build.

**Bounds of the service.** Two writers of one file is what a shared `.tmp` name can go wrong with;
one piece a file (`Chunks`, besides the file's name itself) tells torn from
whole. `MaxTroubles` 2 is an entry that is added and a crash or a list that fails, or two
entries; `MaxMoves` 2 and `MaxFaults` 1 a user who changes ticket or server twice while one
answer, address or server is lost. A behaviour follows one *cast* of callers, because those of
different casts share no file. Three builds in a page let two overlap and a third
let links go. A page starts with the probe of its own server still under way, with or without an
explicit address. One fault (`MaxFaults`) is a lost message, an address that is out, a body that breaks off or never ends,
a probe or a build of the page that never does.

**Bounds of the installer.** The four catalogues put the floor of a release at a version, at a build
within one, at the build where the next version begins and at one above it; the
machines stand on both sides of each. The six forms cover the four kinds of source, the
three modes and both hosts' ways of packing; the lists withdraw nothing, a release with the
companion of another OS, and an extra file with a companion's variant. `MaxOpened` 2 and `MaxGestures` 3
are an installer opened while another is edited and saved; three signings (`MaxSignings`) are one under
way, one that waits for a paste, and one more, with `MaxTurns` 2 turns of a panel's fields.

**Bounds of the rest.** `MaxClock` 6 half minutes is longer than a code is good for and than an Azure
operation is asked about (`Patience`); a press is over before the next. `MaxDropped` 2 is a file
dropped while another is read or asked about, `MaxWorld` 1 a withdrawal or a new catalogue in
between. The published tree has five leaves, so that a node goes up unpaired twice. `MaxAsked` 4 requests
and `MaxNow` 3 fill a window of 2 and let it pass; `Crowd` 1 makes the limiter forget as soon as
there are two addresses. `Hops` 2 is a redirect and one more, to and from the origin that may have
the credential. `MaxLived` 3 changes to a file are an edit, a signature and another edit, in any order;
members and bodies end on, before and behind a block's end.

**Deadlock** is checked for the queue and the page's catalogue and overlay, where the parts that are bounded
by a number of gestures may rest at the bound. It is switched off where
the bounds end every behaviour: all runs of the engine over, no trouble, move or gesture left.

**Fairness.** `EveryJobEnds` uses weak fairness of `submit()` and the
worker function: Node runs each ready continuation. Of `Take`: BullMQ's
workers poll for ever. Of `Stall` of a dead activation: BullMQ looks for
lost locks periodically. Of `TimeOut`: the timer fires. Nothing is assumed about
the handler: a run that ends does so because of the timer. Restart after a
crash is part of `Crash`: the server is a systemd unit (README.md:219).
`EveryBuildGetsItsCatalogue` uses weak fairness of loading, unpacking, applying and of the
build itself: an await of the browser's storage or of decompression comes back. `TicketSettles` uses
weak fairness of the page's own steps (timers fire, requests end or time out), of the server's
jobs and of an address that is out coming back; the user owes nothing, and the property
is about a page that stays on a ticket. A body or a build that never ends is a fault that no fairness
undoes: a page that waits for one is the exception the property states. Faults, clicks and withdrawals are never fair.

**Findings.** `jobqueue_progress`: the timer does not stop the handler, whose
next progress message overwrites "failed / Failed" with a step. For the same reason the next pack
starts while that handler still works, though packs are said to run one at a time
(queue.js:9); `PacksOverlapOnlyAfterTimeout` shows that this is the only way. `install_two`: nothing keeps two runs on
one app apart, and the first one's marker lands on an install the other is
taking apart; with one engine at a time `InstalledIsComplete` holds, but for a
signal between the marker and `TI_CREATED=`, which rolls a finished install back
without taking the marker first, and but for a marker that could not be removed. `page_editor`: the Runtimes page keeps the files it read at its
start, and shows the old catalogue below a caption that names the new one.
`overlay_answer`: an answer waits for a load, and then counts for whatever that load found;
`UsedIsAnsweredOrBlind` shows that nothing else takes changes into use unasked. `verify_same`: the
comparison leaves the number of the question out but keeps the moment and the signature
of the answer, so two signed plans of one catalogue are never the same.

## 4. The proofs

### The queue

`JobQueueProofs` assumes `JobQueueAssumption` only: finitely many jobs, each of a class,
natural bounds. Its theorems hold for any number of jobs, workers and faults.

* `TypeCorrect`, `CompletedJobsAreFinal`, `PositionsAreHonest`: `Spec => []…`
* `QueueRefinesLife`: `Spec => Life!LifeSpec`, the queue implements `JobLife`;
* `PacksTakeTurns`: `Spec => []PacksOverlapOnlyAfterTimeout`, and `PhantomsAreExplained`:
  `Spec => []PhantomsHaveACause`;
* `HistoryStaysTrimmed`: `Spec => []HistoryIsTrimmed`.

None of the properties is inductive. The invariant `IInv` is `TypeOK`, and `RunOK` of each
activation (what its program counter says about its status in memory, its
unsaved progress and how its race ended), and `JobOK` of each job:

* `SubmitOK`: a job BullMQ does not have has no activation and is at most queued;
* `AttemptOK`: a waiting job's next activation has not begun, and a job without
  a stall has no second one;
* `ListOK`: a job waiting for the first time is listed; a job that started, or
  whose activation is past `zrem`, is not. This is what makes positions honest,
  and needs `zadd` before `add` and `zrem` before the first save;
* `RecordOK`: with one activation so far, the record is not ahead of what that
  activation has in memory. This gives the forward steps of `JobLife`;
* `ConclusionOK`: an activation that returned left a last state on record.

A step changes one job's part; `Unmoved` says that the others stay as they are, and
there is one lemma per action. For the refinement every write of the record is one
of `JobLife`'s actions: with one activation by `RecordOK`, with two by `Redone`.

Two more invariants build on that one. For the packs `PackInv` adds that a handler which works
and was not given up on is the one its activation waits for (`HeardOrTimedOut`), and that at most
one activation of a pack is busy, because there is one slot and a slot is held until an activation
ends or its process dies. For the list `ListInv` adds that whoever is on it was put there by its own submission and has no
activation past `zrem`, and that a job BullMQ has taken has an activation (`Listed`): so what is left there for
ever is left by that job's own submission or last attempt. For the durations each push adds one activation that has
not trimmed, or never will, and each trim leaves at most the bound.

### The installer

The module assumes `InstallAssumption` only: the names "app", "menus" and "none" are no
folder of a file, plans are sequences of folders, bounds are natural numbers; what commands fail on unasked (`Unasked`) may be anything.

`InstallEngineProofs`, for any folders, plans and number of runs **at once**:

* `InstallTypeCorrect`: `Spec => []TypeOK`;
* `FoldersOfOthersAreSafe`: `Spec => ForeignUntouched`, a folder that was there
  before and is not this app's keeps what it holds, whatever fails or is killed.

The invariant is `DiskOK` (types, and each foreign folder holds what it held),
`EngineStates` and, for each run, `RunOK`: what it has noted for its rollback,
what it is removing and the folder it fills are no foreign folder, and if the
app's own folder is foreign the run is `Harmless`. It is needed because the
rollback and `rm -rf` do not look at `.ti-owner` again: they are right only
because of what was checked when the folder was chosen.

Next, for **one run at a time** (`Engines = {e}`; with two it is
false, as `install_two` shows):

* `MarkerIsHonest`: `Spec => []InstalledIsComplete`.

`InstalledIsComplete` says nothing of a run under way, so the invariant adds
`OnDisk`: while a run is at work there is no marker (`MarkerOK`: it comes after all
the rest and goes before it), the files of the plan before the one the run is
at are there, or are that same file (`FilesOK`), and the app's folder holds what
the run's program counter says (`AppOK`). A kill or a signal leaves any of these
states behind, and they all lack the marker.

And, also for one run at a time:

* `FailuresAreTakenBack`: `Spec => []FailureLeavesNothing`;
* `RetriesAreFree`: `Spec => []RetryIsNotBlocked`;
* `UninstallIsClean`: `Spec => []UninstallLeavesNothing`.

All four leave out what a command nobody asks about failed on (`amiss`, until it is put right), because the code goes
on as if it had worked: these say that such a failure spoils nothing but the thing itself.

The last three speak of runs that have ended. The invariant `Left` follows what a run made until
then: all of it that is still there is on its list, just made and noted by
its next command, being removed by the rollback, or in the gap that a signal found
between a `mkdir` and its note. `Neat` is about all earlier runs: as long as none was cut off, every
folder of this app's and its menu entries are accounted for (`Accounted`) by the manifest, by what is being
removed, or by the list of the run, and a folder without `.ti-owner` is somebody else's, in `amiss`, or one the run is at
(`OwnedOK`). This is why a failure leaves nothing that a retry would take for
somebody else's, and an uninstaller finds everything. What an uninstaller has dealt with is
`UninstallOK`, cut off or not. With two runs at once all three would be false, since one may remove
or make the other's folders in between.

### The service

`ServiceProofs` is about three modules. Of `BuildServer` it assumes `ServerAssumption` only: a file has at
least one piece, and jobs and the three kinds of requests are different callers. For any number of calls,
files and pieces:

* `WithdrawnStaysWithdrawn`: `SpecServer => []NothingOnceWithdrawn`;
* `FilesAreWhole`: `SpecServer => []TroubleOnlyFromOverlap`.

Both properties speak of what was answered or stored in the end. The invariant speaks of calls and writes
under way: what was on the list when a call came in is still there, and the call has
passed its check only if it was not (`CallOK`, `SeenOK`; but for calls that found the list
or the record unreadable); a file is whole, or absent,
and the only writer that has its `.tmp` open knows how far it is (`WellKept`, `OnTmp`), as
long as no two writers have had it open together (`raced`).

Of `PageBuilds` it assumes `BuildsAssumption` (there is a platform, and nobody is no build):

* `OneAtATime`: `SpecBuilds => []OneAtATimeIsSafe`.

The property speaks of links that are gone and files that were written. `BuildsInv` says what leads
there: one form is sent at a time (`OneIsSent`), builds at work together are noted as such
(`WorkIsTogether`), the destination in `saveTo` and a build's copy of it are its own or of one beside it
(`DestinationIsOf`), and so is the newest generation and every link in each (`NewestIsBeside`,
`LinksAreBeside`).

Of `TicketPage` it assumes `TicketAssumption`: bounds are naturals, and "no job" and "in the page" are
no jobs. For any number of jobs, slots for polls, addresses, losses and crashes:

* `NoBuildGoesMissing`: `SpecClient => []NoBuildIsLost`;
* `ChoiceIsKept`: `SpecClient => []ChoiceYieldsToAnswers`;
* `AnswersPaintInOrder`: `SpecClient => PaintsInOrder`, an action property.

The third is where the order of answers matters. The invariant (`Good`) says that what is painted and what
an answer under way says was once so of that job at the server, and that a poll which
nothing has superseded is of the ticket in the address and says no less than what is painted. A job at
the server only goes on, but for a crash (`GoesOn`). `CountOK` balances the jobs the page does not know of, and the posts that
may still arrive, against the posts that were given up on or whose answer broke off (`unheard`).

### The page's catalogue

`PageProofs`, second part, assumes `CatalogueAssumption` only. For any number of tabs, folders,
issues and replacements:

* `NewerIsKept`: `Spec => OlderOnlyIfOvertaken`, an action property;
* `BuildsAreWhole`: `Spec => BuildIsWholeUnlessSwapped`, another.

For the first, a download that nobody overtook has looked at what is stored now (`NotOlder`).
For the second the invariant says of each tab: the catalogue in use and those on their way are
counted; an unpacked folder is in the files of the generation it was unpacked for; the cached
effective catalogue belongs to its generation; and a build whose page
has replaced nothing since it was asked for has taken all its parts from one generation.

### The page's own records and its form

`OverlayStoreProofs`, first part, for any number of tabs, lists and saves, with `OverlayAssumption` (the empty
list is not a big one, a pointer is no list, and tabs followed in full are not among the others):

* `UsedIsAgreedTo`: `Spec => []UsedIsAnsweredOrBlind`;
* `StoredIsOldOrNew`: `Spec => []SaveIsOldOrNew`.

For the first the invariant says of each tab that what it uses, and what a remembered "yes" would let it use
again, was agreed to, and that a loaded page's panel shows exactly what the next answer
takes into use (`Agreed`, `Shows`), unless an answer was given while a load was under way. For the second,
`SaveInv` says what every moment of one save looks like as long as no other overlapped it: at rest
(`Rests`), its list asked of IndexedDB (`Puts`), there but not yet pointed to (`Points`), or the old one to be
deleted (`Deletes`), each alone in the queue but for reads. A page that goes away leaves some of the queue behind:
which, is a recursive function (`Only`), and that it keeps the order and nothing but the elements of its set
is proved by the least place at which it would fail. (It is written out because `SelectSeq` is recursive in a way
the provers cannot open.)

Second part, about `NewPage`, with `NewPageAssumption` (sizes and bounds are naturals, the page itself covers
something, there is a language, and "nothing typed" is no command):

* `LaunchIsWhatWasMeant`: `SpecNewPage => []LaunchIsMeant`;
* `JobsGoWhereThePageSaid`: `SpecNewPage => []SentAsPainted`.

`NewPageInv` relates the form to what the person did: a launch field holds what was typed or the default of
its language (`LaunchOK`), boxes and `unticked` are of the template or of a hand (`BoxesOK`, `FittedOK`), what is
painted beside the button is what the fields say now, the table is the answer to the last request once that
is in (`TableOK`), and the press of Build at its await carries what was said then, unless
something moved (`UnderWay`, `PostedOK`).

### The list of changes

`FileProofs`, first part, about `ChangeEditor`, with `ChangeEditorAssumption` (the lists of a catalogue and of an imported file are
sequences, bounds are naturals). For any catalogues, imports, things typed, and order of saves and reloads:

* `RowsAreUsed`: `SpecEditor => []RowsAreWhatBuildsUse`;
* `ListsStayGood`: `SpecEditor => []EditorInv`.

`EditorInv` says that the list and the reviewed import hold well-formed changes only, at most one for
a key, and that none removes the policy (`GoodList`). It is needed because the rows look a change's status
up by its key, and because both the page and a build take one of several changes to an item, the page the last and
a build a removal if there is one. The rest is an equation between two ways of going through a list. What a
loop passes on (`Where`) is at an increasing enumeration of the places where it does, and there is one such
enumeration of a set (`OneOrder`), so it does not matter how it was found: taking what is in use from the rows of what was built in
and of what was added (`PlacesInBoth`), or from each first (`PlacesOfPlaces`), gives what `ApplyOverlay` keeps, replaces and
appends, item by item (`RowsAgree`).

### The bytes of an installer

`FileProofs`, second part, about `InstallerFile`, with `InstallerFileAssumption`: sizes are naturals, a tar block has
several cells and an alignment at least one, a base has no section of ours and a program for Windows
at least one section, and a packed file is not called `record.txt` or `plan.txt`. For any bases, icons, records, plans and packed files
of any size, whatever the alignment, and a life of any length:

* `InstallersReadBack`: `SpecFile => []ReadsBackAsPut`;
* `FilesStayGood`: `SpecFile => []FileInv`.

`FileInv` says that the installer is one of these, made of what `madeOf` says:

* a program for Windows (`ExeFile`): its sections with at most one of ours at the end (`SecsOf`), its bytes with
  the icon where that section is and the overlay behind it (`BaseOf`), the block, the padding that one signature asks for
  or none, and no table, or the table of a signature of just these bytes at their end; the checksum is none or the right one;
* a program for Linux: its base and the block;
* an app of a mac (`ZipFile`): entries of others, the block's entries (`Kept`), and nothing or a seal over
  all of these.

It is needed because `ReadsBackAsPut` does not say what lies in front of a block or behind it. A second icon replaces
the first only if the last section is ours; a second signature adds no padding only if what is there already
ends at the alignment (`PaddedOnce`); taking a signature off leaves that padding, behind which the readers still look.

The argument:

1. *The tar.* `tarWrite`, `packTarSize` and `tarRead` are recursive functions over the members or the cells. Each is shown to be
   the function its equation says (`TarFromIs`, `SizeFromIs`, `ReadFromIs`), by the least place at which none would be; then that the length is what was
   announced (`TarSized`) and what is read is what was written (`TarIsRead`), member by member from the last.
2. *The block.* `LayoutParts` finds the footer and each part at the place the footer gives for it, behind any base and in front of
   any tail.
3. *The readers.* With a footer at `e` and `k` cells of padding behind it (`EndsAt`), the page, which tries each length of padding, and the
   installer, which takes all of it off, both look at `e` (`PageFindsIt`, `EngineFindsIt`): padding is zeros, and a footer is none.
4. *The header.* An icon put into what was read gives the sections and bytes of the new icon and nothing of the old one (`ExeIconIsSet`);
   without ours, what is left is the program (`ProgramIsThere`). Signing and stripping lead from one `ExeFile` to another (`ExeIsSigned`, `ExeIsStripped`).
5. *The app.* What a loop passes on of lists in a row is what it passes on of each, in a row (`ChosenOfBoth`), so that each folder
   of an app is found again (`AppParts`).

### Plans

`PlansProofs`, for any catalogues, lists of what is withdrawn, forms and computers, in any order of
builds, plans that are asked for again and changes of the list:

* `PlansServeMachines`: `SpecPlans => []PlanServesMachines`;
* `PacksServeTicked`: `SpecPlans => []PackServesTicked`;
* `PlansAreOfTheirList`: `SpecPlans => []PlansInv`.

It assumes of a catalogue (`CatalogueAssumption`, that is `GoodCatalogue`) what `registry/os_versions.json` and
`src/build_server/policy.json` have: an OS scale is sorted, newest first, as `loadOSScale` leaves it; the one OS version that is told by its build
is Windows 11, and Windows 10 is next to it with the same number; a build that a rule asks for is one of at most five
digits; what is named by `via` and `requires` is there; and an extra file of a recipe is the same file
on every OS version that a release runs on. Without the last, blocks could be joined that download
different files, because `samePick` does not look at extras. Forms have one of the five kinds of source and name families that there are
(`FormAssumption`); a computer reports natural numbers, and no number above the newest Windows
(`ComputerAssumption`: if Windows had a higher one, the number and not the build would tell it). TLC evaluates
all three for the catalogues and computers of `installer`.

The argument follows the code from the inside out.

1. *One OS version.* The candidates are releases that are not withdrawn, whatever the memo holds, because a key
   has the list in it (`ListsAre`, `MemoIsRight`). `best` gives what fits, with the recipe that scores highest, the first
   of these, and companions that stand on their own; what it leaves for a newer build asks for a build above that
   of the OS version (`BestIs`, `CompanionsStand`). The build that is asked for is the same on every Windows (`SameBuild`), and two
   choices that `samePick` cannot tell apart bring the same (`SameGets`).
2. *One machine.* The invariant of the loop over the scale (`AccServes`) says of a computer: while the loop
   has not come to its OS version no block covers it; after that, the first that does has what is
   best for it. That joining keeps this, in its four forms (a conditional block alone or joined,
   a pick begun or extended), is `CondServes` and `PickServes`: a block that grows downward covers no computer above, a
   conditional block comes before the one that serves the rest, and the build that a block asks for falls back to 0 just where
   Windows 10 joins Windows 11. `FoldServes` is the induction, made by the least step at which it would fail.
3. *A plan* is the lists of three machines on three families, one after the other: no block of another
   machine or family covers the computer (`FamilyServes`, `BlocksServe`).
4. *A target* is its block's choice or says why there is none (`TargetServes`), so that the first that fits a computer
   is right for it (`PlanServes`).
5. *An installer* made of that plan has the files of each target that a ticked system needs, or of all
   (`InstallerServes`), and its catalogue was unpacked far enough: what a plan asks for is in the set
   `runtimeNeeds` visits (`NoneMissing`).

`PlansInv`, the inductive part, says that the memo is right under every list there has been, and that what was
made last is of a form that its host found valid. It is needed for `Serve`, which makes a plan of an earlier
build's record with the memo and the list of now.

### What is made of an installer

`InstallerProofs` is about five modules, each with an invariant of its own.

* `SignPanel` (for any number of files, services and signings): `CredentialsAreForOneSigning` and
  `WhatIsShownIsSigned`. `PanelInv` says of each signing at an await what it is at work on, that it is *steady*,
  of the installer and the credentials that are there now, unless it was disturbed, and whom the credentials, the waiting
  installer and the file to release belong to.
* `SignServices` (`SignServicesAssumption`: SSL.com's keys are of a kind the page can write, which is what its
  form asks for): `PaidForOnce`. Its invariant says what each stage needs to have been reached (`StageOK`), and that nothing was performed as long
  as there is a next call (`PaidOK`): the call that signs is the last, whatever comes of it, and what comes of it can be written unless the
certificate was for the page to give and is not the key's.
* `EditPage` (`EditAssumption`: a file is signed or not and has a plan or not): `SavesAreOneInstaller`. `EditInv` says which opening each part on
  the page is of, and that a save at its await, or one with a part from elsewhere, is marked `overlap`.
* `Admission` (`AdmissionAssumption`: the window is not 0, loopback is no caller, each route has a limiter):
  `LimitsArePerCaller`. What the limiter holds of one address in the window is what it let through (`FairTo`),
  whoever is forgotten, because only addresses that have gone quiet are.
* `Outgoing` (`OutgoingAssumption`: what is inside starts with one of the prefixes that are set apart for such
  addresses): `NothingReachesInside`. That `isPublic` is false for all of them, mapped into IPv6 or not, is the lemma
  `LocalIsNotPublic`, over all addresses of 4 or 16 bytes; `OutgoingInv` is about credentials hop by hop.

### What the verify page says

`PageProofs`, first part, assumes `VerifyAssumption` (bounds are naturals) and `DocumentsAssumption`: what is read has
lists where lists belong, and our key has signed no tree but that of the published blocks. Hashes are
injective. For any files, answers, ledgers, trees and proofs:

* `NothingIsMixed`: `SpecVerify => []MixedOnlyWhenCrossed`;
* `RewriteIsNoticed`: `SpecVerify => []RewriteIsSeen`;
* `ReassuringRowsAreEarned`: `SpecVerify => []RowsAreEarned`.

The first needs that every file still on its way was dropped at the end or is marked (`Overtaken`). The others are about
what the recursive functions compute. Two ledgers with one chain root are one list of entries; a ledger goes
on from a root just if it has the entries behind it as a prefix. A proof that leads from a leaf to the root of a tree
ends at a leaf of it, whatever its length and sides are, because a pair is a hash of no leaf. Each is an induction,
made by the least number at which it would fail (`LeastNat`, from the library's well-founded induction),
since the library's induction theorems themselves take an operator the provers cannot instantiate.

### Only model-checked

Every safety property of the passing runs is the statement of a theorem. What stays with TLC is liveness, and the
`ENABLED` behind fairness: `EveryJobEnds`, `EveryBuildGetsItsCatalogue` and `TicketSettles`.
## 5. What is left

* `BuildServer` and `JobQueue` in one specification, so that a withdrawal between two attempts of one
  job is a step of both. Now `BuildServer` restarts a job by itself.
* The Windows installer, command by command.
* The text of plans and scripts, if a property is found that depends on it.

## 6. Not modelled, and why

* **Plan signing**: a signature is one step of `BuildServer`, and the encodings behind it are wording.
* **Catalogue on the server**: loaded at start and only read.
* **Cryptography of old browsers**: arithmetic on large numbers; the repository's test vectors are
  the right check. In the models a hash is the thing it is taken of.
* **The Windows installer and its plug-ins**: the same protocol of folders, owner files, manifest and
  marker, but NSIS has other failure rules (errors are flags, deletes may wait for a restart),
  so nothing in `InstallEngine` is claimed for it.
* **Packing scripts, site build, mirror and release tools, registry data and its collectors**: run by hand,
  one at a time.
* **Tests, test lab, vendored code.**

Of the components that are modelled in part, the following is left out. *Installer engine*: finding and
checking its metadata, somebody else who replaces a folder between its check and an `rm -rf`, screens, elevation, the choice of a download source. *Server*: parsing of requests,
byte ranges, static pages. *Store*: icons, installers (each under a name of its own), tar listings.
*Takedown*: the serial and the signed document of the hour. *Builder*: what code hosts and
registries answer, archive bytes, messages. *Resolver*: the text of plans and install scripts.
*Files*: deflated bytes, the central directory of a zip, the pixels of an icon. *API client*: waiting
times and 429 answers, which only delay. *Overlay*: which releases an edit changes when fields
are merged, and diffs; a stored list that cannot be parsed (overlay.js:876, 899). *Pages*: filters, wording, layout, `router.js`, `trust.js`, dialogs.
*Verify page*: table layout, and the button that asks a server what it calls a file.
*Signing*: the commands DigiCert's users run themselves.

## 7. Noticed on the way

Not findings of a run, but places where the code was read twice. Those with a property are named.

### Runtimes page and overlay

* `saveItem` goes on before the `ti-overlay-change` listener updates `S.ov`: after a save the form shows the row
  as it was before (catalog-editor.js:778 says otherwise), and saving again undoes the first edit.
* `revert(row)` awaits, and then fills whatever form is open by then.
* The preview appends the edited change at the end; a save keeps its place.
* An import may name one release by fewer fields: two changes of one item, of which the rows show
  the last and builds let the removal win.
* When a big list replaces a big one, the pointer in localStorage stays the same text, so no `storage` event tells
  the other tabs. `state.storage` "memory" is never taken back.
* `loadOverlay` adopts a stored catalogue older than the one built in; a folder nobody has
  touched is loaded from whatever catalogue is in use by then.
* Two page builds that overlap share the effective catalogue object (local-api.js:202-207 sets
  its install scripts after an await): the first plan may carry no proofs.

### Create page

* The last archive to be read wins, not the last picked. The size line is painted on the change
  event, before the archive is read.
* `paintPackWhere` says that the server packs uploads too; the page does, and is not asked where to.
* A typed launch command that equals the default of the moment is overwritten later, though
  new.js says an edit is never thrown away (`LaunchIsMeant` states what holds).
* Platforms a template unticked stay unticked when the source is no longer "write"; one ticked and
  unticked again by hand is ticked by the next template.
* A catalogue fetch that fails leaves the former server's table. A pack's destination survives a form
  that is refused.
* A page's pack for a ticked platform without a ticked target fails in the build though the form lets it pass.

### Plans

* `samePick` does not compare extras, which the policy that ships never makes differ.
* glibc older than 2.5 falls in the musl block; 32-bit Windows 5.2 has no block; companions of
  companions are not written into a plan.
* Installing packages from an offline installer still needs the network; `nfile` of prerequisites is not packed
  by a page, though builder.js:155 says that an offline installer carries every byte. Their files are not checked
  against revocations by the plan; the engine checks `nfile`.
* Plans made in a page use the revocation list built into it. The server's `unmirrored` uses the list
  that `setRevoked` got last, whoever called it.

### Editing, signing, verifying

* Overlapping signings share one credentials variable (`CredentialsServeOneSigning` states what holds). A paste
  whose build fails keeps its credentials, against sign-ui.js:166-176; a paste that is finished after its waiting
  state was cancelled gives an error and no file.
* The last installer to be read wins on the edit page; a save asks for the consent to unsigned parts before its awaits.
* A Cloud KMS key of a kind the page cannot write (PSS) is used, and charged, before the page refuses the result; DigiCert's
  options offer SHA384WithECDSA, which the page cannot write (sign-services.js:584-598). One poll of Azure that
  is not 200, such as a relay's hiccup, gives up an operation that will be charged.
* With AWS KMS, and Azure when it sends no certificate, "Give your certificate first" comes after the charge
  (sign-ui.js:346), though sign-services.js:589 says that a billed signature that cannot be used helps nobody.
* A plan our key signed for another record is taken as the answer to a name (verify.js:349-365), which is what the comment at 351-356
  is about: the withdrawal list is then asked about that other record. `RowsAreEarned` says what the row is still worth.
* Files dropped on the verify page may overlap (`MixedOnlyWhenCrossed`). "Withdrawn since? no" is not
  qualified when the page has no key built in, though the comment says the list is checked before it is believed.

### Server and page

* `takenDown()` answers no for everything when takedown.txt cannot be read, though server.js:300 says that its callers fail
  closed. `NothingOnceWithdrawn` leaves these calls out.
* An archive that is withdrawn by its SHA-256 goes on being named in plans of builds made before (jobs.js:141-154).
* The time-out of a request ends with the headers (api.js:444-452): a body that never ends holds its poll, or the whole page if it
  is the probe's, for good; a post whose body breaks off is an error to the user while its build goes on.
* The page's own builds have no time-out.
* A fallback check overrides a user's "build in this page", and so does the probe of the page's own server, which goes by
  what was explicit when the page was loaded (`ChoiceYieldsToAnswers` states what holds). A fetch
  that fails after the switch to the page sets `isDown`, and a post that waits may stay stuck.
* After a fallback to an address the name is not tried again. `start()` without a job does not
  advance `pollSeq`, so a late answer is painted. `paintWhere` reads `apiLocal()`.
* Page builds that fail never let go of their links.
* Credentials go along on a redirect to the same origin, though signrelay.js says "never sent anywhere but the
  one upstream URL". `ClientIP` leaves out the `Forwarded` header, since the proxy that is documented writes
  `X-Forwarded-For`.

### Installer

* `rm -rf` is not asked about in the rollback (ti-engine.sh:2013), before a download (4502) or in the uninstaller (3128, 3132), which then reports
  "has been removed". `FailureLeavesNothing`, `RetryIsNotBlocked` and `UninstallLeavesNothing` except just the things it was refused on.
* Nor is the write of `.ti-owner` into a file's folder (4506): the next run takes that folder for somebody else's.
