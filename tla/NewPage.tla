------------------------------- MODULE NewPage -------------------------------
(***************************************************************************)
(* The Create page (new.js, write-editor.js, form-job.js): a form whose    *)
(* fields follow one another, the catalogue and the place the installers   *)
(* are made at, and the job it sends.                                      *)
(*                                                                         *)
(* A launch command, an archive and a server are names; the size of what   *)
(* is packed is a count.                                                   *)
(***************************************************************************)
EXTENDS Integers, FiniteSets
LOCAL INSTANCE FiniteSetsExt

CONSTANTS
    Systems,     \* what installers are built for
    Computers,  \* the one the page is open on, if it is one of them
    Commands,    \* by runtime that has a launch field: what it starts with
    TemplatesOf, \* by runtime: its templates, each [launch, platforms]
    Writes,      \* launch commands a person may type
    Packable,    \* boxes of the offline table: [platform, mb]
    Coverage,    \* by place and runtime: the boxes there is a build for
    Archives,    \* what may be picked "from my computer", by size
    PackMax,     \* PACK_MAX_MB
    MaxGestures \* bound: what the person and the network do before a job is sent

Absent == "nothing"

ASSUME NewPageAssumption ==
    /\ PackMax \in Nat /\ MaxGestures \in Nat
    /\ "page" \in DOMAIN Coverage
    /\ \A x \in DOMAIN Packable : Packable[x].mb \in Nat
    /\ DOMAIN Commands # {} /\ Absent \notin Writes

VARIABLES
    fields,     \* what the form's fields hold
    unticked,   \* the platforms write-editor unticked
    localPick,  \* the archive or folder read, if any
    reads,      \* picks still being read
    apiAt,      \* "page" or the server in use
    catalog,    \* the table shown: [of, seq] or NoTable
    catalogSeq,
    missed,     \* the last of these requests failed
    fetches,    \* catalogue requests under way, by seq: the place asked
    maker,      \* what the page says makes the installers
    submission, \* the press of Build under way, or Idle
    posted,     \* the last job sent
    typed,      \* by runtime: what the person last typed and the form still owes
    ticked,     \* platforms ticked by hand since the choice they were fitted to
    gestures

newPageVars == <<fields, unticked, localPick, reads, apiAt, catalog, catalogSeq, missed, fetches, maker, submission, posted,
                 typed, ticked, gestures>>

NoTable == [of |-> Absent, seq |-> 0]
Idle == [stage |-> "idle"]
NothingSent == [to |-> Absent]

(***************************************************************************)
(* What follows from the fields                                            *)
(***************************************************************************)
HasTemplate(f) == f.runtime \in DOMAIN TemplatesOf /\ f.template \in DOMAIN TemplatesOf[f.runtime]
TemplateFor(f) == TemplatesOf[f.runtime][f.template]

\* The launch command the field starts with for what is chosen.
LaunchFor(f) == IF f.kind = "write" /\ HasTemplate(f) THEN TemplateFor(f).launch ELSE Commands[f.runtime]

\* Mutant: a written app always shows its template's.
SyncLaunchAlways(f) ==
    IF f.runtime \notin DOMAIN Commands THEN f
    ELSE [f EXCEPT !.default[f.runtime] = LaunchFor(f),
                   !.value[f.runtime] = IF @ = f.default[f.runtime] \/ f.kind = "write" THEN LaunchFor(f) ELSE @]

\* The default moves with the choices, and the text with it while the two are
\* the same.
SyncLaunchDefault(f) ==
    IF f.runtime \notin DOMAIN Commands THEN f
    ELSE [f EXCEPT !.default[f.runtime] = LaunchFor(f),
                   !.value[f.runtime] = IF @ = f.default[f.runtime] THEN LaunchFor(f) ELSE @]

LaunchEdited(f) == f.runtime \in DOMAIN Commands /\ f.value[f.runtime] # f.default[f.runtime]

\* A template for some platforms unticks the others; they are ticked again
\* when a template that has them is chosen.
Fits(f) == f.kind = "write" /\ HasTemplate(f)
FitPlatforms(f) ==
    IF Fits(f) THEN [f EXCEPT !.targets = (@ \cup unticked) \cap TemplateFor(f).platforms] ELSE f
UntickedBy(f) ==
    IF Fits(f) THEN (unticked \cup f.targets) \ TemplateFor(f).platforms ELSE unticked

\* A box the catalogue has no build for is unticked and greyed out.
HasBuild(f, table) == IF table = NoTable THEN DOMAIN Packable ELSE Coverage[table.of][f.runtime]
PaintOfflineArches(f, table) == [f EXCEPT !.boxes = @ \cap HasBuild(f, table)]

\* The ticked boxes of the platforms that are ticked: a job has all of them.
OfflineTargets(f) == {x \in f.boxes : Packable[x].platform \in f.targets}
OfflineSize(f, upload) ==
    MapThenSumSet(LAMBDA x : Packable[x].mb, OfflineTargets(f)) + IF upload = Absent THEN 0 ELSE Archives[upload]
Uploaded(f) == IF f.kind = "local" THEN localPick ELSE Absent

\* Past what one file can hold the shape is set to the zip, not set back.
PaintOfflineSize(f) == [f EXCEPT !.zip = @ \/ OfflineSize(f, Uploaded(f)) >= PackMax]

\* Mutant: as the place says.
PaintPlace(f, place) == place
\* Files of the person's computer are packed by the page, whatever the place.
PaintWhere(f, place) == IF f.kind = "local" THEN "page" ELSE place

Busy == submission # Idle
Gesture == gestures < MaxGestures /\ posted = NothingSent /\ gestures' = gestures + 1
RestOfPage == UNCHANGED <<localPick, reads, apiAt, catalog, catalogSeq, missed, fetches, posted>>
Moved == submission' = IF Busy THEN [submission EXCEPT !.moved = TRUE] ELSE submission

\* What the form owes: a typed command, until it is a default that is shown.
Owed(f, before) ==
    [r \in DOMAIN Commands |-> IF before[r] = f.default[r] THEN Absent ELSE before[r]]

(***************************************************************************)
(* What the person does                                                    *)
(***************************************************************************)
\* The listeners of one change, those of the field before those of the form.
Changed(f) ==
    LET g == PaintOfflineSize(SyncLaunchDefault(f))
    IN  /\ fields' = g
        /\ maker' = PaintWhere(g, apiAt)
        /\ typed' = Owed(g, typed)

\* The source, the language and the template each repaint the editor.
Choose(f) ==
    /\ Gesture /\ f # fields
    /\ unticked' = UntickedBy(f)
    /\ Changed(LET g == FitPlatforms(f) IN IF f.runtime = fields.runtime THEN g ELSE PaintOfflineArches(g, catalog))
    /\ ticked' = {}
    /\ Moved /\ RestOfPage

ChooseSource == \E k \in {"repo", "write", "local"} : Choose([fields EXCEPT !.kind = k])
ChooseRuntime == \E r \in DOMAIN Coverage["page"] : Choose([fields EXCEPT !.runtime = r])
ChooseTemplate == \E t \in UNION {DOMAIN TemplatesOf[r] : r \in DOMAIN TemplatesOf} : Choose([fields EXCEPT !.template = t])

Tick ==
    \E f \in {[fields EXCEPT !.targets = IF p \in @ THEN @ \ {p} ELSE @ \cup {p}] : p \in Systems}
             \cup {[fields EXCEPT !.boxes = IF x \in @ THEN @ \ {x} ELSE @ \cup {x}] : x \in HasBuild(fields, catalog)}
             \cup {[fields EXCEPT !.offline = ~@]} :
        /\ Gesture /\ Changed(f)
        /\ ticked' = (ticked \cup (f.targets \ fields.targets)) \cap f.targets
        /\ Moved /\ RestOfPage /\ UNCHANGED unticked

TypeLaunch ==
    /\ Gesture /\ fields.runtime \in DOMAIN Commands
    /\ \E x \in Writes :
        LET f == SyncLaunchDefault([fields EXCEPT !.value[fields.runtime] = x])
        IN  fields' = f /\ typed' = Owed(f, [typed EXCEPT ![fields.runtime] = x])
    /\ Moved /\ RestOfPage /\ UNCHANGED <<unticked, maker, ticked>>

TypeSource ==
    /\ Gesture
    /\ \E s \in {Absent, "package", "inside a repository"} : fields' = [fields EXCEPT !.source = s]
    /\ Moved /\ RestOfPage /\ UNCHANGED <<unticked, maker, typed, ticked>>

\* The change is heard by the form before the archive is read.
PickArchive ==
    /\ Gesture /\ Changed(fields)
    /\ \E a \in DOMAIN Archives : reads' = reads \cup {a}
    /\ UNCHANGED <<unticked, localPick, apiAt, catalog, catalogSeq, missed, fetches, submission, posted, ticked>>

\* What was read last is what was picked, whichever was picked last.
ArchiveRead ==
    /\ \E a \in reads : localPick' \in {a, Absent} /\ reads' = reads \ {a}
    /\ UNCHANGED <<fields, unticked, apiAt, catalog, catalogSeq, missed, fetches, maker, submission, posted, typed, ticked, gestures>>

(***************************************************************************)
(* The place and its catalogue                                             *)
(***************************************************************************)
FetchCatalog(place) ==
    /\ catalogSeq' = catalogSeq + 1 /\ missed' = FALSE
    /\ fetches' = [n \in DOMAIN fetches \cup {catalogSeq'} |-> IF n = catalogSeq' THEN place ELSE fetches[n]]

\* Another server, or the page, chosen or fallen back to.
PlaceChanges ==
    /\ Gesture
    /\ \E place \in DOMAIN Coverage \ {apiAt} :
        /\ apiAt' = place /\ maker' = PaintWhere(fields, place) /\ FetchCatalog(place)
    /\ Moved
    /\ UNCHANGED <<fields, unticked, localPick, reads, catalog, posted, typed, ticked>>

\* The changes of the overlay change the page's own catalogue.
CatalogChanges ==
    /\ Gesture /\ apiAt = "page" /\ FetchCatalog(apiAt)
    /\ UNCHANGED <<fields, unticked, localPick, reads, apiAt, catalog, maker, submission, posted, typed, ticked>>

\* Only the answer to the last request is taken.
Wanted(n) == n = catalogSeq

CatalogAnswers ==
    \E n \in DOMAIN fetches :
        LET table == [of |-> fetches[n], seq |-> n]
        IN  /\ fetches' = [m \in DOMAIN fetches \ {n} |-> fetches[m]]
            /\ \/ missed' = (missed \/ n = catalogSeq) /\ UNCHANGED <<catalog, fields>>     \* it fails
               \/ /\ Wanted(n)
                  /\ catalog' = table
                  /\ fields' = PaintOfflineSize(PaintOfflineArches(fields, table))
                  /\ UNCHANGED missed
               \/ ~Wanted(n) /\ UNCHANGED <<catalog, fields, missed>>
            /\ UNCHANGED <<unticked, localPick, reads, apiAt, catalogSeq, maker, submission, posted, typed, ticked, gestures>>

(***************************************************************************)
(* Build                                                                   *)
(***************************************************************************)
\* The sentences a form is refused with; a URL inside a repository throws.
ProblemsOf(f, upload) ==
    {p \in {"platforms", "template", "archive", "signing", "source", "targets", "size"} :
        CASE p = "platforms" -> f.targets = {}
          [] p = "template" -> f.kind = "write" /\ (~HasTemplate(f) \/ ~(f.targets \subseteq TemplateFor(f).platforms))
          [] p = "archive" -> f.kind = "local" /\ upload = Absent
          [] p = "signing" -> f.kind = "local" /\ f.mode = "A"
          [] p = "source" -> f.kind = "repo" /\ f.source \in {Absent, "inside a repository"}
          [] p = "targets" -> f.mode # "A" /\ f.offline /\ f.targets # {} /\ OfflineTargets(f) = {}
          [] p = "size" -> f.mode # "A" /\ f.offline /\ ~f.zip /\ OfflineSize(f, upload) >= PackMax}

JobFromForm(f, upload) ==
    [source |-> CASE f.kind = "write" -> "inline" [] f.kind = "local" -> upload [] OTHER -> f.source,
     upload |-> f.kind = "local",
     launch |-> IF f.kind = "write" /\ ~LaunchEdited(f) THEN TemplateFor(f).launch
                ELSE IF f.runtime \in DOMAIN Commands THEN f.value[f.runtime] ELSE Absent,
     platforms |-> f.targets,
     offline |-> f.mode # "A" /\ f.offline,
     targets |-> IF f.mode # "A" /\ f.offline THEN f.boxes ELSE {}]

\* What the person means to start, by what they typed and chose.
Meant(f) ==
    IF f.runtime \in DOMAIN Commands /\ typed[f.runtime] # Absent THEN typed[f.runtime]
    ELSE IF f.runtime \in DOMAIN Commands \/ f.kind = "write" THEN LaunchFor(f) ELSE Absent

Submit ==
    /\ Gesture /\ ~Busy
    /\ submission' = [stage |-> "icon", said |-> maker, moved |-> FALSE]
    /\ RestOfPage /\ UNCHANGED <<fields, unticked, maker, typed, ticked>>

\* The icon is read, or too big; the form is read as it is by then.
IconRead ==
    /\ Busy /\ submission.stage = "icon"
    /\ \/ submission' = Idle
       \/ /\ ProblemsOf(fields, Uploaded(fields)) = {}
          /\ LET job == JobFromForm(fields, Uploaded(fields))
             IN  submission' = [stage |-> IF job.offline /\ apiAt = "page" THEN "ask" ELSE "send", job |-> job,
                                said |-> submission.said, moved |-> submission.moved,
                                meant |-> Meant(fields), built |-> HasBuild(fields, catalog)]
    /\ RestOfPage /\ UNCHANGED <<fields, unticked, maker, typed, ticked, gestures>>

\* Where to put a big pack is asked, or need not be.
Asked ==
    /\ Busy /\ submission.stage = "ask"
    /\ submission' = [submission EXCEPT !.stage = "send"]
    /\ RestOfPage /\ UNCHANGED <<fields, unticked, maker, typed, ticked, gestures>>

\* Uploads are the page's own, the rest goes to the place in use.
Send ==
    /\ Busy /\ submission.stage = "send"
    /\ posted' = [to |-> IF submission.job.upload THEN "page" ELSE apiAt, job |-> submission.job,
                  said |-> submission.said, moved |-> submission.moved,
                  meant |-> submission.meant, built |-> submission.built]
    /\ submission' = Idle
    /\ UNCHANGED <<fields, unticked, localPick, reads, apiAt, catalog, catalogSeq, missed, fetches, maker, typed, ticked, gestures>>

-----------------------------------------------------------------------------
\* The page opens with one platform ticked, the computer's own.
InitNewPage ==
    LET opened == [kind |-> "repo", runtime |-> CHOOSE r \in DOMAIN Commands : TRUE,
                   template |-> "script", source |-> Absent, mode |-> "C",
                   targets |-> {}, boxes |-> {x \in DOMAIN Packable : Packable[x].on}, offline |-> FALSE, zip |-> FALSE,
                   value |-> Commands, default |-> Commands]
    IN  /\ \E p \in Computers, m \in {"A", "C"} : fields = [opened EXCEPT !.targets = {p}, !.mode = m]
        /\ apiAt \in DOMAIN Coverage
        /\ maker = PaintWhere(fields, apiAt)
        /\ catalogSeq = 1 /\ missed = FALSE /\ fetches = [n \in {1} |-> apiAt]
        /\ unticked = {} /\ localPick = Absent /\ reads = {} /\ catalog = NoTable
        /\ submission = Idle /\ posted = NothingSent
        /\ typed = [r \in DOMAIN Commands |-> Absent] /\ ticked = {} /\ gestures = 0

NextNewPage ==
    \/ ChooseSource \/ ChooseRuntime \/ ChooseTemplate \/ Tick \/ TypeLaunch \/ TypeSource
    \/ PickArchive \/ ArchiveRead \/ PlaceChanges \/ CatalogChanges \/ CatalogAnswers
    \/ Submit \/ IconRead \/ Asked \/ Send

SpecNewPage == InitNewPage /\ [][NextNewPage]_newPageVars

(***************************************************************************)
(* Properties                                                              *)
(***************************************************************************)
\* An edit of the launch command is never thrown away, however the source,
\* the language and the template change after it, and a field that was left
\* alone has the command of what is chosen (syncLaunchDefault). A text that is
\* the default of the moment is taken for one that was left alone.
LaunchIsMeant ==
    /\ \A r \in DOMAIN Commands : typed[r] # Absent => fields.value[r] = typed[r]
    /\ posted # NothingSent => posted.job.launch = posted.meant

\* A job goes where the page said it would when Build was pressed, unless the
\* person or the place moved meanwhile; what it packs has a build in the table
\* that was shown; what a template cannot do is ticked only by hand, and what
\* was unticked for another one is ticked again; and the table is the answer
\* of the place in use once that has answered (paintWhere, paintOfflineArches,
\* fitPlatforms, fetchCatalog).
SentAsPainted ==
    /\ posted # NothingSent =>
        /\ posted.to = posted.said \/ posted.moved
        /\ posted.job.targets \subseteq posted.built
    /\ Fits(fields) =>
        /\ fields.targets \ TemplateFor(fields).platforms \subseteq ticked
        /\ unticked \cap TemplateFor(fields).platforms = {}
    /\ catalogSeq \notin DOMAIN fetches /\ ~missed => catalog.of = apiAt
=============================================================================
