-------------------------------- MODULE Plans --------------------------------
(***************************************************************************)
(* From a form to installers: the request a form makes (form-job.js), its  *)
(* check and its build (builder.js), the plan of each platform with the    *)
(* files an offline installer carries (local-api.js in a page, jobs.js on  *)
(* the build server), and the target an engine picks on a machine.         *)
(*                                                                         *)
(* A page has the list of what is withdrawn that is built into it, and     *)
(* unpacks the catalogue a folder at a time; the server has all of the     *)
(* catalogue, and a list that changes.                                     *)
(***************************************************************************)
EXTENDS Resolver

CONSTANTS
    Catalogues,  \* catalogues by name
    Forms,       \* what a form may hold
    Lists,       \* lists of what is withdrawn
    Computers,   \* machines somebody may run an installer on
    MaxChanges   \* bound: how often the server's list changes

VARIABLES
    host,        \* "page" or "server"
    cat,         \* the name of the catalogue in use
    list,        \* what is withdrawn
    changes,     \* how often it changed
    loaded,      \* the runtimes whose folders are unpacked
    remembered,  \* the memo: for each key, the list it was worked out with
    made         \* the build made last

planVars == <<host, cat, list, changes, loaded, remembered, made>>

The == Catalogues[cat]

\* A family's OS versions, newest first; Windows 11 is told from Windows 10,
\* the next one, by its build alone.
GoodScale(scale, f) ==
    /\ Len(scale) \in Nat /\ DOMAIN scale = 1..Len(scale)
    /\ \A i \in DOMAIN scale :
          /\ scale[i].family = f /\ scale[i].int \in 0..NoTop /\ scale[i].build \in Nat
          /\ scale[i].arches \subseteq ToSet(Machines)
          /\ f = "windows" => scale[i].id # "musl"
          /\ scale[i].build > 0 =>
                /\ f = "windows" /\ scale[i].id = "11" /\ scale[i].build >= Windows11Build /\ i = 1
                /\ Len(scale) >= 2 /\ scale[2].id = "10" /\ scale[2].int = scale[1].int
    /\ \A i, j \in DOMAIN scale : i < j => OlderThan(scale[j], scale[i])

NoBuild == 99999  \* higher than any build of Windows

\* A release has at most one pinned file for each name, on any OS version.
GoodRuntime(c, rt) ==
    /\ IsFiniteSet(rt.releases) /\ \A e \in rt.releases : e.arch \in Arches
    /\ Len(rt.recipes) \in Nat /\ DOMAIN rt.recipes = 1..Len(rt.recipes)
    /\ \A r \in rt.rules : r.minBuild \in 0..NoBuild
    /\ ToSet(Families) \subseteq DOMAIN rt.via \cap DOMAIN rt.requires
    /\ \A f \in DOMAIN rt.via : rt.via[f] \in DOMAIN c.runtimes
    /\ \A f \in DOMAIN rt.requires : \A q \in rt.requires[f] : q.runtime \in DOMAIN c.runtimes
    /\ \A name \in DOMAIN rt.extraFiles : LET sources == rt.extraFiles[name].sources IN
          /\ DOMAIN sources \subseteq Nat
          /\ \A e \in rt.releases : \A i, j \in DOMAIN sources :
                Matches(e.v, sources[i].versions) /\ Matches(e.v, sources[j].versions) =>
                    sources[i].file = sources[j].file

GoodCatalogue(c) ==
    /\ \A f \in ToSet(Families) : GoodScale(c.os[f], f)
    /\ DOMAIN c.methodOrder \subseteq Nat /\ IsFiniteSet(DOMAIN c.runtimes)
    /\ \A id \in DOMAIN c.runtimes : GoodRuntime(c, c.runtimes[id])

\* What the catalogues that are shipped keep to.
ASSUME CatalogueAssumption == \A n \in DOMAIN Catalogues : GoodCatalogue(Catalogues[n])

ASSUME FormAssumption ==
    \A form \in Forms : /\ form.source \in {"inline", "github", "url", "upload", "package"}
                        /\ form.platforms \subseteq ToSet(Families)

\* No Windows has a higher number than the newest.
ASSUME ComputerAssumption ==
    \A m \in Computers :
        /\ m.family \in ToSet(Families) /\ m.int \in 0..NoTop /\ m.build \in Nat
        /\ \A n \in DOMAIN Catalogues : \A i \in DOMAIN Catalogues[n].os[m.family] :
              Catalogues[n].os[m.family][i].build > 0 => m.int <= Catalogues[n].os[m.family][i].int

(***************************************************************************)
(* The form                                                                *)
(***************************************************************************)
\* The systems a pack may cover, with the OS numbers each one means; {} is
\* every version of its family.
OfflineTargets == {
    [id |-> "win_1011", family |-> "windows", arches |-> {"amd64", "x86", "arm64"}, on |-> {"amd64"}],
    [id |-> "win_78", family |-> "windows", arches |-> {"amd64", "x86"}, on |-> {}],
    [id |-> "win_vista", family |-> "windows", arches |-> {"x86"}, on |-> {}],
    [id |-> "win_xp", family |-> "windows", arches |-> {"x86"}, on |-> {}],
    [id |-> "linux", family |-> "linux", arches |-> {"amd64", "x86", "arm64"}, on |-> {"amd64"}],
    [id |-> "mac", family |-> "macos", arches |-> {"amd64", "arm64"}, on |-> {"amd64", "arm64"}]}

TargetOS(id) == CASE id = "win_1011" -> {1000}
                  [] id = "win_78" -> {601, 602, 603}
                  [] id = "win_vista" -> {600}
                  [] id = "win_xp" -> {501}
                  [] OTHER -> {}

\* A form without the picker asks for the defaults.
Ticked(form) ==
    IF form.picker THEN {t \in form.ticked : \E o \in OfflineTargets : t[1] = o.id /\ t[2] \in o.arches}
    ELSE {<<o.id, a>> : o \in OfflineTargets, a \in {"amd64", "arm64", "x86"}}
         \cap UNION {{o.id} \X o.on : o \in OfflineTargets}

FamilyOf(id) == (CHOOSE o \in OfflineTargets : o.id = id).family

Offline(form) == form.mode # "A" /\ form.offline

FormProblem(form) ==
    \/ form.platforms = {}
    \/ /\ Offline(form) /\ form.picker
       /\ ~ \E t \in Ticked(form) : FamilyOf(t[1]) \in form.platforms
    \/ form.source = "upload" /\ form.mode = "A"
    \/ form.select = "range" /\ form.range = {}

(***************************************************************************)
(* validate: what a host refuses to build                                  *)
(***************************************************************************)
Modes == IF host = "server" THEN {"A", "B", "C"} ELSE {"B", "C"}

Valid(form) ==
    /\ form.runtime \in DOMAIN The.runtimes
    /\ form.mode \in Modes
    /\ form.select = "range" => form.range # {}
    /\ form.prereqs \subseteq DOMAIN The.prereqs
    /\ \A t \in form.tools \cap DOMAIN The.tools : form.runtime \in The.tools[t]
    /\ CASE form.source = "inline" -> form.names # {}
         [] form.source = "github" -> ~Offline(form)
         [] form.source = "url" -> host = "server"
         [] form.source = "upload" -> host = "page" /\ form.mode # "A"
         [] form.source = "package" -> The.runtimes[form.runtime].package # None

(***************************************************************************)
(* The record and the app                                                  *)
(***************************************************************************)
\* What an app installs: its own command, "default" for the policy's or the
\* recipe's, a rule of the policy for its files, or nothing.
RuleOf(rt, form) == FirstWhere(rt.installRules, LAMBDA r : r.files \cap form.names # {})

InstallFrom(rt, form, rule) ==
    IF form.command # None THEN form.command
    ELSE IF form.source = "package" THEN "default"
    ELSE IF rule # None THEN rule.id
    ELSE IF rt.compiled \/ rt.installFiles \cap form.names # {} THEN "default" ELSE None
ProjectInstall(rt, form) == InstallFrom(rt, form, RuleOf(rt, form))

RefusedByRule(rt, form) ==
    /\ form.command = None /\ form.source # "package"
    /\ RuleOf(rt, form) # None /\ RuleOf(rt, form).unsupported

App(form) ==
    LET install == ProjectInstall(The.runtimes[form.runtime], form)
    IN  [runtime |-> form.runtime, named |-> form.runtime, select |-> form.select, range |-> form.range,
         tools |-> form.tools, install |-> install,
         installs |-> form.source = "package" \/ install # None,
         package |-> form.source = "package", prereqs |-> form.prereqs, platforms |-> {}]

(***************************************************************************)
(* A plan's targets                                                        *)
(***************************************************************************)
Unsupported(rt, app, b) ==
    \E u \in rt.unsupported :
        /\ ForApp(u.for, app) /\ AnyOf(u.os, b.family) /\ AnyOf(u.arches, b.p.rel.arch)
        /\ AnyOf(u.variants, b.p.rel.variant) /\ Matches(b.p.rel.v, u.versions)

TargetPrereqs(app, b) ==
    AllPrereqs(b.p) \cup {id \in app.prereqs : The.prereqs[id].os = b.family}

CommandOf(c, family) == IF c = None THEN None ELSE c.command[family]
OSCommand(commands, v, family) ==
    CommandOf(FirstWhere(commands, LAMBDA r : Matches(v, r.versions) /\ family \in DOMAIN r.command), family)

OrElse(x, y) == IF x # None THEN x ELSE y

\* fails: the app's package or its rule has no command here.
PackageInstall(command) == [fails |-> command = None, command |-> command]
RuleInstall(rule, v, family, recipe) ==
    IF rule.unsupported THEN [fails |-> TRUE, command |-> None]
    ELSE [fails |-> FALSE, command |-> OrElse(OSCommand(rule.command, v, family), recipe)]
PlainInstall(rt, install, v, family, recipe) ==
    [fails |-> FALSE,
     command |-> IF install = "default" \/ rt.compiled
                 THEN OrElse(OSCommand(rt.installCommand, v, family), recipe) ELSE install]

InstallBy(rt, app, v, family, recipe, rule) ==
    IF app.package /\ app.install \in {None, "default"}
    THEN PackageInstall(OSCommand(IF rt.package = None THEN <<>> ELSE rt.package, v, family))
    ELSE IF rule # None THEN RuleInstall(rule, v, family, recipe)
    ELSE PlainInstall(rt, app.install, v, family, recipe)
InstallOf(rt, app, b) ==
    InstallBy(rt, app, b.p.rel.v, b.family, b.p.recipe.projectInstall,
              FirstWhere(rt.installRules, LAMBDA r : r.id = app.install))

\* All a block downloads is on our mirror, or the plan says it is not.
MirrorGap(b, prereqs) ==
    \/ ~b.p.rel.file.local
    \/ \E x \in b.p.extras : ~x.file.local
    \/ \E n \in b.p.needs : ~n.p.rel.file.local
    \/ \E id \in prereqs : The.prereqs[id].file # None /\ ~The.prereqs[id].file.local

When(b) == [family |-> b.family, min |-> b.min, max |-> b.max, minBuild |-> b.minBuild, arch |-> b.machine]
Refusal(b, why) ==
    [when |-> When(b), fail |-> why, downloads |-> {}, prereqs |-> {}, pick |-> None,
     install |-> [fails |-> FALSE, command |-> None], gap |-> FALSE]

\* The release, its extra files and its companions.
BlockFiles(p) == {p.rel.file} \cup {x.file : x \in p.extras} \cup {n.p.rel.file : n \in p.needs}
Serves(b, install, prereqs) ==
    [when |-> When(b), fail |-> None, pick |-> b.p, prereqs |-> prereqs, install |-> install,
     gap |-> MirrorGap(b, prereqs), downloads |-> BlockFiles(b.p)]

Target(app, b) ==
    LET rt == The.runtimes[app.runtime]
    IN  IF b.p = None THEN Refusal(b, IF b.gone # None THEN "withdrawn" ELSE "nothing")
        ELSE IF Unsupported(rt, app, b) THEN Refusal(b, "unsupported")
        ELSE Serves(b, InstallOf(rt, app, b), TargetPrereqs(app, b))

\* The first target for the machine.
Fits(t, m) ==
    /\ t.when.family = m.family /\ t.when.arch = m.arch
    /\ t.when.min <= m.int /\ m.int <= t.when.max
    /\ m.family = "windows" => t.when.minBuild <= m.build
Fitting(plan, m) == {i \in DOMAIN plan : Fits(plan[i], m)}
SelectTarget(plan, m) == FirstAt(plan, Fitting(plan, m))

(***************************************************************************)
(* What an offline installer carries                                       *)
(***************************************************************************)
\* Mutant: a target counts for the oldest version it covers only.
WantedByOldest(t, ticked) ==
    \E x \in ticked : /\ FamilyOf(x[1]) = t.when.family /\ t.when.arch = x[2]
                      /\ TargetOS(x[1]) = {} \/ t.when.min \in TargetOS(x[1])

\* In a page: the downloads of the targets that cover what was ticked.
Wanted(t, ticked) ==
    \E x \in ticked : /\ FamilyOf(x[1]) = t.when.family /\ t.when.arch = x[2]
                      /\ \/ TargetOS(x[1]) = {}
                         \/ \E v \in TargetOS(x[1]) : t.when.min <= v /\ v <= t.when.max
PlanPackFiles(plan, ticked) ==
    UNION {plan[i].downloads : i \in {j \in DOMAIN plan : Wanted(plan[j], ticked)}}

\* On the server: every file of every target, the prerequisites' too.
PlanFiles(app, blocks) ==
    UNION {BlockFiles(blocks[i].p) \cup ({The.prereqs[id].file : id \in TargetPrereqs(app, blocks[i])} \ {None})
           : i \in {j \in DOMAIN blocks : blocks[j].p # None}}

(***************************************************************************)
(* The catalogue, a folder at a time                                       *)
(***************************************************************************)
\* The runtimes a plan may reach, on every OS.
NextTo(id) ==
    LET rt == The.runtimes[id]
    IN  {rt.via[f] : f \in DOMAIN rt.via} \cup UNION {{q.runtime : q \in rt.requires[f]} : f \in DOMAIN rt.requires}

\* The runtimes in every set that has ids and what is next to each of its own.
Closure(ids, next) ==
    {id \in DOMAIN The.runtimes : \A S \in SUBSET DOMAIN The.runtimes :
        ids \subseteq S /\ (\A x \in S : next[x] \subseteq S) => id \in S}
RuntimeNeeds(ids) == Closure(ids, [id \in DOMAIN The.runtimes |-> NextTo(id)])

\* What one plan does ask for: a companion's stand-in is never taken.
Reached(app, families) ==
    {app.runtime} \cup UNION {Closure({Via(The, app.runtime, f)},
        [id \in DOMAIN The.runtimes |-> {q.runtime : q \in The.runtimes[id].requires[f]}]) : f \in families}

\* What is worked out for one plan is kept for the next ones; it also looks
\* at what would be there had nothing been withdrawn.
KeysOf(app, l) ==
    {CandidatesKey(l, id, f, m) : id \in RuntimeNeeds({app.runtime}),
                                  f \in ToSet(Families), m \in ToSet(Machines)}
Remember(app) ==
    [k \in DOMAIN remembered \cup KeysOf(app, list) \cup KeysOf(app, {}) |->
        IF k \in DOMAIN remembered THEN remembered[k] ELSE IF k \in KeysOf(app, list) THEN list ELSE {}]

(***************************************************************************)
(* The behaviour                                                           *)
(***************************************************************************)
InitPlans ==
    /\ host \in {"page", "server"} /\ cat \in DOMAIN Catalogues
    /\ list \in Lists /\ changes = 0
    /\ loaded = IF host = "server" THEN DOMAIN The.runtimes ELSE {}
    /\ remembered = <<>> /\ made = None

\* Something is withdrawn, or no longer.
ChangeList ==
    /\ host = "server" /\ changes < MaxChanges
    /\ list' \in Lists \ {list} /\ changes' = changes + 1
    /\ UNCHANGED <<host, cat, loaded, remembered, made>>

PlanOf(app, blocks) == [blocks |-> blocks, targets |-> [i \in DOMAIN blocks |-> Target(app, blocks[i])]]
PlanOn(app) == PlanOf(app, Blocks(The, remembered, list, app))
PlanFor(app, families) == PlanOn([app EXCEPT !.platforms = families])

\* One platform's installer: the record alone, or with it a plan and files.
InstallerOf(form, app, family, plan) ==
    [families |-> {family}, offline |-> Offline(form),
     plan |-> IF host = "page" \/ Offline(form) THEN plan.targets ELSE <<>>,
     files |-> IF ~Offline(form) THEN {}
               ELSE IF host = "page" THEN PlanPackFiles(plan.targets, Ticked(form))
               ELSE PlanFiles(app, plan.blocks),
     source |-> (host = "page" \/ Offline(form)) /\ form.source \in {"inline", "upload", "url"}]
Installer(form, app, family) == InstallerOf(form, app, family, PlanFor(app, {family}))

\* A platform's installer that would carry nothing ends a page's build.
Empty(form, i) == host = "page" /\ Offline(form) /\ i.files = {}

\* runJob: one installer after the other, up to the first that is empty.
Finished(form, all) ==
    {all[f] : f \in {g \in form.platforms : \A h \in form.platforms :
                        Empty(form, all[h]) => Index(Families, g) < Index(Families, h)}}

Made(form, app, missing, all) ==
    [form |-> form, app |-> app, list |-> list, missing |-> missing,
     of |-> IF missing \/ RefusedByRule(The.runtimes[form.runtime], form) THEN {} ELSE Finished(form, all)]

BuildWith(form, app, known) ==
    /\ loaded' = known
    /\ made' = Made(form, app, ~(Reached(app, form.platforms) \subseteq known),
                    [f \in form.platforms |-> Installer(form, app, f)])
    /\ remembered' = Remember(app)
    /\ UNCHANGED <<host, cat, list, changes>>

Build(form) ==
    /\ ~FormProblem(form) /\ Valid(form)
    /\ BuildWith(form, App(form), loaded \cup RuntimeNeeds({form.runtime}))

\* The server is asked for the plan of a record it has.
Serve ==
    /\ host = "server" /\ made # None /\ made.of # {}
    /\ made' = [made EXCEPT !.list = list,
                  !.of = {[families |-> made.form.platforms, offline |-> FALSE, files |-> {}, source |-> FALSE,
                           plan |-> PlanFor(made.app, made.form.platforms).targets]}]
    /\ remembered' = Remember(made.app)
    /\ UNCHANGED <<host, cat, list, changes, loaded>>

NextPlans == ChangeList \/ Serve \/ \E form \in Forms : Build(form)

SpecPlans == InitPlans /\ [][NextPlans]_planVars

(***************************************************************************)
(* Properties                                                              *)
(***************************************************************************)
\* The newest OS version the catalogue knows that the machine is not before.
OSOf(m) == FirstWhere(The.os[m.family], LAMBDA o : ~OlderThan(m, o))
Known(m) == OSOf(m) # None /\ m.arch \in OSOf(m).arches

\* What the machine should get, worked out for it alone from a catalogue that
\* is all there and from which l is withdrawn; lists are that catalogue's.
ForBuild(b, build) == IF b.cond # None /\ build >= b.cond.minBuild THEN b.cond ELSE b.p
BestOn(app, lists, l, m) == ForBuild(Best(The, lists, l, m.arch, OSOf(m), app), m.build)
BestFor(app, lists, l, m) == BestOn([app EXCEPT !.runtime = Via(The, @, m.family)], lists, l, m)

Gets(p) == [rel |-> p.rel, recipe |-> p.recipe, extras |-> p.extras, prereqs |-> AllPrereqs(p),
            needs |-> {n.p.rel : n \in p.needs}]

ServesBest(app, t, m, best) ==
    IF best = None THEN t.fail \in {"nothing", "withdrawn"}
    ELSE IF Unsupported(The.runtimes[app.runtime], app, [family |-> m.family, p |-> best])
    THEN t.fail = "unsupported"
    ELSE t.fail = None /\ Gets(t.pick) = Gets(best)

\* The first target of a plan that fits a machine, blocks shared by several OS
\* versions and builds and all, is what is best for that machine, after any
\* withdrawal and out of a catalogue unpacked folder by folder; and it says it
\* has nothing only where nothing is left (resolve.js resolveFiles, openCatalog
\* and setRevoked, and the engines' choice of a target).
PlanServesMachines ==
    made # None =>
        /\ ~made.missing
        /\ LET lists == [f \in ToSet(Families) |-> ListsFor(The, <<>>, made.list, f)]
           IN  \A i \in made.of, m \in Computers :
                  i.plan # <<>> /\ m.family \in i.families /\ Known(m) =>
                    /\ Fitting(i.plan, m) # {}
                    /\ ServesBest(made.app, SelectTarget(i.plan, m), m,
                                  BestFor(made.app, lists[m.family], made.list, m))

\* Whatever an engine downloads for itself on a machine an offline installer
\* was made for is in that installer, the app's own source with it; nothing of
\* it is withdrawn (form-job.js offlineTargets, builder.js validate, buildFile
\* and planPackFiles, jobs.js packFiles). Prerequisites' files are apart: a page
\* packs none.
PackServesTicked ==
    made # None =>
        \A i \in {j \in made.of : j.offline} :
            /\ i.source \/ made.form.source = "package"
            /\ \A m \in Computers :
                  LET t == SelectTarget(i.plan, m)
                      ticked == \E x \in Ticked(made.form) :
                                  /\ FamilyOf(x[1]) = m.family /\ x[2] = m.arch
                                  /\ TargetOS(x[1]) = {} \/ m.int \in TargetOS(x[1])
                  IN  m.family \in i.families /\ Known(m) /\ (host = "page" => ticked) =>
                        /\ Fitting(i.plan, m) # {} /\ t.downloads \subseteq i.files
                        /\ \A d \in t.downloads : d.sha \notin made.list
=============================================================================
