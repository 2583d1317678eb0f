------------------------------ MODULE Resolver ------------------------------
(***************************************************************************)
(* The plan resolver (shared/resolve.js): from a catalogue, what has been  *)
(* withdrawn and an app, to the plan an engine follows on any machine.     *)
(*                                                                         *)
(* A catalogue is a value (its records are described in MCInstaller); text *)
(* in it is a model value, a list with "any of these" a set, {} meaning    *)
(* no condition. What is remembered between two plans, which folders of    *)
(* the catalogue are loaded and the list of what is withdrawn are the      *)
(* state of one page or server.                                            *)
(***************************************************************************)
EXTENDS Integers, Sequences, FiniteSets, SequencesExt

CONSTANT None  \* nothing: no release, no rule, no block

(***************************************************************************)
(* Versions                                                                *)
(***************************************************************************)
Part(v, i) == IF i \in DOMAIN v.parts THEN v.parts[i] ELSE 0
PartsDiffer(a, b) ==
    {i \in 1..Max({Len(a.parts), Len(b.parts)}) : Part(a, i) # Part(b, i)}

\* A missing part is 0, and a pre-release comes before its release.
ByParts(a, b, differ) ==
    IF differ # {} THEN Part(a, Min(differ)) - Part(b, Min(differ))
    ELSE IF a.pre = b.pre THEN 0 ELSE IF a.pre THEN -1 ELSE 1
CmpVersion(a, b) == ByParts(a, b, PartsDiffer(a, b))
SameVersion(a, b) == CmpVersion(a, b) = 0

StartsWith(v, t, n) == Len(v.parts) >= n /\ \A i \in 1..n : v.parts[i] = t.parts[i]

Compares(c, d, compatible) ==
    CASE c.op = "==" -> d = 0
      [] c.op = "!=" -> d # 0
      [] c.op = ">=" -> d >= 0
      [] c.op = "<=" -> d <= 0
      [] c.op = ">" -> d > 0
      [] c.op = "<" -> d < 0
      [] c.op = "~=" -> d >= 0 /\ compatible

MatchOne(v, c) ==
    IF c.prefix THEN (c.op = "!=") # StartsWith(v, c.t, Len(c.t.parts))
    ELSE Compares(c, CmpVersion(v, c.t), Len(c.t.parts) >= 2 => StartsWith(v, c.t, Len(c.t.parts) - 1))

Matches(v, spec) == \A c \in spec : MatchOne(v, c)

AnyOf(cond, x) == cond = {} \/ x \in cond

\* The first element of s that passes, or None.
FirstAt(s, ok) == IF ok = {} THEN None ELSE s[Min(ok)]
FirstWhere(s, Test(_)) == FirstAt(s, {i \in DOMAIN s : Test(s[i])})

(***************************************************************************)
(* Operating systems: newest first, ordered by number and then by build.   *)
(***************************************************************************)
MachinesOf(family, id, int) ==
    CASE family = "windows" ->
            (CASE id = "xp" -> {"x86"}
               [] id = "xp-x64" -> {"amd64"}
               [] id \in {"10", "11"} -> {"amd64", "x86", "arm64"}
               [] OTHER -> {"amd64", "x86"})
      [] family = "macos" -> IF int >= 1100 THEN {"arm64", "amd64"} ELSE {"amd64"}
      [] family = "linux" ->
            IF id = "musl" \/ int >= 217 THEN {"amd64", "arm64", "x86"} ELSE {"amd64", "x86"}

OlderThan(o, p) == o.int < p.int \/ (o.int = p.int /\ o.build < p.build)

OSById(cat, family, id) == FirstWhere(cat.os[family], LAMBDA o : o.id = id)

\* A block reaches up to just below the next newer OS version.
NoTop == 9999
Top(scale, o) ==
    Min({NoTop} \cup {n.int - 1 : n \in {m \in ToSet(scale) : m.int > o.int}})

(***************************************************************************)
(* Which release runs where                                                *)
(***************************************************************************)
RuleApplies(r, e) ==
    /\ r.os = e.os
    /\ AnyOf(r.arches, e.arch) /\ AnyOf(r.variants, e.variant) /\ AnyOf(r.formats, e.format)
    /\ IF r.kinds = {} THEN e.kind # "source" ELSE e.kind \in r.kinds
    /\ Matches(e.v, r.versions)

\* The compiler's floor, for a runtime without a rule. One that names no C
\* library but is static counts as 0, one with nothing to say as unknown.
FloorOf(c, e) ==
    IF c = None \/ (c.min = 0 /\ ~(e.os = "linux" /\ c.static)) THEN None ELSE c.min

CompilerFloor(cat, rt, e) ==
    LET name == IF e.variant \in DOMAIN rt.toolchains THEN rt.toolchains[e.variant] ELSE rt.id
    IN  FloorOf(FirstWhere(cat.compMin, LAMBDA r :
                    /\ r.compiler = name /\ r.os = e.os
                    /\ Matches(e.v, r.versions) /\ AnyOf(r.arches, e.arch)), e)

HitsOf(cat, rt, e, o) ==
    {r \in rt.rules : /\ RuleApplies(r, e)
                      /\ OSById(cat, o.family, r.min) # None
                      /\ (r.min = "musl") = (o.id = "musl")}

Above(o, hi) == hi # None /\ OlderThan(hi, o)

RunsByRules(cat, o, hits, floors) ==
    LET outside == \E r \in floors : \/ OlderThan(o, OSById(cat, o.family, r.min))
                                    \/ Above(o, OSById(cat, o.family, r.max))
    IN  [ok |-> ~outside, known |-> TRUE,
         minBuild |-> IF o.family = "windows" THEN Max({0} \cup {r.minBuild : r \in floors}) ELSE 0]

RunsByFloor(cat, o, floor) ==
    [ok |-> IF floor # None THEN o.int >= floor
            ELSE o.id # "musl" /\ o.int >= cat.unknownFloor[o.family],
     minBuild |-> 0, known |-> floor # None]

RunsWith(cat, rt, e, o, hits) ==
    IF hits # {} THEN RunsByRules(cat, o, hits, {r \in hits : r.floor})
    ELSE RunsByFloor(cat, o, CompilerFloor(cat, rt, e))

RunsOn(cat, rt, e, o) == RunsWith(cat, rt, e, o, HitsOf(cat, rt, e, o))

\* A policy rule's "for": apps that install something, or set a switch.
ForApp(cond, app) ==
    cond = {} \/ (app.installs /\ "install" \in cond) \/ cond \cap app.tools # {}

PrereqsFor(cat, rt, e, o, app) ==
    {id \in UNION {n.ids : n \in {m \in rt.needs :
                      /\ ForApp(m.for, app)
                      /\ AnyOf(m.variants, e.variant) /\ Matches(e.v, m.versions)
                      /\ m.minOS <= o.int /\ (m.maxOS > 0 => o.int <= m.maxOS)}} :
        cat.prereqs[id].os = o.family /\ AnyOf(cat.prereqs[id].arches, e.arch)}

(***************************************************************************)
(* Recipes                                                                 *)
(***************************************************************************)
\* What a step's {tmp}\<name> stands for: a part of the release, a pinned
\* file of the policy, or nothing the plan has to bring.
Extra(name, file, for) ==
    [name |-> name, file |-> file, ok |-> file # None, prefer |-> for # {}, for |-> for]

PinnedSource(ef, e, o) ==
    FirstWhere(ef.sources, LAMBDA s :
        Matches(e.v, s.versions) /\ s.minOS <= o.int /\ (s.maxOS > 0 => o.int <= s.maxOS))

PinnedExtra(name, ef, src) == IF src = None THEN Extra(name, None, {}) ELSE Extra(name, src.file, ef.for)

ExtraFor(rt, e, o, name) ==
    IF name \in DOMAIN e.parts THEN Extra(name, e.parts[name], {})
    ELSE IF name \notin DOMAIN rt.extraFiles THEN Extra(name, None, {})
    ELSE PinnedExtra(name, rt.extraFiles[name], PinnedSource(rt.extraFiles[name], e, o))

Needed(cat, e, st) == {n \in st.uses : n \in DOMAIN e.parts \/ n \in cat.externalTmp}

\* From the first step that needs an extra file on, the release itself can
\* no longer be unpacked.
SupportedWith(cat, r, e, app, extras) ==
    LET deferred(i) == \E j \in 1..i : Needed(cat, e, r.steps[j]) # {}
    IN  [ok |-> /\ r.method \in ToSet(cat.methodOrder) /\ r.isolation # "impossible"
                /\ \A x \in extras : x.ok /\ ForApp(x.for, app)
                /\ \A i \in DOMAIN r.steps : ~(deferred(i) /\ r.steps[i].ofRelease),
         extras |-> extras, prefer |-> \E x \in extras : x.prefer]

Supported(cat, rt, r, e, o, app) ==
    SupportedWith(cat, r, e, app,
        {ExtraFor(rt, e, o, n) : n \in UNION {Needed(cat, e, r.steps[i]) : i \in DOMAIN r.steps}})

Index(s, x) == IF x \in ToSet(s) THEN CHOOSE i \in DOMAIN s : s[i] = x ELSE 0

RecipeMatches(r, e, app) ==
    /\ AnyOf(r.os, e.os) /\ AnyOf(r.kinds, e.kind) /\ AnyOf(r.formats, e.format)
    /\ AnyOf(r.arches, e.arch) /\ AnyOf(r.libcs, e.libc) /\ AnyOf(r.variants, e.variant)
    /\ Matches(e.v, r.versions) /\ r.tool \subseteq app.tools

\* How much a recipe says about the release, then its method and isolation.
Score(cat, r, prefer) ==
    100 * Cardinality({k \in {"os", "kinds", "formats", "arches", "libcs", "variants",
                              "versions", "tool"} : r[k] # {}})
    + 5 * (11 - Index(cat.methodOrder, r.method))
    + (IF r.isolation = "full" THEN 2 ELSE 0) + (IF prefer THEN 1 ELSE 0)

BestRecipe(rt, sup, fit, score) ==
    LET best == CHOOSE i \in fit : \A j \in fit : score[i] > score[j] \/ (score[i] = score[j] /\ i <= j)
    IN  IF fit = {} THEN None ELSE [recipe |-> rt.recipes[best], extras |-> sup[best].extras]

RecipeWith(cat, rt, e, app, sup) ==
    BestRecipe(rt, sup,
        {i \in DOMAIN rt.recipes : RecipeMatches(rt.recipes[i], e, app) /\ sup[i].ok},
        [i \in DOMAIN rt.recipes |-> Score(cat, rt.recipes[i], sup[i].prefer)])

RecipeFor(cat, rt, e, o, app) ==
    RecipeWith(cat, rt, e, app,
        [i \in DOMAIN rt.recipes |-> Supported(cat, rt, rt.recipes[i], e, o, app)])

(***************************************************************************)
(* Candidates                                                              *)
(***************************************************************************)
ArchFits(family, machine, arch) ==
    \/ arch \in {machine, "any"}
    \/ family = "macos" /\ arch = "universal"
    \/ family = "windows" /\ machine = "amd64" /\ arch = "x86"
Native(family, machine, arch) == ~(family = "windows" /\ machine = "amd64" /\ arch = "x86")

Usable(rt, e) ==
    /\ e.kind # "source" /\ ~e.v.pre
    /\ AnyOf(rt.kinds, e.kind) /\ e.variant \notin rt.excluded[e.os]
    /\ rt.only => e.variant \in ToSet(rt.variants)
    /\ rt.formats[e.os] = None \/ e.format \in ToSet(rt.formats[e.os])

VariantRank(rt, e) == IF Index(rt.variants, e.variant) = 0 THEN Len(rt.variants) + 1
                      ELSE Index(rt.variants, e.variant)

FormatRank(rt, family, e) == IF rt.formats[family] = None THEN 0 ELSE Index(rt.formats[family], e.format)

\* Native before emulated, newest first, then as the policy lists them.
FirstOf(x, y, otherwise) == x < y \/ (x = y /\ otherwise)

Preferred(rt, family, machine, a, b) ==
    IF Native(family, machine, a.arch) # Native(family, machine, b.arch) THEN Native(family, machine, a.arch)
    ELSE FirstOf(CmpVersion(b.v, a.v), 0,
         FirstOf(VariantRank(rt, a), VariantRank(rt, b),
         FirstOf(FormatRank(rt, family, a), FormatRank(rt, family, b), a.n < b.n)))

\* A withdrawn build is no build. The list: each release at its place, after
\* all that are preferred to it.
CandidatesUncached(cat, revoked, id, family, machine) ==
    LET rt == cat.runtimes[id]
        fit == {e \in rt.releases : /\ e.os = family /\ Usable(rt, e)
                                    /\ e.file.sha \notin revoked
                                    /\ ArchFits(family, machine, e.arch)}
        place == [e \in fit |-> Cardinality({x \in fit : Preferred(rt, family, machine, x, e)}) + 1]
    IN  [i \in {place[e] : e \in fit} |-> CHOOSE e \in fit : place[e] = i]

\* Mutant: the memo does not tell one list from another.
RevokedKeyNone(revoked) == {}

RevokedKey(revoked) == revoked
CandidatesKey(revoked, id, family, machine) == <<id, family, machine, RevokedKey(revoked)>>

\* memo has, for a key, the list the answer was worked out with.
Candidates(cat, memo, revoked, id, family, machine) ==
    LET k == CandidatesKey(revoked, id, family, machine)
    IN  CandidatesUncached(cat, IF k \in DOMAIN memo THEN memo[k] ELSE revoked, id, family, machine)

\* All the lists of one family, by runtime and by the architecture asked for.
Machines == <<"amd64", "arm64", "x86">>
Arches == ToSet(Machines) \cup {"any", "universal"}
ListsFor(cat, memo, revoked, family) ==
    [id \in DOMAIN cat.runtimes |-> [arch \in Arches |-> Candidates(cat, memo, revoked, id, family, arch)]]

(***************************************************************************)
(* The best release for one OS version: what it gets from its first build  *)
(* on, and what only a newer build of it gets.                             *)
(***************************************************************************)
\* The runtime the app names says what "asyncio" means, a stand-in does not.
SelectFor(cat, app, o) ==
    LET asyncio == cat.runtimes[app.named].asyncio
    IN  CASE app.select = "range" -> app.range
          [] app.select = "asyncio" -> IF o.id \in DOMAIN asyncio THEN asyncio[o.id] ELSE {}
          [] app.select = "newest" -> {}

Companion(id) == [runtime |-> id, named |-> id, select |-> "newest", range |-> {}, tools |-> {}, installs |-> FALSE]

\* What e comes to on o: how it is set up and all it needs, or None.
Option(e, o, select, revoked, runs, how, needs, prereqs) ==
    IF /\ Matches(e.v, select) /\ runs.ok /\ e.file.sha # None
       /\ how # None /\ \A x \in how.extras : x.file.sha \notin revoked
       /\ \A n \in needs : n.p # None
    THEN [rel |-> e, recipe |-> how.recipe, extras |-> how.extras, minBuild |-> runs.minBuild,
          known |-> runs.known, needs |-> needs, prereqs |-> prereqs]
    ELSE None

FirstThatFits(p, first) == [p |-> p, cond |-> IF first = p THEN None ELSE first]
ChoiceOf(o, options) ==
    FirstThatFits(FirstWhere(options, LAMBDA x : x # None /\ x.minBuild <= o.build),
                  FirstWhere(options, LAMBDA x : x # None))

CompanionCandidates(cands, q, arch) ==
    [i \in {j \in DOMAIN cands : /\ cands[j].arch \in {arch, "any", "universal"}
                                 /\ AnyOf(q.variants, cands[j].variant)} |-> cands[i]]

\* picks[<<n, q, arch>>] is the companion for q, looking n runtimes deep.
RequiredBy(rt, family, app) == {q \in rt.requires[family] : ForApp(q.for, app)}
OptionOf(cat, revoked, o, app, picks, n, e) ==
    LET rt == cat.runtimes[app.runtime]
    IN  Option(e, o, SelectFor(cat, app, o), revoked, RunsOn(cat, rt, e, o), RecipeFor(cat, rt, e, o, app),
               {[runtime |-> q.runtime, p |-> picks[<<n, q, e.arch>>]] : q \in RequiredBy(rt, o.family, app)},
               PrereqsFor(cat, rt, e, o, app))
BestOf(cat, revoked, o, app, picks, n, cands) ==
    ChoiceOf(o, [i \in DOMAIN cands |-> OptionOf(cat, revoked, o, app, picks, n, cands[i])])

\* No runtime needs itself: a companion's companion is at most so many deep.
Depth(cat) == Cardinality(DOMAIN cat.runtimes)
Requirements(cat, family) == UNION {cat.runtimes[id].requires[family] : id \in DOMAIN cat.runtimes}
Companions(cat, lists, revoked, o) ==
    LET picks[x \in (0..Depth(cat)) \X Requirements(cat, o.family) \X Arches] ==
            IF x[1] = 0 THEN None
            ELSE BestOf(cat, revoked, o, Companion(x[2].runtime), picks, x[1] - 1,
                        CompanionCandidates(lists[x[2].runtime][x[3]], x[2], x[3])).p
    IN  picks

Best(cat, lists, revoked, machine, o, app) ==
    BestOf(cat, revoked, o, app, Companions(cat, lists, revoked, o), Depth(cat), lists[app.runtime][machine])

\* What would have been installed had nothing been withdrawn.
Downloads(pick) == {pick.rel.file.sha} \cup {x.file.sha : x \in pick.extras}
Gone(revoked, pick) ==
    IF revoked = {} \/ pick = None THEN None
    ELSE [v |-> pick.rel.v, files |-> Downloads(pick) \cap revoked]
Either(b) == IF b.p # None THEN b.p ELSE b.cond
GoneTo(cat, all, revoked, machine, o, app) == Gone(revoked, Either(Best(cat, all, {}, machine, o, app)))

\* Two OS versions that get the same share a block.
AllPrereqs(p) == p.prereqs \cup UNION {n.p.prereqs : n \in p.needs}
SamePick(a, b) ==
    IF None \in {a, b} THEN a = b
    ELSE /\ a.rel = b.rel /\ a.recipe = b.recipe
         /\ {n.p.rel : n \in a.needs} = {n.p.rel : n \in b.needs}
         /\ AllPrereqs(a) = AllPrereqs(b)

(***************************************************************************)
(* Plans                                                                   *)
(***************************************************************************)
Block(family, machine, o, scale, minBuild, p, gone) ==
    [family |-> family, min |-> o.int, max |-> Top(scale, o), minBuild |-> minBuild,
     machine |-> machine, p |-> p, gone |-> gone]

\* The blocks of one machine so far; open: the last may still grow.
NoBlocks == [blocks |-> <<>>, open |-> FALSE]
Flush(acc) == [blocks |-> acc.blocks, open |-> FALSE]
Start(acc, b) == [blocks |-> Append(acc.blocks, b), open |-> TRUE]
Cur(acc) == acc.blocks[Len(acc.blocks)]
Grown(acc, min, minBuild) ==
    [blocks |-> [acc.blocks EXCEPT ![Len(acc.blocks)] = [Cur(acc) EXCEPT !.min = min, !.minBuild = minBuild]],
     open |-> acc.open]
Joins(acc, p) == acc.open /\ SamePick(Cur(acc).p, p)

\* What only a newer build of o gets: a block of its own, before the rest.
AddConditional(acc, family, machine, o, scale, cond) ==
    Flush(IF Joins(acc, cond) /\ Cur(acc).minBuild <= cond.minBuild THEN Grown(acc, o.int, cond.minBuild)
          ELSE Start(acc, Block(family, machine, o, scale, cond.minBuild, cond, None)))

Windows11Build == 22000

\* Mutant: Windows 11's first build stays when Windows 10 joins the block.
ExtendKeepsBuild(acc, o) == Grown(acc, o.int, Cur(acc).minBuild)

Extend(acc, o) ==
    Grown(acc, o.int, IF o.id = "10" /\ Cur(acc).minBuild >= Windows11Build THEN 0 ELSE Cur(acc).minBuild)

AddPick(acc, family, machine, o, scale, p, gone) ==
    IF Joins(acc, p) /\ Cur(acc).gone = gone THEN Extend(acc, o)
    ELSE Start(acc, Block(family, machine, o, scale, IF o.id = "11" THEN o.build ELSE 0, p, gone))

\* The runtime that stands in for this one on a family.
Via(cat, id, family) == cat.runtimes[id].via[family]

\* One OS version more: b is the best for it, gone what it would have had.
AddOS(acc, family, machine, o, scale, b, gone) ==
    LET own == b.cond # None /\ (b.p = None \/ b.cond.rel # b.p.rel)
    IN  AddPick(IF own THEN AddConditional(acc, family, machine, o, scale, b.cond) ELSE acc,
                family, machine, o, scale, b.p, IF b.p = None /\ b.cond = None THEN gone ELSE None)

\* all: the lists there would be had nothing been withdrawn.
BlocksOf(cat, lists, all, revoked, app, family, machine) ==
    LET scale == cat.os[family]
        after[k \in 0..Len(scale)] ==
            IF k = 0 THEN NoBlocks
            ELSE IF machine \notin scale[k].arches THEN Flush(after[k - 1])
            ELSE AddOS(after[k - 1], family, machine, scale[k], scale,
                       Best(cat, lists, revoked, machine, scale[k], app),
                       GoneTo(cat, all, revoked, machine, scale[k], app))
    IN  after[Len(scale)].blocks

FamilyBlocks(cat, lists, all, revoked, app, family) ==
    BlocksOf(cat, lists, all, revoked, app, family, "amd64")
    \o BlocksOf(cat, lists, all, revoked, app, family, "arm64")
    \o BlocksOf(cat, lists, all, revoked, app, family, "x86")

BlocksFor(cat, memo, revoked, app, family) ==
    IF ~AnyOf(app.platforms, family) THEN <<>>
    ELSE FamilyBlocks(cat, ListsFor(cat, memo, revoked, family), ListsFor(cat, memo, {}, family), revoked,
                      [app EXCEPT !.runtime = Via(cat, @, family)], family)

Families == <<"windows", "macos", "linux">>

Blocks(cat, memo, revoked, app) ==
    BlocksFor(cat, memo, revoked, app, "windows")
    \o BlocksFor(cat, memo, revoked, app, "macos")
    \o BlocksFor(cat, memo, revoked, app, "linux")
=============================================================================
