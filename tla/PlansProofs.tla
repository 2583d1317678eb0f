------------------------------ MODULE PlansProofs ------------------------------
(***************************************************************************)
(* Proofs about the plans (Plans, Resolver), for any catalogues of the     *)
(* shape that is shipped, any forms, lists and computers: each computer    *)
(* gets what is best for it, and an offline installer has all of it. The   *)
(* way there: what one OS version gets (BestIs, SameGets), the blocks that *)
(* OS versions share, one version after the other (AddOSServes,            *)
(* FoldServes), all blocks of a plan (BlocksServe), its targets            *)
(* (PlanServes), and the installers made of it.                            *)
(***************************************************************************)
EXTENDS Plans, FiniteSetTheorems, SequenceTheorems, WellFoundedInduction, TLAPS
-----------------------------------------------------------------------------
(* Numbers *)

\* A set of natural numbers that is not empty has a least one.
LEMMA LeastNat ==
    ASSUME NEW T \in SUBSET Nat, T # {} PROVE \E x \in T : \A y \in T : x <= y
  <1> DEFINE Less == {ss \in Nat \X Nat : ss[1] < ss[2]}
  <1>1. IsWellFoundedOn(Less, Nat)
    BY NatLessThanWellFounded DEF OpToRel
  <1>2. PICK x \in T : \A y \in T : ~ (<<y, x>> \in Less)
    <2> HIDE DEF Less
    <2>1. QED  BY <1>1, WFMin
  <1>3. ASSUME NEW y \in T PROVE x <= y
    <2>1. <<y, x>> \in Nat \X Nat /\ <<y, x>>[1] = y /\ <<y, x>>[2] = x
      OBVIOUS
    <2>2. ~(y < x)
      BY <1>2, <2>1, Zenon
    <2>3. QED  BY <2>2
  <1>4. QED  BY <1>3

LEMMA Numbers == NoBuild \in Nat /\ NoTop \in Nat /\ Windows11Build \in Nat /\ Windows11Build > 0
  BY SMT DEF NoBuild, NoTop, Windows11Build

LEMMA MinIsLeast ==
    ASSUME NEW T \in SUBSET Nat, T # {} PROVE Min(T) \in T /\ \A y \in T : Min(T) <= y
  <1>1. PICK x \in T : \A y \in T : x <= y
    BY LeastNat
  <1>2. QED  BY <1>1, Zenon DEF Min

\* The greatest of some numbers up to a bound.
LEMMA MaxIsGreatest ==
    ASSUME NEW T, NEW B \in Nat, T \subseteq 0..B, T # {} PROVE Max(T) \in T
  <1> DEFINE U == {B - x : x \in T}
  <1>1. U \in SUBSET Nat /\ U # {}
    <2>1. \A x \in T : x \in Nat /\ B - x \in Nat
      OBVIOUS
    <2>2. QED  BY <2>1
  <1>2. PICK u \in U : \A y \in U : u <= y
    <2> HIDE DEF U
    <2>1. QED  BY <1>1, LeastNat
  <1>3. PICK x \in T : u = B - x
    OBVIOUS
  <1>4. \A y \in T : x >= y
    <2>1. TAKE y \in T
    <2>2. B - y \in U
      OBVIOUS
    <2>3. u <= B - y
      <3> HIDE DEF U
      <3>1. QED  BY <1>2, <2>2
    <2>4. x \in Nat /\ y \in Nat
      OBVIOUS
    <2>5. QED  BY <1>3, <2>3, <2>4
  <1>5. QED  BY <1>4, Zenon DEF Max

\* The first of the elements at some places, where there is one.
LEMMA FirstAtIs ==
    ASSUME NEW s, NEW ok \in SUBSET Nat
    PROVE  IF ok = {} THEN FirstAt(s, ok) = None
           ELSE \E i \in ok : (\A j \in ok : i <= j) /\ FirstAt(s, ok) = s[i]
  BY MinIsLeast DEF FirstAt
-----------------------------------------------------------------------------
(* One release on one OS version *)

\* What a rule asks of the build does not depend on the version of Windows;
\* elsewhere nothing is asked of it.
LEMMA BuildOfRuns ==
    ASSUME NEW c, NEW rt, \A r \in rt.rules : r.minBuild \in 0..NoBuild, NEW e, NEW o
    PROVE  /\ RunsOn(c, rt, e, o).minBuild \in Nat
           /\ o.family # "windows" => RunsOn(c, rt, e, o).minBuild = 0
  <1> DEFINE hits == HitsOf(c, rt, e, o)
             floors == {r \in hits : r.floor}
             asked == {0} \cup {r.minBuild : r \in floors}
  <1>1. asked \subseteq 0..NoBuild /\ asked # {}
    BY Numbers DEF HitsOf
  <1>2. Max(asked) \in asked
    <2> HIDE DEF asked
    <2>1. NoBuild \in Nat
      BY Numbers
    <2>2. QED  BY <1>1, <2>1, MaxIsGreatest
  <1>3. Max(asked) \in Nat
    <2> HIDE DEF asked
    <2>1. NoBuild \in Nat
      BY Numbers
    <2>2. Max(asked) \in 0..NoBuild
      BY <1>1, <1>2
    <2>3. QED  BY <2>1, <2>2
  <1>4. RunsByRules(c, o, hits, floors).minBuild = IF o.family = "windows" THEN Max(asked) ELSE 0
    BY DEF RunsByRules
  <1>5. RunsByFloor(c, o, CompilerFloor(c, rt, e)).minBuild = 0
    BY DEF RunsByFloor
  <1>6. RunsOn(c, rt, e, o).minBuild = IF hits # {} /\ o.family = "windows" THEN Max(asked) ELSE 0
    <2> HIDE DEF asked
    <2>1. QED  BY <1>4, <1>5 DEF RunsOn, RunsWith
  <1>7. QED
    <2> HIDE DEF asked, hits
    <2>1. QED  BY <1>3, <1>6

LEMMA SameBuild ==
    ASSUME NEW c, NEW rt, \A r \in rt.rules : r.minBuild \in 0..NoBuild, NEW e, NEW o, NEW p,
           o.family = p.family, o.family = "windows" => o.id # "musl" /\ p.id # "musl"
    PROVE  RunsOn(c, rt, e, o).minBuild = RunsOn(c, rt, e, p).minBuild
  <1>1. CASE o.family = "windows"
    <2>1. HitsOf(c, rt, e, o) = HitsOf(c, rt, e, p)
      BY <1>1 DEF HitsOf
    <2>2. QED  BY <1>1, <2>1 DEF RunsOn, RunsWith, RunsByRules, RunsByFloor
  <1>2. CASE o.family # "windows"
    BY <1>2, BuildOfRuns
  <1>3. QED  BY <1>1, <1>2

\* The files of a recipe that can be used: for one name the release's own part
\* or a file of the policy, the same on every OS version.
SameFiles(rt, e) ==
    \A name \in DOMAIN rt.extraFiles : LET sources == rt.extraFiles[name].sources IN
        /\ DOMAIN sources \subseteq Nat
        /\ \A i, j \in DOMAIN sources :
              Matches(e.v, sources[i].versions) /\ Matches(e.v, sources[j].versions) =>
                  sources[i].file = sources[j].file

LEMMA SameExtra ==
    ASSUME NEW rt, NEW e, SameFiles(rt, e), NEW o, NEW p, NEW name,
           ExtraFor(rt, e, o, name).ok, ExtraFor(rt, e, p, name).ok
    PROVE  ExtraFor(rt, e, o, name) = ExtraFor(rt, e, p, name)
  <1>1. CASE name \in DOMAIN e.parts \/ name \notin DOMAIN rt.extraFiles
    BY <1>1 DEF ExtraFor
  <1>2. CASE ~(name \in DOMAIN e.parts \/ name \notin DOMAIN rt.extraFiles)
    <2> DEFINE ef == rt.extraFiles[name]
    <2>1. ASSUME NEW q, ExtraFor(rt, e, q, name).ok
          PROVE  \E i \in DOMAIN ef.sources :
                    /\ Matches(e.v, ef.sources[i].versions)
                    /\ ExtraFor(rt, e, q, name) = Extra(name, ef.sources[i].file, ef.for)
      <3> DEFINE ok == {i \in DOMAIN ef.sources :
                            /\ Matches(e.v, ef.sources[i].versions) /\ ef.sources[i].minOS <= q.int
                            /\ ef.sources[i].maxOS > 0 => q.int <= ef.sources[i].maxOS}
      <3>1. PinnedSource(ef, e, q) = FirstAt(ef.sources, ok)
        BY Zenon DEF PinnedSource, FirstWhere
      <3>2. ExtraFor(rt, e, q, name) = PinnedExtra(name, ef, FirstAt(ef.sources, ok))
        <4> HIDE DEF ok
        <4>1. QED  BY <1>2, <3>1 DEF ExtraFor
      <3>3. FirstAt(ef.sources, ok) # None
        <4> HIDE DEF ok
        <4>1. ASSUME FirstAt(ef.sources, ok) = None PROVE FALSE
          <5>1. ExtraFor(rt, e, q, name).ok = (None # None)
            BY <3>2, <4>1 DEF PinnedExtra, Extra
          <5>2. QED  BY <2>1, <5>1
        <4>2. QED  BY <4>1
      <3>4. ok \in SUBSET Nat
        BY <1>2 DEF SameFiles
      <3>5. PICK i \in ok : FirstAt(ef.sources, ok) = ef.sources[i]
        <4> HIDE DEF ok
        <4>1. QED  BY <3>3, <3>4, FirstAtIs
      <3>6. PinnedExtra(name, ef, ef.sources[i]) = Extra(name, ef.sources[i].file, ef.for)
        BY <3>3, <3>5 DEF PinnedExtra
      <3>7. QED  BY <3>2, <3>5, <3>6
    <2>2. PICK i \in DOMAIN ef.sources : /\ Matches(e.v, ef.sources[i].versions)
                                         /\ ExtraFor(rt, e, o, name) = Extra(name, ef.sources[i].file, ef.for)
      BY <2>1
    <2>3. PICK j \in DOMAIN ef.sources : /\ Matches(e.v, ef.sources[j].versions)
                                         /\ ExtraFor(rt, e, p, name) = Extra(name, ef.sources[j].file, ef.for)
      BY <2>1
    <2>4. ef.sources[i].file = ef.sources[j].file
      BY <1>2, <2>2, <2>3 DEF SameFiles
    <2>5. QED  BY <2>2, <2>3, <2>4
  <1>3. QED  BY <1>1, <1>2
-----------------------------------------------------------------------------
(* The recipe of a release *)

LEMMA ScoreIsNumber ==
    ASSUME NEW c, DOMAIN c.methodOrder \subseteq Nat, NEW r, NEW prefer PROVE Score(c, r, prefer) \in Int
  <1> DEFINE said == {k \in {"os", "kinds", "formats", "arches", "libcs", "variants", "versions", "tool"} : r[k] # {}}
  <1>1. IsFiniteSet({"os", "kinds", "formats", "arches", "libcs", "variants", "versions", "tool"})
    <2>1. IsFiniteSet({"tool"})
      BY FS_Singleton
    <2>2. IsFiniteSet({"versions", "tool"})
      <3>1. {"versions", "tool"} = {"tool"} \cup {"versions"}
        OBVIOUS
      <3>2. QED  BY <2>1, <3>1, FS_AddElement
    <2>3. IsFiniteSet({"variants", "versions", "tool"})
      <3>1. {"variants", "versions", "tool"} = {"versions", "tool"} \cup {"variants"}
        OBVIOUS
      <3>2. QED  BY <2>2, <3>1, FS_AddElement
    <2>4. IsFiniteSet({"os", "kinds", "formats", "arches", "libcs"})
      <3>1. IsFiniteSet({"os"}) /\ IsFiniteSet({"kinds"}) /\ IsFiniteSet({"formats"})
            /\ IsFiniteSet({"arches"}) /\ IsFiniteSet({"libcs"})
        BY FS_Singleton
      <3>2. IsFiniteSet({"os"} \cup {"kinds"}) /\ IsFiniteSet({"formats"} \cup {"arches"})
        BY <3>1, FS_Union
      <3>3. IsFiniteSet(({"os"} \cup {"kinds"}) \cup ({"formats"} \cup {"arches"}))
        BY <3>2, FS_Union
      <3>4. IsFiniteSet((({"os"} \cup {"kinds"}) \cup ({"formats"} \cup {"arches"})) \cup {"libcs"})
        BY <3>1, <3>3, FS_Union
      <3>5. {"os", "kinds", "formats", "arches", "libcs"} = (({"os"} \cup {"kinds"}) \cup ({"formats"} \cup {"arches"})) \cup {"libcs"}
        OBVIOUS
      <3>6. QED  BY <3>4, <3>5
    <2>5. {"os", "kinds", "formats", "arches", "libcs", "variants", "versions", "tool"}
          = {"os", "kinds", "formats", "arches", "libcs"} \cup {"variants", "versions", "tool"}
      OBVIOUS
    <2>6. IsFiniteSet({"os", "kinds", "formats", "arches", "libcs"} \cup {"variants", "versions", "tool"})
      BY <2>3, <2>4, FS_Union
    <2>7. QED  BY <2>5, <2>6
  <1>2. Cardinality(said) \in Nat
    <2>1. IsFiniteSet(said)
      BY <1>1, FS_Subset
    <2>2. QED  BY <2>1, FS_CardinalityType
  <1>3. Index(c.methodOrder, r.method) \in Int
    <2>1. CASE r.method \in ToSet(c.methodOrder)
      <3>1. \E i \in DOMAIN c.methodOrder : c.methodOrder[i] = r.method
        BY <2>1 DEF ToSet
      <3>2. (CHOOSE i \in DOMAIN c.methodOrder : c.methodOrder[i] = r.method) \in DOMAIN c.methodOrder
        BY <3>1
      <3>3. QED  BY <2>1, <3>2 DEF Index
    <2>2. CASE r.method \notin ToSet(c.methodOrder)
      BY <2>2 DEF Index
    <2>3. QED  BY <2>1, <2>2
  <1>4. QED
    <2> HIDE DEF said
    <2>1. Score(c, r, prefer) = 100 * Cardinality(said) + 5 * (11 - Index(c.methodOrder, r.method))
                                + (IF r.isolation = "full" THEN 2 ELSE 0) + (IF prefer THEN 1 ELSE 0)
      BY DEF Score, said
    <2>2. QED  BY <1>2, <1>3, <2>1

\* Of some numbered scores one is the highest, and of those the first.
LEMMA HighestFirst ==
    ASSUME NEW n \in Nat, NEW fit \in SUBSET (1..n), fit # {}, NEW score, \A i \in fit : score[i] \in Int
    PROVE  \E i \in fit : \A j \in fit : score[i] > score[j] \/ (score[i] = score[j] /\ i <= j)
  <1> DEFINE Above_(i) == {j \in fit : score[j] > score[i]}
             T == {Cardinality(Above_(i)) : i \in fit}
  <1>1. ASSUME NEW i \in fit PROVE IsFiniteSet(Above_(i)) /\ Cardinality(Above_(i)) \in Nat
    <2>1. 1 \in Int /\ n \in Int
      OBVIOUS
    <2>2. IsFiniteSet(1..n)
      BY <2>1, FS_Interval
    <2>3. Above_(i) \in SUBSET (1..n)
      OBVIOUS
    <2>4. QED
      <3> HIDE DEF Above_
      <3>1. QED  BY <2>2, <2>3, FS_Subset, FS_CardinalityType
  <1>2. PICK t \in T : \A y \in T : t <= y
    <2>1. T \in SUBSET Nat /\ T # {}
      BY <1>1
    <2> HIDE DEF T
    <2>2. QED  BY <2>1, LeastNat
  <1>3. PICK i \in fit : t = Cardinality(Above_(i))
    <2> HIDE DEF Above_
    <2>1. t \in T
      <3> HIDE DEF T
      <3>1. QED  BY <1>2
    <2>2. QED  BY <2>1
  <1>4. \A j \in fit : score[j] <= score[i]
    <2> SUFFICES ASSUME NEW j \in fit, score[j] > score[i] PROVE FALSE
      OBVIOUS
    <2>1. Above_(j) \in SUBSET Above_(i) /\ j \in Above_(i) /\ j \notin Above_(j)
      <3>1. \A x \in fit : score[x] > score[j] => score[x] > score[i]
        OBVIOUS
      <3>2. ~(score[j] > score[j])
        OBVIOUS
      <3>3. QED  BY <3>1, <3>2
    <2>2. Cardinality(Above_(j)) <= Cardinality(Above_(i)) /\ Cardinality(Above_(j)) # Cardinality(Above_(i))
      <3> HIDE DEF Above_
      <3>1. QED  BY <1>1, <2>1, FS_Subset
    <2>3. Cardinality(Above_(j)) \in T
      OBVIOUS
    <2>4. t <= Cardinality(Above_(j))
      <3> HIDE DEF T, Above_
      <3>1. QED  BY <1>2, <2>3
    <2>5. QED
      <3> HIDE DEF T, Above_
      <3>1. QED  BY <1>1, <1>3, <2>2, <2>4
  <1>5. PICK k \in {j \in fit : score[j] = score[i]} : \A j \in {x \in fit : score[x] = score[i]} : k <= j
    <2> DEFINE U == {j \in fit : score[j] = score[i]}
    <2>1. U \in SUBSET Nat /\ U # {}
      <3>1. U \subseteq fit /\ i \in U /\ fit \subseteq Nat
        OBVIOUS
      <3> HIDE DEF U
      <3>2. QED  BY <3>1
    <2> HIDE DEF U
    <2>2. \E k \in U : \A j \in U : k <= j
      BY <2>1, LeastNat
    <2>3. QED  BY <2>2 DEF U
  <1>6. \A j \in fit : score[k] > score[j] \/ (score[k] = score[j] /\ k <= j)
    BY <1>4, <1>5
  <1>7. QED  BY <1>5, <1>6

\* What a release is set up with: a recipe that can be used, with its files.
LEMMA RecipeIs ==
    ASSUME NEW c, DOMAIN c.methodOrder \subseteq Nat,
           NEW rt, Len(rt.recipes) \in Nat, DOMAIN rt.recipes = 1..Len(rt.recipes),
           NEW e, NEW o, NEW app, RecipeFor(c, rt, e, o, app) # None
    PROVE  \E i \in DOMAIN rt.recipes :
               /\ Supported(c, rt, rt.recipes[i], e, o, app).ok
               /\ RecipeFor(c, rt, e, o, app).recipe = rt.recipes[i]
               /\ RecipeFor(c, rt, e, o, app).extras = Supported(c, rt, rt.recipes[i], e, o, app).extras
  <1> DEFINE sup == [i \in DOMAIN rt.recipes |-> Supported(c, rt, rt.recipes[i], e, o, app)]
             fit == {i \in DOMAIN rt.recipes : RecipeMatches(rt.recipes[i], e, app) /\ sup[i].ok}
             score == [i \in DOMAIN rt.recipes |-> Score(c, rt.recipes[i], sup[i].prefer)]
             best == CHOOSE i \in fit : \A j \in fit : score[i] > score[j] \/ (score[i] = score[j] /\ i <= j)
  <1>1. RecipeFor(c, rt, e, o, app) = IF fit = {} THEN None ELSE [recipe |-> rt.recipes[best], extras |-> sup[best].extras]
    BY DEF RecipeFor, RecipeWith, BestRecipe
  <1>2. fit # {}
    <2> HIDE DEF fit
    <2>1. QED  BY <1>1
  <1>3. best \in fit
    <2>1. fit \in SUBSET (1..Len(rt.recipes)) /\ \A i \in fit : score[i] \in Int
      <3>1. \A i \in DOMAIN rt.recipes : score[i] = Score(c, rt.recipes[i], sup[i].prefer)
        OBVIOUS
      <3>2. \A i \in DOMAIN rt.recipes : score[i] \in Int
        <4> HIDE DEF score, sup
        <4>1. QED  BY <3>1, ScoreIsNumber
      <3> HIDE DEF score, sup
      <3>3. QED  BY <3>2
    <2>2. \E i \in fit : \A j \in fit : score[i] > score[j] \/ (score[i] = score[j] /\ i <= j)
      <3> HIDE DEF fit, score
      <3>1. QED  BY <1>2, <2>1, HighestFirst
    <2> HIDE DEF fit, score
    <2>3. QED  BY <2>2, Zenon
  <1>4. best \in DOMAIN rt.recipes /\ sup[best].ok /\ sup[best] = Supported(c, rt, rt.recipes[best], e, o, app)
    <2> HIDE DEF best
    <2>1. QED  BY <1>3
  <1>5. QED
    <2> HIDE DEF best, fit, sup
    <2>1. QED  BY <1>1, <1>2, <1>4

\* The same recipe brings a release the same files on every OS version.
LEMMA SameExtras ==
    ASSUME NEW c, NEW rt, NEW e, SameFiles(rt, e), NEW o, NEW p, NEW app, NEW r,
           Supported(c, rt, r, e, o, app).ok, Supported(c, rt, r, e, p, app).ok
    PROVE  Supported(c, rt, r, e, o, app).extras = Supported(c, rt, r, e, p, app).extras
  <1> DEFINE names == UNION {Needed(c, e, r.steps[i]) : i \in DOMAIN r.steps}
  <1>1. \A q : LET s == Supported(c, rt, r, e, q, app) IN
            /\ s.extras = {ExtraFor(rt, e, q, n) : n \in names}
            /\ s.ok => \A x \in s.extras : x.ok
    BY DEF Supported, SupportedWith
  <1> HIDE DEF names
  <1>2. \A n \in names : ExtraFor(rt, e, o, n).ok /\ ExtraFor(rt, e, p, n).ok
    BY <1>1
  <1>3. \A n \in names : ExtraFor(rt, e, o, n) = ExtraFor(rt, e, p, n)
    BY <1>2, SameExtra
  <1>4. {ExtraFor(rt, e, o, n) : n \in names} = {ExtraFor(rt, e, p, n) : n \in names}
    BY <1>3
  <1>5. QED  BY <1>1, <1>4
-----------------------------------------------------------------------------
(* The lists of candidates *)

MemoIsRight(memo) == \A k \in DOMAIN memo : memo[k] = k[4]

GoodLists(c, l, lists) ==
    \A id \in DOMAIN c.runtimes : \A a \in Arches :
        /\ DOMAIN lists[id][a] \subseteq Nat
        /\ \A i \in DOMAIN lists[id][a] : /\ lists[id][a][i] \in c.runtimes[id].releases
                                          /\ lists[id][a][i].file.sha \notin l

LEMMA CandidatesAre ==
    ASSUME NEW c, NEW l, NEW id, IsFiniteSet(c.runtimes[id].releases), NEW f, NEW a
    PROVE  /\ DOMAIN CandidatesUncached(c, l, id, f, a) \subseteq Nat
           /\ \A i \in DOMAIN CandidatesUncached(c, l, id, f, a) :
                 /\ CandidatesUncached(c, l, id, f, a)[i] \in c.runtimes[id].releases
                 /\ CandidatesUncached(c, l, id, f, a)[i].file.sha \notin l
  <1> DEFINE rt == c.runtimes[id]
             fit == {e \in rt.releases : /\ e.os = f /\ Usable(rt, e)
                                         /\ e.file.sha \notin l /\ ArchFits(f, a, e.arch)}
             place == [e \in fit |-> Cardinality({x \in fit : Preferred(rt, f, a, x, e)}) + 1]
             places == {place[e] : e \in fit}
  <1>1. CandidatesUncached(c, l, id, f, a) = [i \in places |-> CHOOSE e \in fit : place[e] = i]
    BY Zenon DEF CandidatesUncached
  <1>2. \A e \in fit : place[e] \in Nat
    <2> SUFFICES ASSUME NEW e \in fit PROVE place[e] \in Nat
      OBVIOUS
    <2> DEFINE before == {x \in fit : Preferred(rt, f, a, x, e)}
    <2>1. before \in SUBSET rt.releases
      OBVIOUS
    <2>2. Cardinality(before) \in Nat
      <3> HIDE DEF before
      <3>1. QED  BY <2>1, FS_Subset, FS_CardinalityType
    <2>3. place[e] = Cardinality(before) + 1
      OBVIOUS
    <2> HIDE DEF before, place
    <2>4. QED  BY <2>2, <2>3
  <1>3. \A e \in fit : e \in rt.releases /\ e.file.sha \notin l
    OBVIOUS
  <1> HIDE DEF fit, place
  <1>4. \A i \in places : (CHOOSE e \in fit : place[e] = i) \in fit
    OBVIOUS
  <1>5. places \subseteq Nat
    BY <1>2
  <1>6. QED
    <2> HIDE DEF places, rt
    <2>1. QED  BY <1>1, <1>3, <1>4, <1>5 DEF rt

LEMMA ListsAre ==
    ASSUME NEW c, NEW memo, MemoIsRight(memo), NEW l, NEW f
    PROVE  ListsFor(c, memo, l, f) =
              [id \in DOMAIN c.runtimes |-> [a \in Arches |-> CandidatesUncached(c, l, id, f, a)]]
  <1>1. ASSUME NEW id, NEW a PROVE Candidates(c, memo, l, id, f, a) = CandidatesUncached(c, l, id, f, a)
    <2> DEFINE k == CandidatesKey(l, id, f, a)
    <2>1. k[4] = l
      BY DEF CandidatesKey, RevokedKey
    <2> HIDE DEF k
    <2>2. (IF k \in DOMAIN memo THEN memo[k] ELSE l) = l
      BY <2>1 DEF MemoIsRight
    <2>3. Candidates(c, memo, l, id, f, a)
          = CandidatesUncached(c, IF k \in DOMAIN memo THEN memo[k] ELSE l, id, f, a)
      BY Zenon DEF Candidates, k
    <2>4. QED  BY <2>2, <2>3
  <1>2. ListsFor(c, memo, l, f)
        = [id \in DOMAIN c.runtimes |-> [a \in Arches |-> Candidates(c, memo, l, id, f, a)]]
    BY Zenon DEF ListsFor
  <1>3. QED  BY <1>1, <1>2

LEMMA ListsAreGood ==
    ASSUME NEW c, \A id \in DOMAIN c.runtimes : IsFiniteSet(c.runtimes[id].releases),
           NEW memo, MemoIsRight(memo), NEW l, NEW f
    PROVE  GoodLists(c, l, ListsFor(c, memo, l, f))
  <1> DEFINE lists == ListsFor(c, memo, l, f)
  <1>1. lists = [id \in DOMAIN c.runtimes |-> [a \in Arches |-> CandidatesUncached(c, l, id, f, a)]]
    BY ListsAre
  <1> HIDE DEF lists
  <1>2. \A id \in DOMAIN c.runtimes : \A a \in Arches : lists[id][a] = CandidatesUncached(c, l, id, f, a)
    BY <1>1
  <1>3. GoodLists(c, l, lists)
    <2> SUFFICES ASSUME NEW id \in DOMAIN c.runtimes, NEW a \in Arches
                 PROVE  /\ DOMAIN lists[id][a] \subseteq Nat
                        /\ \A i \in DOMAIN lists[id][a] : /\ lists[id][a][i] \in c.runtimes[id].releases
                                                          /\ lists[id][a][i].file.sha \notin l
      BY DEF GoodLists
    <2> DEFINE s == CandidatesUncached(c, l, id, f, a)
    <2>1. /\ DOMAIN s \subseteq Nat
          /\ \A i \in DOMAIN s : s[i] \in c.runtimes[id].releases /\ s[i].file.sha \notin l
      BY CandidatesAre
    <2>2. lists[id][a] = s
      BY <1>2
    <2> HIDE DEF s
    <2>3. QED  BY <2>1, <2>2
  <1>4. QED  BY <1>3 DEF lists
-----------------------------------------------------------------------------
(* The best release for one OS version *)

\* What an option is: a release that is not withdrawn, with the recipe that is
\* best for it, and nothing of it withdrawn.
IsPick(c, l, app, o, x) ==
    LET rt == c.runtimes[app.runtime]
        how == RecipeFor(c, rt, x.rel, o, app)
    IN  /\ x.rel \in rt.releases /\ x.rel.file.sha \notin l
        /\ how # None /\ x.recipe = how.recipe /\ x.extras = how.extras
        /\ \A y \in x.extras : y.file.sha \notin l
        /\ x.minBuild = RunsOn(c, rt, x.rel, o).minBuild
        /\ \A n \in x.needs : n.p.rel.file.sha \notin l

LEMMA OptionIs ==
    ASSUME NEW c, NEW l, NEW o, NEW app, NEW picks, NEW n, NEW e,
           e \in c.runtimes[app.runtime].releases, e.file.sha \notin l,
           \A q \in RequiredBy(c.runtimes[app.runtime], o.family, app) :
               picks[<<n, q, e.arch>>] # None => picks[<<n, q, e.arch>>].rel.file.sha \notin l,
           OptionOf(c, l, o, app, picks, n, e) # None
    PROVE  IsPick(c, l, app, o, OptionOf(c, l, o, app, picks, n, e))
           /\ OptionOf(c, l, o, app, picks, n, e).rel = e
  <1> DEFINE rt == c.runtimes[app.runtime]
             runs == RunsOn(c, rt, e, o)
             how == RecipeFor(c, rt, e, o, app)
             needs == {[runtime |-> q.runtime, p |-> picks[<<n, q, e.arch>>]] : q \in RequiredBy(rt, o.family, app)}
             prereqs == PrereqsFor(c, rt, e, o, app)
             x == OptionOf(c, l, o, app, picks, n, e)
  <1>1. x = Option(e, o, SelectFor(c, app, o), l, runs, how, needs, prereqs)
    BY DEF OptionOf
  <1>2. \A m \in needs : m.p # None => m.p.rel.file.sha \notin l
    <2> SUFFICES ASSUME NEW m \in needs, m.p # None PROVE m.p.rel.file.sha \notin l
      OBVIOUS
    <2>1. PICK q \in RequiredBy(rt, o.family, app) : m = [runtime |-> q.runtime, p |-> picks[<<n, q, e.arch>>]]
      OBVIOUS
    <2>2. m.p = picks[<<n, q, e.arch>>]
      BY <2>1
    <2>3. QED  BY <2>1, <2>2
  <1> HIDE DEF runs, how, needs, prereqs, x
  <1>3. x # None
    BY DEF x
  <1>4. /\ how # None /\ (\A y \in how.extras : y.file.sha \notin l) /\ \A m \in needs : m.p # None
        /\ x = [rel |-> e, recipe |-> how.recipe, extras |-> how.extras, minBuild |-> runs.minBuild,
                known |-> runs.known, needs |-> needs, prereqs |-> prereqs]
    BY <1>1, <1>3 DEF Option
  <1>5. /\ x.rel = e /\ x.recipe = how.recipe /\ x.extras = how.extras
        /\ x.minBuild = runs.minBuild /\ x.needs = needs
    BY <1>4
  <1>6. IsPick(c, l, app, o, x)
    <2>1. RecipeFor(c, rt, x.rel, o, app) = how /\ RunsOn(c, rt, x.rel, o) = runs
      BY <1>5 DEF how, runs
    <2>2. \A m \in x.needs : m.p.rel.file.sha \notin l
      BY <1>2, <1>4, <1>5
    <2>3. QED  BY <1>4, <1>5, <2>1, <2>2 DEF IsPick
  <1>7. QED  BY <1>5, <1>6 DEF x

\* The first option for the OS version's first build, and the first of all
\* where that one asks for a newer build.
LEMMA ChoiceIs ==
    ASSUME NEW o, o.build \in Int, NEW options, DOMAIN options \subseteq Nat,
           \A i \in DOMAIN options : options[i] # None => options[i].minBuild \in Int
    PROVE  LET b == ChoiceOf(o, options) IN
           /\ b.p # None => \E i \in DOMAIN options : b.p = options[i] /\ b.p.minBuild <= o.build
           /\ b.cond # None => \E i \in DOMAIN options : b.cond = options[i] /\ b.cond.minBuild > o.build
  <1> DEFINE all == {i \in DOMAIN options : options[i] # None}
             now == {i \in DOMAIN options : options[i] # None /\ options[i].minBuild <= o.build}
             p == FirstAt(options, now)
             first == FirstAt(options, all)
  <1>1. ChoiceOf(o, options) = [p |-> p, cond |-> IF first = p THEN None ELSE first]
    BY Zenon DEF ChoiceOf, FirstThatFits, FirstWhere
  <1>2. all \in SUBSET Nat /\ now \in SUBSET Nat
    OBVIOUS
  <1>3. \A i \in now : i \in all
    OBVIOUS
  <1>4. \A i \in all : i \in DOMAIN options /\ options[i] # None /\ options[i].minBuild \in Int
    OBVIOUS
  <1>5. \A i \in all : options[i].minBuild <= o.build <=> i \in now
    OBVIOUS
  <1> HIDE DEF all, now
  <1>6. p # None => \E i \in now : p = options[i] /\ \A j \in now : i <= j
    BY <1>2, FirstAtIs
  <1>7. first # None => \E i \in all : first = options[i] /\ \A j \in all : i <= j
    BY <1>2, FirstAtIs
  <1> HIDE DEF p, first
  <1>8. ASSUME first # None, first # p PROVE \E i \in DOMAIN options : first = options[i] /\ first.minBuild > o.build
    <2>1. PICK i \in all : first = options[i] /\ \A j \in all : i <= j
      BY <1>7, <1>8
    <2>2. i \notin now
      <3> SUFFICES ASSUME i \in now PROVE FALSE
        OBVIOUS
      <3>1. now # {} /\ p = FirstAt(options, now)
        BY DEF p
      <3>2. PICK k \in now : (\A j \in now : k <= j) /\ p = options[k]
        BY <1>2, <3>1, FirstAtIs
      <3>3. k = i
        <4>1. k <= i /\ i <= k /\ k \in Nat /\ i \in Nat
          BY <1>2, <1>3, <2>1, <3>2
        <4>2. QED  BY <4>1
      <3>4. QED  BY <1>8, <2>1, <3>2, <3>3
    <2>3. QED  BY <1>4, <1>5, <2>1, <2>2
  <1>9. p # None => \E i \in DOMAIN options : p = options[i] /\ p.minBuild <= o.build
    BY <1>3, <1>4, <1>5, <1>6
  <1>10. QED  BY <1>1, <1>8, <1>9

\* What an option comes to depends on the companions one runtime deep only.
LEMMA SameBest ==
    ASSUME NEW c, NEW l, NEW o, NEW app, app.runtime \in DOMAIN c.runtimes, NEW g, NEW h, NEW n,
           \A q \in Requirements(c, o.family) : \A a \in Arches : g[<<n, q, a>>] = h[<<n, q, a>>],
           NEW cands, \A i \in DOMAIN cands : cands[i].arch \in Arches
    PROVE  BestOf(c, l, o, app, g, n, cands) = BestOf(c, l, o, app, h, n, cands)
  <1> DEFINE rt == c.runtimes[app.runtime]
             req == RequiredBy(rt, o.family, app)
  <1>1. req \subseteq Requirements(c, o.family)
    BY DEF RequiredBy, Requirements
  <1> HIDE DEF req
  <1>2. ASSUME NEW i \in DOMAIN cands
        PROVE  OptionOf(c, l, o, app, g, n, cands[i]) = OptionOf(c, l, o, app, h, n, cands[i])
    <2> DEFINE N(k) == {[runtime |-> q.runtime, p |-> k[<<n, q, cands[i].arch>>]] : q \in req}
    <2>1. \A q \in req : g[<<n, q, cands[i].arch>>] = h[<<n, q, cands[i].arch>>]
      BY <1>1
    <2>2. N(g) = N(h)
      BY <2>1
    <2> HIDE DEF N
    <2>3. \A k : OptionOf(c, l, o, app, k, n, cands[i]) =
                 Option(cands[i], o, SelectFor(c, app, o), l, RunsOn(c, rt, cands[i], o),
                        RecipeFor(c, rt, cands[i], o, app), N(k), PrereqsFor(c, rt, cands[i], o, app))
      BY DEF OptionOf, N, req
    <2>4. QED  BY <2>2, <2>3
  <1>3. [i \in DOMAIN cands |-> OptionOf(c, l, o, app, g, n, cands[i])]
        = [i \in DOMAIN cands |-> OptionOf(c, l, o, app, h, n, cands[i])]
    BY <1>2
  <1>4. QED  BY <1>3 DEF BestOf

LEMMA CompanionCandidatesAre ==
    ASSUME NEW cands, NEW q, NEW a
    PROVE  LET s == CompanionCandidates(cands, q, a) IN
           DOMAIN s \subseteq DOMAIN cands /\ \A i \in DOMAIN s : s[i] = cands[i]
  BY DEF CompanionCandidates

\* The companions as their definition says, deeper and deeper.
LEMMA PicksGrow ==
    ASSUME NEW c, GoodCatalogue(c), NEW l, NEW lists, GoodLists(c, l, lists), NEW o, o.family \in ToSet(Families)
    PROVE  Companions(c, lists, l, o) =
              [x \in (0..Depth(c)) \X Requirements(c, o.family) \X Arches |->
                  IF x[1] = 0 THEN None
                  ELSE BestOf(c, l, o, Companion(x[2].runtime), Companions(c, lists, l, o), x[1] - 1,
                              CompanionCandidates(lists[x[2].runtime][x[3]], x[2], x[3])).p]
  <1> DEFINE Q == Requirements(c, o.family)
             Step(g, x) == BestOf(c, l, o, Companion(x[2].runtime), g, x[1] - 1,
                                  CompanionCandidates(lists[x[2].runtime][x[3]], x[2], x[3])).p
             Is(g, m) == g = [x \in (0..m) \X Q \X Arches |-> IF x[1] = 0 THEN None ELSE Step(g, x)]
             T == {m \in Nat : \A g : ~Is(g, m)}
  <1>1. ASSUME NEW g, NEW h, NEW m, NEW x, x \in (0..m) \X Q \X Arches,
               \A q \in Q : \A a \in Arches : g[<<x[1] - 1, q, a>>] = h[<<x[1] - 1, q, a>>]
        PROVE  Step(g, x) = Step(h, x)
    <2> DEFINE app == Companion(x[2].runtime)
               cands == CompanionCandidates(lists[x[2].runtime][x[3]], x[2], x[3])
    <2>1. x[2] \in Q /\ x[3] \in Arches
      BY <1>1
    <2>2. x[2].runtime \in DOMAIN c.runtimes
      <3>1. PICK id \in DOMAIN c.runtimes : x[2] \in c.runtimes[id].requires[o.family]
        BY <2>1 DEF Requirements
      <3>2. o.family \in DOMAIN c.runtimes[id].requires
        BY DEF GoodCatalogue, GoodRuntime
      <3>3. QED  BY <3>1, <3>2 DEF GoodCatalogue, GoodRuntime
    <2>3. app.runtime = x[2].runtime
      BY DEF Companion
    <2>4. \A i \in DOMAIN cands : cands[i].arch \in Arches
      <3> SUFFICES ASSUME NEW i \in DOMAIN cands PROVE cands[i].arch \in Arches
        OBVIOUS
      <3>1. i \in DOMAIN lists[x[2].runtime][x[3]] /\ cands[i] = lists[x[2].runtime][x[3]][i]
        BY CompanionCandidatesAre
      <3>2. cands[i] \in c.runtimes[x[2].runtime].releases
        BY <2>1, <2>2, <3>1 DEF GoodLists
      <3>3. QED  BY <2>2, <3>2 DEF GoodCatalogue, GoodRuntime
    <2> HIDE DEF app, cands, Q
    <2>5. \A q \in Requirements(c, o.family) : \A a \in Arches : g[<<x[1] - 1, q, a>>] = h[<<x[1] - 1, q, a>>]
      BY <1>1 DEF Q
    <2>6. app.runtime \in DOMAIN c.runtimes
      BY <2>2, <2>3
    <2> DEFINE n == x[1] - 1
    <2>7. \A q \in Requirements(c, o.family) : \A a \in Arches : g[<<n, q, a>>] = h[<<n, q, a>>]
      BY <2>5
    <2> HIDE DEF n
    <2>8. BestOf(c, l, o, app, g, n, cands) = BestOf(c, l, o, app, h, n, cands)
      BY <2>4, <2>6, <2>7, SameBest
    <2>9. QED  BY <2>8 DEF app, cands, n
  <1> HIDE DEF Step, Q
  <1>2. T = {}
    <2> SUFFICES ASSUME T # {} PROVE FALSE
      OBVIOUS
    <2>1. PICK m \in T : \A y \in T : m <= y
      <3>1. T \in SUBSET Nat
        OBVIOUS
      <3> HIDE DEF T
      <3>2. QED  BY <3>1, LeastNat
    <2>2. m # 0
      <3> DEFINE g == [x \in (0..0) \X Q \X Arches |-> None]
      <3>1. \A x \in (0..0) \X Q \X Arches : x[1] = 0
        OBVIOUS
      <3>2. g = [x \in (0..0) \X Q \X Arches |-> IF x[1] = 0 THEN None ELSE Step(g, x)]
        BY <3>1
      <3>3. Is(g, 0)
        BY <3>2
      <3>4. QED  BY <2>1, <3>3
    <2>3. m - 1 \in Nat /\ m - 1 \notin T /\ m \in Nat
      <3>1. m \in Nat
        OBVIOUS
      <3> HIDE DEF T
      <3>2. QED  BY <2>1, <2>2, <3>1
    <2>4. PICK g : Is(g, m - 1)
      <3> HIDE DEF Is
      <3>1. QED  BY <2>3
    <2> DEFINE h == [x \in (0..m) \X Q \X Arches |-> IF x[1] = m THEN Step(g, x) ELSE g[x]]
    <2>5. ASSUME NEW k \in 0..(m - 1), NEW q \in Q, NEW a \in Arches
          PROVE  h[<<k, q, a>>] = g[<<k, q, a>>]
      <3>1. <<k, q, a>> \in (0..m) \X Q \X Arches /\ <<k, q, a>>[1] = k /\ k # m
        BY <2>3
      <3>2. QED  BY <3>1
    <2>6. ASSUME NEW x \in (0..m) \X Q \X Arches
          PROVE  h[x] = IF x[1] = 0 THEN None ELSE Step(h, x)
      <3>1. x[1] \in 0..m
        OBVIOUS
      <3>2. CASE x[1] = 0
        <4>1. x \in (0..(m - 1)) \X Q \X Arches
          BY <2>2, <2>3, <3>2
        <4>2. g[x] = None
          BY <2>4, <3>2, <4>1
        <4>3. h[x] = g[x]
          BY <2>2, <3>2
        <4>4. QED  BY <3>2, <4>2, <4>3
      <3>3. CASE x[1] # 0
        <4>1. x[1] - 1 \in 0..(m - 1)
          BY <2>3, <3>1, <3>3
        <4>2. Step(g, x) = Step(h, x)
          <5> HIDE DEF h
          <5>1. \A q \in Q : \A a \in Arches : g[<<x[1] - 1, q, a>>] = h[<<x[1] - 1, q, a>>]
            BY <2>5, <4>1
          <5>2. QED  BY <1>1, <5>1
        <4>3. CASE x[1] = m
          <5>1. h[x] = Step(g, x)
            BY <4>3
          <5> HIDE DEF h
          <5>2. QED  BY <3>3, <4>2, <5>1
        <4>4. CASE x[1] # m
          <5>1. x \in (0..(m - 1)) \X Q \X Arches
            BY <2>3, <3>1, <4>4
          <5>2. h[x] = g[x]
            BY <4>4
          <5>3. g[x] = Step(g, x)
            BY <2>4, <3>3, <5>1
          <5> HIDE DEF h
          <5>4. QED  BY <3>3, <4>2, <5>2, <5>3
        <4>5. QED  BY <4>3, <4>4
      <3>4. QED  BY <3>2, <3>3
    <2>7. Is(h, m)
      <3>1. h = [x \in (0..m) \X Q \X Arches |-> h[x]]
        OBVIOUS
      <3> HIDE DEF h
      <3>2. [x \in (0..m) \X Q \X Arches |-> h[x]]
            = [x \in (0..m) \X Q \X Arches |-> IF x[1] = 0 THEN None ELSE Step(h, x)]
        BY <2>6
      <3>3. QED  BY <3>1, <3>2
    <2>8. QED
      <3> HIDE DEF Is
      <3>1. QED  BY <2>1, <2>7
  <1>3. Depth(c) \in Nat
    BY FS_CardinalityType DEF GoodCatalogue, Depth
  <1>4. \E g : Is(g, Depth(c))
    <2> HIDE DEF Is
    <2>1. QED  BY <1>2, <1>3
  <1>5. Companions(c, lists, l, o) = CHOOSE g : Is(g, Depth(c))
    BY Zenon DEF Companions, Step, Q
  <1>6. Is(Companions(c, lists, l, o), Depth(c))
    <2> HIDE DEF Is
    <2>1. QED  BY <1>4, <1>5, Zenon
  <1>7. QED  BY <1>6, Zenon DEF Step, Q

\* No companion is withdrawn.
LEMMA CompanionsStand ==
    ASSUME NEW c, GoodCatalogue(c), NEW l, NEW lists, GoodLists(c, l, lists),
           NEW o, o.family \in ToSet(Families), o.build \in Int,
           NEW x \in (0..Depth(c)) \X Requirements(c, o.family) \X Arches,
           Companions(c, lists, l, o)[x] # None
    PROVE  Companions(c, lists, l, o)[x].rel.file.sha \notin l
  <1> DEFINE picks == Companions(c, lists, l, o)
             app == Companion(x[2].runtime)
             cands == CompanionCandidates(lists[x[2].runtime][x[3]], x[2], x[3])
             options == [i \in DOMAIN cands |-> OptionOf(c, l, o, app, picks, x[1] - 1, cands[i])]
  <1>1. x[1] # 0 /\ picks[x] = ChoiceOf(o, options).p
    <2>1. picks[x] = IF x[1] = 0 THEN None ELSE BestOf(c, l, o, app, picks, x[1] - 1, cands).p
      <3> HIDE DEF cands, app
      <3>1. picks = [y \in (0..Depth(c)) \X Requirements(c, o.family) \X Arches |->
                  IF y[1] = 0 THEN None
                  ELSE BestOf(c, l, o, Companion(y[2].runtime), picks, y[1] - 1,
                              CompanionCandidates(lists[y[2].runtime][y[3]], y[2], y[3])).p]
        BY PicksGrow
      <3> HIDE DEF picks
      <3>2. QED  BY <3>1 DEF cands, app
    <2>2. picks[x] # None
      OBVIOUS
    <2> HIDE DEF picks, cands, app
    <2>3. QED  BY <2>1, <2>2 DEF BestOf
  <1>2. x[2].runtime \in DOMAIN c.runtimes /\ x[3] \in Arches /\ app.runtime = x[2].runtime
    <2>1. PICK id \in DOMAIN c.runtimes : x[2] \in c.runtimes[id].requires[o.family]
      BY DEF Requirements
    <2>2. o.family \in DOMAIN c.runtimes[id].requires
      BY DEF GoodCatalogue, GoodRuntime
    <2>3. x[2].runtime \in DOMAIN c.runtimes
      BY <2>1, <2>2 DEF GoodCatalogue, GoodRuntime
    <2>4. QED  BY <2>3 DEF Companion
  <1> HIDE DEF app
  <1>3. /\ DOMAIN cands \subseteq Nat
        /\ \A i \in DOMAIN cands : cands[i].file.sha \notin l
    <2> DEFINE s == lists[x[2].runtime][x[3]]
    <2>1. DOMAIN s \subseteq Nat /\ \A i \in DOMAIN s : s[i].file.sha \notin l
      BY <1>2 DEF GoodLists
    <2>2. DOMAIN cands \subseteq DOMAIN s /\ \A i \in DOMAIN cands : cands[i] = s[i]
      BY CompanionCandidatesAre
    <2> HIDE DEF s, cands
    <2>3. QED  BY <2>1, <2>2
  <1> DEFINE Runs(e) == RunsOn(c, c.runtimes[app.runtime], e, o)
  <1>4. \A e : Runs(e).minBuild \in Nat
    <2>1. \A r \in c.runtimes[app.runtime].rules : r.minBuild \in 0..NoBuild
      BY <1>2 DEF GoodCatalogue, GoodRuntime
    <2>2. QED  BY <2>1, BuildOfRuns
  <1>5. ASSUME NEW i \in DOMAIN cands, OptionOf(c, l, o, app, picks, x[1] - 1, cands[i]) # None
        PROVE  LET y == OptionOf(c, l, o, app, picks, x[1] - 1, cands[i]) IN
               y.rel = cands[i] /\ y.minBuild \in Int
    <2> HIDE DEF cands, picks, Runs
    <2> DEFINE y == OptionOf(c, l, o, app, picks, x[1] - 1, cands[i])
    <2>1. y # None => y.rel = cands[i] /\ y.minBuild = Runs(cands[i]).minBuild
      BY DEF OptionOf, Option, Runs
    <2> HIDE DEF y
    <2>2. y # None
      BY <1>5 DEF y
    <2>3. y.rel = cands[i] /\ y.minBuild \in Nat
      BY <1>4, <2>1, <2>2
    <2>4. QED  BY <2>3 DEF y
  <1>6. /\ DOMAIN options = DOMAIN cands
        /\ \A i \in DOMAIN cands : options[i] # None => options[i].rel = cands[i] /\ options[i].minBuild \in Int
    <2> HIDE DEF cands, picks
    <2>1. QED  BY <1>5
  <1> HIDE DEF options, picks
  <1>7. PICK i \in DOMAIN options : picks[x] = options[i]
    <2> DEFINE b == ChoiceOf(o, options)
    <2>1. b.p # None => \E i \in DOMAIN options : b.p = options[i] /\ b.p.minBuild <= o.build
      <3> HIDE DEF cands
      <3>1. DOMAIN options \subseteq Nat /\ \A i \in DOMAIN options : options[i] # None => options[i].minBuild \in Int
        BY <1>3, <1>6
      <3>2. QED  BY <3>1, ChoiceIs
    <2>2. b.p # None
      BY <1>1 DEF picks
    <2> HIDE DEF b
    <2>3. QED  BY <1>1, <2>1, <2>2 DEF b
  <1>8. picks[x].rel = cands[i]
    <2> HIDE DEF cands
    <2>1. picks[x] # None
      BY DEF picks
    <2>2. QED  BY <1>6, <1>7, <2>1
  <1>9. QED
    <2> HIDE DEF cands
    <2>1. picks[x].rel.file.sha \notin l
      BY <1>3, <1>6, <1>7, <1>8
    <2>2. QED  BY <2>1 DEF picks

\* The best for an OS version is an option that its first build runs, and what
\* only newer ones get an option that asks for more.
LEMMA BestIs ==
    ASSUME NEW c, GoodCatalogue(c), NEW l, NEW lists, GoodLists(c, l, lists),
           NEW o, o.family \in ToSet(Families), o.build \in Int,
           NEW a \in Arches, NEW app, app.runtime \in DOMAIN c.runtimes
    PROVE  LET b == Best(c, lists, l, a, o, app) IN
           /\ b.p # None => IsPick(c, l, app, o, b.p) /\ b.p.minBuild <= o.build
           /\ b.cond # None => IsPick(c, l, app, o, b.cond) /\ b.cond.minBuild > o.build
  <1> DEFINE picks == Companions(c, lists, l, o)
             cands == lists[app.runtime][a]
             options == [i \in DOMAIN cands |-> OptionOf(c, l, o, app, picks, Depth(c), cands[i])]
  <1>1. Best(c, lists, l, a, o, app) = ChoiceOf(o, options)
    BY Zenon DEF Best, BestOf
  <1>2. /\ DOMAIN cands \subseteq Nat
        /\ \A i \in DOMAIN cands : cands[i] \in c.runtimes[app.runtime].releases /\ cands[i].file.sha \notin l
    BY DEF GoodLists
  <1> HIDE DEF cands
  <1>3. \A r \in c.runtimes[app.runtime].rules : r.minBuild \in 0..NoBuild
    BY DEF GoodCatalogue, GoodRuntime
  <1>4. ASSUME NEW i \in DOMAIN cands, OptionOf(c, l, o, app, picks, Depth(c), cands[i]) # None
        PROVE  LET y == OptionOf(c, l, o, app, picks, Depth(c), cands[i]) IN
               IsPick(c, l, app, o, y) /\ y.minBuild \in Int
    <2> DEFINE e == cands[i]
               y == OptionOf(c, l, o, app, picks, Depth(c), e)
    <2>1. e \in c.runtimes[app.runtime].releases /\ e.file.sha \notin l
      BY <1>2
    <2>2. e.arch \in Arches
      <3> HIDE DEF e
      <3>1. QED  BY <2>1 DEF GoodCatalogue, GoodRuntime
    <2>3. Depth(c) \in 0..Depth(c)
      <3>1. Depth(c) \in Nat
        BY FS_CardinalityType DEF GoodCatalogue, Depth
      <3>2. QED  BY <3>1
    <2> HIDE DEF e
    <2>4. \A q \in RequiredBy(c.runtimes[app.runtime], o.family, app) :
              picks[<<Depth(c), q, e.arch>>] # None => picks[<<Depth(c), q, e.arch>>].rel.file.sha \notin l
      <3> SUFFICES ASSUME NEW q \in RequiredBy(c.runtimes[app.runtime], o.family, app),
                          picks[<<Depth(c), q, e.arch>>] # None
                   PROVE  picks[<<Depth(c), q, e.arch>>].rel.file.sha \notin l
        OBVIOUS
      <3>1. q \in Requirements(c, o.family)
        BY DEF RequiredBy, Requirements
      <3>2. <<Depth(c), q, e.arch>> \in (0..Depth(c)) \X Requirements(c, o.family) \X Arches
        BY <2>2, <2>3, <3>1
      <3>3. QED  BY <3>2, CompanionsStand
    <2> HIDE DEF picks
    <2>5. y # None
      BY <1>4 DEF e
    <2>6. IsPick(c, l, app, o, y)
      BY <2>1, <2>4, <2>5, OptionIs
    <2>7. y.minBuild \in Nat
      <3> HIDE DEF y
      <3>1. y.minBuild = RunsOn(c, c.runtimes[app.runtime], y.rel, o).minBuild
        BY <2>6 DEF IsPick
      <3>2. QED  BY <1>3, <3>1, BuildOfRuns
    <2>8. QED  BY <2>6, <2>7 DEF e
  <1> HIDE DEF picks
  <1>5. /\ DOMAIN options = DOMAIN cands
        /\ \A i \in DOMAIN cands : options[i] # None => IsPick(c, l, app, o, options[i]) /\ options[i].minBuild \in Int
    BY <1>4
  <1> DEFINE b == ChoiceOf(o, options)
  <1> HIDE DEF options
  <1>6. /\ b.p # None => \E i \in DOMAIN options : b.p = options[i] /\ b.p.minBuild <= o.build
        /\ b.cond # None => \E i \in DOMAIN options : b.cond = options[i] /\ b.cond.minBuild > o.build
    <2>1. DOMAIN options \subseteq Nat /\ \A i \in DOMAIN options : options[i] # None => options[i].minBuild \in Int
      BY <1>2, <1>5
    <2>2. QED  BY <2>1, ChoiceIs
  <1> HIDE DEF b
  <1>7. QED
    <2>1. /\ b.p # None => IsPick(c, l, app, o, b.p) /\ b.p.minBuild <= o.build
          /\ b.cond # None => IsPick(c, l, app, o, b.cond) /\ b.cond.minBuild > o.build
      BY <1>5, <1>6
    <2>2. QED  BY <1>1, <2>1 DEF b

\* Two picks of the same release ask for the same build; with the same recipe
\* they bring the same files.
LEMMA SameRelease ==
    ASSUME NEW c, GoodCatalogue(c), NEW l, NEW app, app.runtime \in DOMAIN c.runtimes,
           NEW o, NEW p, o.family = p.family, o.family = "windows" => o.id # "musl" /\ p.id # "musl",
           NEW x, IsPick(c, l, app, o, x), NEW y, IsPick(c, l, app, p, y), x.rel = y.rel
    PROVE  x.minBuild = y.minBuild /\ (x.recipe = y.recipe => x.extras = y.extras)
  <1> DEFINE rt == c.runtimes[app.runtime]
  <1>1. GoodRuntime(c, rt) /\ DOMAIN c.methodOrder \subseteq Nat
    BY DEF GoodCatalogue
  <1>2. x.minBuild = RunsOn(c, rt, x.rel, o).minBuild /\ y.minBuild = RunsOn(c, rt, x.rel, p).minBuild
    BY DEF IsPick
  <1>3. \A r \in rt.rules : r.minBuild \in 0..NoBuild
    BY <1>1 DEF GoodRuntime
  <1>4. x.minBuild = y.minBuild
    <2> HIDE DEF rt
    <2>1. QED  BY <1>2, <1>3, SameBuild
  <1>5. ASSUME x.recipe = y.recipe PROVE x.extras = y.extras
    <2> DEFINE e == x.rel
    <2>1. /\ e \in rt.releases /\ RecipeFor(c, rt, e, o, app) # None /\ RecipeFor(c, rt, e, p, app) # None
          /\ x.recipe = RecipeFor(c, rt, e, o, app).recipe /\ x.extras = RecipeFor(c, rt, e, o, app).extras
          /\ y.recipe = RecipeFor(c, rt, e, p, app).recipe /\ y.extras = RecipeFor(c, rt, e, p, app).extras
      BY DEF IsPick
    <2> HIDE DEF e
    <2>2. Len(rt.recipes) \in Nat /\ DOMAIN rt.recipes = 1..Len(rt.recipes) /\ SameFiles(rt, e)
      BY <1>1, <2>1 DEF GoodRuntime, SameFiles
    <2> HIDE DEF rt
    <2>3. \E i \in DOMAIN rt.recipes : /\ Supported(c, rt, rt.recipes[i], e, o, app).ok
                                       /\ x.recipe = rt.recipes[i]
                                       /\ x.extras = Supported(c, rt, rt.recipes[i], e, o, app).extras
      <3>1. PICK i \in DOMAIN rt.recipes :
                /\ Supported(c, rt, rt.recipes[i], e, o, app).ok
                /\ RecipeFor(c, rt, e, o, app).recipe = rt.recipes[i]
                /\ RecipeFor(c, rt, e, o, app).extras = Supported(c, rt, rt.recipes[i], e, o, app).extras
        BY <1>1, <2>1, <2>2, RecipeIs
      <3>2. QED  BY <2>1, <3>1
    <2>4. \E i \in DOMAIN rt.recipes : /\ Supported(c, rt, rt.recipes[i], e, p, app).ok
                                       /\ y.recipe = rt.recipes[i]
                                       /\ y.extras = Supported(c, rt, rt.recipes[i], e, p, app).extras
      <3>1. PICK i \in DOMAIN rt.recipes :
                /\ Supported(c, rt, rt.recipes[i], e, p, app).ok
                /\ RecipeFor(c, rt, e, p, app).recipe = rt.recipes[i]
                /\ RecipeFor(c, rt, e, p, app).extras = Supported(c, rt, rt.recipes[i], e, p, app).extras
        BY <1>1, <2>1, <2>2, RecipeIs
      <3>2. QED  BY <2>1, <3>1
    <2> DEFINE r == x.recipe
    <2>5. /\ Supported(c, rt, r, e, o, app).ok /\ x.extras = Supported(c, rt, r, e, o, app).extras
          /\ Supported(c, rt, r, e, p, app).ok /\ y.extras = Supported(c, rt, r, e, p, app).extras
      BY <1>5, <2>3, <2>4
    <2> HIDE DEF r
    <2>6. QED  BY <2>2, <2>5, SameExtras
  <1>6. QED  BY <1>4, <1>5

\* p brings what best does, or neither brings anything.
GivesBest(p, best) == IF best = None THEN p = None ELSE p # None /\ Gets(p) = Gets(best)

LEMMA SameGets ==
    ASSUME NEW c, GoodCatalogue(c), NEW l, NEW app, app.runtime \in DOMAIN c.runtimes,
           NEW o, NEW p, o.family = p.family, o.family = "windows" => o.id # "musl" /\ p.id # "musl",
           NEW x, x # None => IsPick(c, l, app, o, x), NEW y, y # None => IsPick(c, l, app, p, y), SamePick(x, y)
    PROVE  GivesBest(x, y)
  <1>1. CASE x = None \/ y = None
    BY <1>1 DEF SamePick, GivesBest
  <1>2. CASE x # None /\ y # None
    <2>1. x.rel = y.rel /\ x.recipe = y.recipe /\ {n.p.rel : n \in x.needs} = {n.p.rel : n \in y.needs}
          /\ AllPrereqs(x) = AllPrereqs(y)
      BY <1>2 DEF SamePick
    <2>2. x.extras = y.extras
      BY <1>2, <2>1, SameRelease
    <2>3. QED  BY <1>2, <2>1, <2>2 DEF GivesBest, Gets
  <1>3. QED  BY <1>1, <1>2
-----------------------------------------------------------------------------
(* Lists of blocks *)

IsList(s) == s \in Seq(ToSet(s))

LEMMA EmptyList == IsList(<<>>) /\ DOMAIN <<>> = {} /\ Len(<<>>) = 0
  BY DEF IsList

LEMMA ListDomain ==
    ASSUME NEW s, IsList(s) PROVE Len(s) \in Nat /\ DOMAIN s = 1..Len(s)
  BY DEF IsList

LEMMA ListAppend ==
    ASSUME NEW s, IsList(s), NEW b
    PROVE  LET t == Append(s, b) IN
           /\ IsList(t) /\ Len(t) = Len(s) + 1 /\ DOMAIN t = 1..(Len(s) + 1) /\ t[Len(s) + 1] = b
           /\ \A i \in DOMAIN s : t[i] = s[i]
  <1> DEFINE S == ToSet(s) \cup {b}
             t == Append(s, b)
  <1>1. s \in Seq(S)
    <2>1. ToSet(s) \subseteq S
      OBVIOUS
    <2> HIDE DEF S
    <2>2. QED  BY <2>1 DEF IsList
  <1>2. b \in S
    OBVIOUS
  <1> HIDE DEF S
  <1>3. /\ t \in Seq(S) /\ Len(t) = Len(s) + 1 /\ t[Len(s) + 1] = b
        /\ \A i \in 1..Len(s) : t[i] = s[i]
    BY <1>1, <1>2
  <1>4. DOMAIN t = 1..(Len(s) + 1) /\ DOMAIN s = 1..Len(s)
    BY <1>1, <1>3
  <1>5. IsList(t)
    <2> HIDE DEF t
    <2>1. t \in [1..(Len(s) + 1) -> ToSet(t)]
      BY <1>3, <1>4 DEF ToSet
    <2>2. Len(s) + 1 \in Nat
      BY <1>1
    <2>3. QED  BY <2>1, <2>2 DEF IsList
  <1>6. QED  BY <1>3, <1>4, <1>5

Joined(s, r) == s \o r

LEMMA ListConcat ==
    ASSUME NEW s, IsList(s), NEW r, IsList(r)
    PROVE  LET t == Joined(s, r) IN
           /\ IsList(t) /\ Len(t) = Len(s) + Len(r) /\ DOMAIN t = 1..(Len(s) + Len(r))
           /\ \A i \in 1..Len(s) : t[i] = s[i]
           /\ \A i \in 1..Len(r) : t[Len(s) + i] = r[i]
  <1> DEFINE S == ToSet(s) \cup ToSet(r)
             t == Joined(s, r)
  <1>1. s \in Seq(S) /\ r \in Seq(S)
    <2>1. ToSet(s) \subseteq S /\ ToSet(r) \subseteq S
      OBVIOUS
    <2> HIDE DEF S
    <2>2. QED  BY <2>1 DEF IsList
  <1> HIDE DEF S
  <1>2. /\ t \in Seq(S) /\ Len(t) = Len(s) + Len(r)
        /\ \A i \in 1..Len(s) : t[i] = s[i]
        /\ \A i \in 1..Len(r) : t[Len(s) + i] = r[i]
    <2>1. \A i \in 1..Len(r) : Len(s) + i \in 1..(Len(s) + Len(r)) /\ Len(s) + i > Len(s) /\ Len(s) + i - Len(s) = i
      BY <1>1
    <2>2. QED  BY <1>1, <2>1, ConcatProperties DEF Joined
  <1>3. DOMAIN t = 1..(Len(s) + Len(r)) /\ Len(s) + Len(r) \in Nat
    BY <1>1, <1>2
  <1>4. IsList(t)
    <2> DEFINE n == Len(s) + Len(r)
    <2> HIDE DEF t
    <2>1. n \in Nat /\ t \in [1..n -> ToSet(t)]
      BY <1>2, <1>3 DEF ToSet
    <2> HIDE DEF n
    <2>2. QED  BY <2>1 DEF IsList
  <1>5. QED  BY <1>2, <1>3, <1>4
-----------------------------------------------------------------------------
(* A family's OS versions, and a computer's place among them *)

\* k is the version a computer has: the newest it is not before.
At(scale, m, k) ==
    k \in DOMAIN scale /\ ~OlderThan(m, scale[k]) /\ \A j \in DOMAIN scale : j < k => OlderThan(m, scale[j])

GoodComputer(m, scale) ==
    /\ m.int \in 0..NoTop /\ m.build \in Nat
    /\ \A i \in DOMAIN scale : scale[i].build > 0 => m.int <= scale[i].int

LEMMA ScaleIs ==
    ASSUME NEW scale, NEW f, GoodScale(scale, f)
    PROVE  /\ Len(scale) \in Nat /\ DOMAIN scale = 1..Len(scale)
           /\ \A i \in DOMAIN scale : scale[i].int \in Nat /\ scale[i].int <= NoTop /\ scale[i].build \in Nat
           /\ \A i \in DOMAIN scale : scale[i].build > 0 =>
                 f = "windows" /\ i = 1 /\ 2 \in DOMAIN scale /\ scale[2].int = scale[1].int
           /\ \A i, j \in DOMAIN scale : i <= j => scale[j].int <= scale[i].int /\ scale[j].build <= scale[i].build
  <1>1. /\ Len(scale) \in Nat /\ DOMAIN scale = 1..Len(scale)
        /\ \A i \in DOMAIN scale : scale[i].int \in 0..NoTop /\ scale[i].build \in Nat
        /\ \A i \in DOMAIN scale : scale[i].build > 0 =>
              f = "windows" /\ i = 1 /\ Len(scale) >= 2 /\ scale[2].int = scale[1].int
        /\ \A i, j \in DOMAIN scale : i < j => OlderThan(scale[j], scale[i])
    BY DEF GoodScale
  <1>2. NoTop \in Nat
    BY Numbers
  <1>3. \A i \in DOMAIN scale : scale[i].int \in Nat /\ scale[i].int <= NoTop /\ scale[i].build \in Nat
    BY <1>1, <1>2
  <1>4. \A i, j \in DOMAIN scale : i <= j => scale[j].int <= scale[i].int /\ scale[j].build <= scale[i].build
    <2> SUFFICES ASSUME NEW i \in DOMAIN scale, NEW j \in DOMAIN scale, i <= j
                 PROVE  scale[j].int <= scale[i].int /\ scale[j].build <= scale[i].build
      OBVIOUS
    <2>1. CASE i = j
      BY <1>3, <2>1
    <2>2. CASE i # j
      <3>1. i < j
        BY <1>1, <2>2
      <3>2. scale[j].int <= scale[i].int
        BY <1>1, <1>3, <3>1 DEF OlderThan
      <3>3. ~(scale[j].build > 0)
        <4>1. i \in Nat /\ j \in Nat /\ i >= 1
          BY <1>1
        <4>2. j # 1
          BY <3>1, <4>1
        <4>3. QED  BY <1>1, <4>2
      <3>4. QED  BY <1>3, <3>2, <3>3
    <2>3. QED  BY <2>1, <2>2
  <1>5. QED  BY <1>1, <1>3, <1>4

\* No computer that has a version is above what a block from it, or from a
\* newer one, reaches up to.
LEMMA TopIs ==
    ASSUME NEW scale, NEW f, GoodScale(scale, f), NEW s \in DOMAIN scale
    PROVE  /\ Top(scale, scale[s]) \in Int
           /\ \A m, i : GoodComputer(m, scale) /\ At(scale, m, i) /\ s <= i => m.int <= Top(scale, scale[s])
  <1> DEFINE newer == {n \in ToSet(scale) : n.int > scale[s].int}
             tops == {NoTop} \cup {n.int - 1 : n \in newer}
  <1>1. Top(scale, scale[s]) = Min(tops)
    BY Zenon DEF Top
  <1>2. \A n \in newer : \E j \in DOMAIN scale : n = scale[j] /\ scale[j].int > scale[s].int
    BY DEF ToSet
  <1> HIDE DEF newer
  <1>3. tops \in SUBSET Nat /\ tops # {}
    <2>1. \A n \in newer : n.int - 1 \in Nat
      BY <1>2, ScaleIs
    <2>2. QED  BY <2>1, Numbers
  <1>4. \A t \in tops : t = NoTop \/ \E j \in DOMAIN scale : t = scale[j].int - 1 /\ scale[j].int > scale[s].int
    BY <1>2
  <1> HIDE DEF tops
  <1>5. Min(tops) \in tops
    BY <1>3, MinIsLeast
  <1>6. ASSUME NEW m, NEW i, GoodComputer(m, scale), At(scale, m, i), s <= i PROVE m.int <= Min(tops)
    <2>1. m.int \in Nat /\ m.int <= NoTop /\ m.build \in Nat
      BY <1>6, Numbers DEF GoodComputer
    <2>2. ASSUME NEW j \in DOMAIN scale, scale[j].int > scale[s].int PROVE m.int <= scale[j].int - 1
      <3>1. s \in Nat /\ j \in Nat /\ i \in Nat /\ i \in DOMAIN scale
        BY <1>6, ScaleIs DEF At
      <3>2. ~(s <= j)
        BY <2>2, ScaleIs
      <3>3. OlderThan(m, scale[j])
        BY <1>6, <3>1, <3>2 DEF At
      <3>4. CASE m.int < scale[j].int
        BY <2>1, <3>4, ScaleIs
      <3>5. CASE ~(m.int < scale[j].int)
        <4>1. m.int = scale[j].int /\ m.build < scale[j].build
          BY <3>3, <3>5 DEF OlderThan
        <4>2. scale[j].build > 0
          BY <2>1, <4>1, ScaleIs
        <4>3. j = 1 /\ 2 \in DOMAIN scale /\ scale[2].int = m.int
          BY <4>1, <4>2, ScaleIs
        <4>4. ~OlderThan(m, scale[2])
          <5>1. scale[2].build = 0
            <6>1. ~(scale[2].build > 0)
              BY <4>3, ScaleIs
            <6>2. QED  BY <4>3, <6>1, ScaleIs
          <5>2. QED  BY <2>1, <4>3, <5>1 DEF OlderThan
        <4>5. ~(2 < i)
          BY <1>6, <4>3, <4>4 DEF At
        <4>6. s = 2
          BY <1>6, <3>1, <3>2, <4>3, <4>5
        <4>7. QED  BY <2>2, <4>1, <4>3, <4>6, ScaleIs
      <3>6. QED  BY <3>4, <3>5
    <2>3. QED  BY <1>4, <1>5, <2>1, <2>2
  <1>7. Min(tops) \in Int
    <2>1. \A t \in tops : t \in Int
      BY <1>3
    <2>2. QED  BY <1>5, <2>1, Zenon
  <1>8. \A m, i : GoodComputer(m, scale) /\ At(scale, m, i) /\ s <= i => m.int <= Min(tops)
    BY <1>6
  <1>9. QED  BY <1>1, <1>7, <1>8
-----------------------------------------------------------------------------
(* Blocks and the computers they serve *)

\* A list with one block more, and with another last block.
Added(s, b) == Append(s, b)
WithLast(s, b) == [s EXCEPT ![Len(s)] = b]

IsBlock(b, f, a, options) ==
    b \in [family : {f}, min : Int, max : Int, minBuild : Int, machine : {a}, p : options, gone : {b.gone}]

Covers(b, m) ==
    /\ b.family = m.family /\ b.machine = m.arch
    /\ b.min <= m.int /\ m.int <= b.max
    /\ m.family = "windows" => b.minBuild <= m.build

Silent(blocks, m) == \A j \in DOMAIN blocks : ~Covers(blocks[j], m)
ServedBy(blocks, m, want) ==
    \E j \in DOMAIN blocks : /\ Covers(blocks[j], m) /\ GivesBest(blocks[j].p, want)
                             /\ \A i \in DOMAIN blocks : i < j => ~Covers(blocks[i], m)

\* One block more.
LEMMA AppendServes ==
    ASSUME NEW s, IsList(s), NEW b, NEW m, NEW want
    PROVE  /\ ServedBy(s, m, want) => ServedBy(Added(s, b), m, want)
           /\ Silent(s, m) /\ ~Covers(b, m) => Silent(Added(s, b), m)
           /\ Silent(s, m) /\ Covers(b, m) /\ GivesBest(b.p, want) => ServedBy(Added(s, b), m, want)
  <1> DEFINE t == Added(s, b)
  <1>1. /\ Len(s) \in Nat /\ DOMAIN s = 1..Len(s) /\ DOMAIN t = 1..(Len(s) + 1) /\ t[Len(s) + 1] = b
        /\ \A i \in DOMAIN s : t[i] = s[i]
    BY ListDomain, ListAppend DEF Added
  <1> HIDE DEF t
  <1> DEFINE n == Len(s) + 1
  <1>2. /\ \A j \in DOMAIN t : j = n \/ j \in DOMAIN s
        /\ \A j \in DOMAIN s : j \in DOMAIN t /\ j < n
        /\ n \in DOMAIN t /\ t[n] = b
    BY <1>1
  <1>6. \A j \in DOMAIN s : ~(n < j)
    BY <1>1
  <1>7. ~(n < n)
    BY <1>1
  <1> HIDE DEF n
  <1>3. ServedBy(s, m, want) => ServedBy(t, m, want)
    <2> SUFFICES ASSUME ServedBy(s, m, want) PROVE ServedBy(t, m, want)
      OBVIOUS
    <2>1. PICK j \in DOMAIN s : /\ Covers(s[j], m) /\ GivesBest(s[j].p, want)
                                /\ \A i \in DOMAIN s : i < j => ~Covers(s[i], m)
      BY DEF ServedBy
    <2>2. j \in DOMAIN t /\ t[j] = s[j]
      BY <1>1, <1>2
    <2>3. \A i \in DOMAIN t : i < j => ~Covers(t[i], m)
      BY <1>1, <1>2, <1>6, <2>1
    <2>4. QED  BY <2>1, <2>2, <2>3 DEF ServedBy
  <1>4. Silent(s, m) /\ ~Covers(b, m) => Silent(t, m)
    BY <1>1, <1>2 DEF Silent
  <1>5. Silent(s, m) /\ Covers(b, m) /\ GivesBest(b.p, want) => ServedBy(t, m, want)
    <2> SUFFICES ASSUME Silent(s, m), Covers(b, m), GivesBest(b.p, want) PROVE ServedBy(t, m, want)
      OBVIOUS
    <2>1. \A i \in DOMAIN t : i < n => ~Covers(t[i], m)
      BY <1>1, <1>2, <1>7 DEF Silent
    <2>2. QED  BY <1>2, <2>1 DEF ServedBy
  <1>8. QED  BY <1>3, <1>4, <1>5 DEF t

LEMMA ListGrows ==
    ASSUME NEW s, IsList(s), Len(s) > 0, NEW b
    PROVE  LET t == [s EXCEPT ![Len(s)] = b] IN
           /\ IsList(t) /\ Len(t) = Len(s) /\ DOMAIN t = DOMAIN s /\ t[Len(s)] = b
           /\ \A i \in DOMAIN s : i # Len(s) => t[i] = s[i]
  <1> DEFINE n == Len(s)
             t == [s EXCEPT ![n] = b]
  <1>1. n \in Nat /\ n \in DOMAIN s /\ DOMAIN s = 1..n
    BY ListDomain
  <1>2. DOMAIN t = DOMAIN s /\ t[n] = b /\ \A i \in DOMAIN s : i # n => t[i] = s[i]
    BY <1>1
  <1>3. IsList(t) /\ Len(t) = n
    <2>0. t = [i \in DOMAIN s |-> IF i = n THEN b ELSE s[i]]
      OBVIOUS
    <2>1. t = [i \in 1..n |-> t[i]]
      BY <1>1, <2>0
    <2> HIDE DEF t
    <2>2. t \in [1..n -> ToSet(t)]
      BY <1>1, <1>2, <2>1 DEF ToSet
    <2>3. t \in Seq(ToSet(t))
      BY <1>1, <2>2
    <2>4. Len(t) = n
      BY <1>1, <1>2, <2>3
    <2>5. QED  BY <2>3, <2>4 DEF IsList
  <1>4. QED  BY <1>2, <1>3

\* The last block grows: it covers what it did and maybe more.
LEMMA GrowthServes ==
    ASSUME NEW s, IsList(s), Len(s) > 0, NEW b, NEW m, NEW want
    PROVE  LET t == WithLast(s, b) IN
           /\ ServedBy(s, m, want) /\ (Covers(s[Len(s)], m) => Covers(b, m)) /\ b.p = s[Len(s)].p =>
                 ServedBy(t, m, want)
           /\ Silent(s, m) /\ ~Covers(b, m) => Silent(t, m)
           /\ Silent(s, m) /\ Covers(b, m) /\ GivesBest(b.p, want) => ServedBy(t, m, want)
  <1> DEFINE n == Len(s)
             t == [s EXCEPT ![n] = b]
  <1>1. n \in Nat /\ n \in DOMAIN s /\ DOMAIN s = 1..n
    BY ListDomain
  <1>2. DOMAIN t = DOMAIN s /\ t[n] = b /\ \A i \in DOMAIN s : i # n => t[i] = s[i]
    BY <1>1
  <1>4. \A i \in DOMAIN s : ~(n < i)
    BY <1>1
  <1> HIDE DEF t, n
  <1>5. ASSUME ServedBy(s, m, want), Covers(s[n], m) => Covers(b, m), b.p = s[n].p PROVE ServedBy(t, m, want)
    <2>1. PICK j \in DOMAIN s : /\ Covers(s[j], m) /\ GivesBest(s[j].p, want)
                                /\ \A i \in DOMAIN s : i < j => ~Covers(s[i], m)
      BY <1>5 DEF ServedBy
    <2>2. Covers(t[j], m) /\ GivesBest(t[j].p, want)
      BY <1>2, <1>5, <2>1
    <2>3. \A i \in DOMAIN t : i < j => ~Covers(t[i], m)
      BY <1>2, <1>4, <2>1
    <2>4. QED  BY <1>2, <2>2, <2>3 DEF ServedBy
  <1>6. Silent(s, m) /\ ~Covers(b, m) => Silent(t, m)
    BY <1>2 DEF Silent
  <1>7. ASSUME Silent(s, m), Covers(b, m), GivesBest(b.p, want) PROVE ServedBy(t, m, want)
    <2>1. \A i \in DOMAIN t : i < n => ~Covers(t[i], m)
      <3>1. ~(n < n)
        BY <1>1, <1>4
      <3>2. QED  BY <1>2, <1>7, <3>1 DEF Silent
    <2>2. QED  BY <1>1, <1>2, <1>7, <2>1 DEF ServedBy
  <1>8. /\ ServedBy(s, m, want) /\ (Covers(s[Len(s)], m) => Covers(b, m)) /\ b.p = s[Len(s)].p =>
              ServedBy(t, m, want)
        /\ Silent(s, m) /\ ~Covers(b, m) => Silent(t, m)
        /\ Silent(s, m) /\ Covers(b, m) /\ GivesBest(b.p, want) => ServedBy(t, m, want)
    BY <1>5, <1>6, <1>7 DEF n
  <1>9. QED  BY <1>8 DEF t, n, WithLast

\* Blocks after blocks.
LEMMA JoinedIs ==
    ASSUME NEW s, IsList(s), NEW r, IsList(r)
    PROVE  /\ IsList(Joined(s, r))
           /\ \A j \in DOMAIN Joined(s, r) : \/ \E i \in DOMAIN s : Joined(s, r)[j] = s[i]
                                            \/ \E i \in DOMAIN r : Joined(s, r)[j] = r[i]
  <1> DEFINE t == Joined(s, r)
             n == Len(s)
  <1>1. /\ n \in Nat /\ Len(r) \in Nat /\ DOMAIN s = 1..n /\ DOMAIN r = 1..Len(r)
        /\ IsList(t) /\ DOMAIN t = 1..(n + Len(r))
        /\ \A i \in 1..n : t[i] = s[i]
        /\ \A i \in 1..Len(r) : t[n + i] = r[i]
    <2>1. /\ IsList(t) /\ Len(t) = Len(s) + Len(r) /\ DOMAIN t = 1..(Len(s) + Len(r))
          /\ \A i \in 1..Len(s) : t[i] = s[i]
          /\ \A i \in 1..Len(r) : t[Len(s) + i] = r[i]
      BY ListConcat
    <2>2. Len(s) \in Nat /\ DOMAIN s = 1..Len(s) /\ Len(r) \in Nat /\ DOMAIN r = 1..Len(r)
      BY ListDomain
    <2> HIDE DEF t
    <2>3. QED  BY <2>1, <2>2
  <1> HIDE DEF t, n
  <1>2. ASSUME NEW j \in DOMAIN t
        PROVE  (\E i \in DOMAIN s : t[j] = s[i]) \/ \E i \in DOMAIN r : t[j] = r[i]
    <2>1. j \in 1..n \/ (j - n \in 1..Len(r) /\ n + (j - n) = j)
      BY <1>1
    <2>2. QED  BY <1>1, <2>1
  <1>3. QED  BY <1>1, <1>2 DEF t

LEMMA ConcatServes ==
    ASSUME NEW s, IsList(s), NEW r, IsList(r), NEW m, NEW want
    PROVE  /\ ServedBy(s, m, want) => ServedBy(Joined(s, r), m, want)
           /\ Silent(s, m) /\ ServedBy(r, m, want) => ServedBy(Joined(s, r), m, want)
           /\ Silent(s, m) /\ Silent(r, m) => Silent(Joined(s, r), m)
  <1> DEFINE t == Joined(s, r)
             n == Len(s)
  <1>1. /\ n \in Nat /\ Len(r) \in Nat /\ DOMAIN s = 1..n /\ DOMAIN r = 1..Len(r)
        /\ DOMAIN t = 1..(n + Len(r))
        /\ \A i \in 1..n : t[i] = s[i]
        /\ \A i \in 1..Len(r) : t[n + i] = r[i]
    <2>1. /\ IsList(t) /\ Len(t) = Len(s) + Len(r) /\ DOMAIN t = 1..(Len(s) + Len(r))
          /\ \A i \in 1..Len(s) : t[i] = s[i]
          /\ \A i \in 1..Len(r) : t[Len(s) + i] = r[i]
      BY ListConcat
    <2>2. Len(s) \in Nat /\ DOMAIN s = 1..Len(s) /\ Len(r) \in Nat /\ DOMAIN r = 1..Len(r)
      BY ListDomain
    <2> HIDE DEF t
    <2>3. QED  BY <2>1, <2>2
  <1> HIDE DEF t, n
  <1>2. \A j \in DOMAIN t : j \in DOMAIN s \/ (j > n /\ j - n \in DOMAIN r /\ n + (j - n) = j)
    BY <1>1
  <1>3. \A j \in DOMAIN t : j \in DOMAIN s => t[j] = s[j]
    BY <1>1
  <1>4. \A j \in DOMAIN t : j \notin DOMAIN s => t[j] = r[j - n] /\ j - n \in DOMAIN r
    BY <1>1, <1>2
  <1>5. ASSUME ServedBy(s, m, want) PROVE ServedBy(t, m, want)
    <2>1. PICK j \in DOMAIN s : /\ Covers(s[j], m) /\ GivesBest(s[j].p, want)
                                /\ \A i \in DOMAIN s : i < j => ~Covers(s[i], m)
      BY <1>5 DEF ServedBy
    <2>2. j \in DOMAIN t /\ t[j] = s[j]
      BY <1>1
    <2>3. \A i \in DOMAIN t : i < j => i \in DOMAIN s
      BY <1>1
    <2>4. QED  BY <1>3, <2>1, <2>2, <2>3 DEF ServedBy
  <1>6. ASSUME Silent(s, m), ServedBy(r, m, want) PROVE ServedBy(t, m, want)
    <2>1. PICK j \in DOMAIN r : /\ Covers(r[j], m) /\ GivesBest(r[j].p, want)
                                /\ \A i \in DOMAIN r : i < j => ~Covers(r[i], m)
      BY <1>6 DEF ServedBy
    <2>2. n + j \in DOMAIN t /\ t[n + j] = r[j]
      BY <1>1
    <2>3. \A i \in DOMAIN t : i < n + j /\ i \notin DOMAIN s => i - n < j
      BY <1>1
    <2>4. \A i \in DOMAIN t : i < n + j => ~Covers(t[i], m)
      BY <1>3, <1>4, <1>6, <2>1, <2>3 DEF Silent
    <2>5. QED  BY <2>1, <2>2, <2>4 DEF ServedBy
  <1>7. ASSUME Silent(s, m), Silent(r, m) PROVE Silent(t, m)
    BY <1>3, <1>4, <1>7 DEF Silent
  <1>8. QED  BY <1>5, <1>6, <1>7 DEF t
-----------------------------------------------------------------------------
(* The blocks of one machine, one OS version after the other *)

\* best has, for each version the machine may have, what is best there.
PicksOf(best) == UNION {{best[k].p, best[k].cond} : k \in DOMAIN best}

GoodFold(scale, f, a, best) ==
    /\ GoodScale(scale, f) /\ DOMAIN best = {k \in DOMAIN scale : a \in scale[k].arches}
    /\ \A k \in DOMAIN best :
          /\ best[k].p # None => best[k].p.minBuild \in Nat /\ best[k].p.minBuild <= scale[k].build
          /\ best[k].cond # None =>
                f = "windows" /\ best[k].cond.minBuild \in Nat /\ best[k].cond.minBuild > scale[k].build
    /\ \A x, y \in PicksOf(best) \ {None} : x.rel = y.rel => x.minBuild = y.minBuild
    /\ \A x, y \in PicksOf(best) : SamePick(x, y) => GivesBest(x, y)

IsAcc(acc, f, a, options) ==
    /\ acc \in [blocks : {acc.blocks}, open : BOOLEAN]
    /\ IsList(acc.blocks) /\ \A j \in DOMAIN acc.blocks : IsBlock(acc.blocks[j], f, a, options)

\* After version k: a block that may grow starts at it.
OpenAt(acc, k, scale, best) ==
    acc.open => /\ Len(acc.blocks) > 0 /\ k \in DOMAIN best
                /\ Cur(acc).min = scale[k].int /\ Cur(acc).minBuild = scale[k].build
                /\ SamePick(Cur(acc).p, best[k].p)
                /\ \E s \in DOMAIN scale : s <= k /\ Cur(acc).max = Top(scale, scale[s])

\* After version k: a computer of version i is served, or not yet.
AccServes(acc, k, best, m, i) ==
    /\ k < i => Silent(acc.blocks, m)
    /\ k >= i /\ i \in DOMAIN best => ServedBy(acc.blocks, m, ForBuild(best[i], m.build))

LEMMA StartIs ==
    ASSUME NEW acc, NEW f, NEW a, NEW options, IsAcc(acc, f, a, options), NEW b, IsBlock(b, f, a, options)
    PROVE  /\ IsAcc(Start(acc, b), f, a, options)
           /\ Start(acc, b).blocks = Added(acc.blocks, b)
           /\ Len(Start(acc, b).blocks) > 0 /\ Cur(Start(acc, b)) = b
  <1> DEFINE s == acc.blocks
             t == Added(s, b)
             new == Start(acc, b)
  <1>1. new = [blocks |-> t, open |-> TRUE] /\ new.blocks = t /\ new.open = TRUE
    BY DEF Start, Added
  <1>2. /\ IsList(t) /\ Len(t) = Len(s) + 1 /\ DOMAIN t = 1..(Len(s) + 1) /\ t[Len(s) + 1] = b
        /\ \A i \in DOMAIN s : t[i] = s[i]
        /\ Len(s) \in Nat /\ DOMAIN s = 1..Len(s)
    BY ListAppend, ListDomain DEF IsAcc, Added
  <1> HIDE DEF t, new
  <1>3. \A j \in DOMAIN t : IsBlock(t[j], f, a, options)
    <2>1. \A j \in DOMAIN t : j = Len(s) + 1 \/ j \in DOMAIN s
      BY <1>2
    <2>2. \A j \in DOMAIN s : IsBlock(s[j], f, a, options)
      BY DEF IsAcc
    <2> HIDE DEF s
    <2>3. QED  BY <1>2, <2>1, <2>2
  <1>4. IsAcc(new, f, a, options)
    <2> HIDE DEF s
    <2>1. QED  BY <1>1, <1>2, <1>3 DEF IsAcc
  <1>5. Cur(new) = b /\ Len(new.blocks) > 0
    BY <1>1, <1>2 DEF Cur
  <1>6. QED  BY <1>1, <1>4, <1>5 DEF new, t

LEMMA FlushIs ==
    ASSUME NEW acc, NEW f, NEW a, NEW options, IsAcc(acc, f, a, options)
    PROVE  IsAcc(Flush(acc), f, a, options) /\ ~Flush(acc).open /\ Flush(acc).blocks = acc.blocks
  <1> DEFINE s == acc.blocks
  <1>1. Flush(acc) = [blocks |-> s, open |-> FALSE]
    BY DEF Flush
  <1>2. IsList(s) /\ \A j \in DOMAIN s : IsBlock(s[j], f, a, options)
    BY DEF IsAcc
  <1> HIDE DEF s
  <1>3. QED  BY <1>1, <1>2 DEF IsAcc, s

LEMMA GrownIs ==
    ASSUME NEW acc, NEW f, NEW a, NEW options, IsAcc(acc, f, a, options), Len(acc.blocks) > 0,
           NEW min \in Int, NEW build \in Int
    PROVE  \E b : /\ IsBlock(b, f, a, options) /\ b.min = min /\ b.minBuild = build
                  /\ b.max = Cur(acc).max /\ b.p = Cur(acc).p /\ b.gone = Cur(acc).gone
                  /\ Grown(acc, min, build).blocks = WithLast(acc.blocks, b)
                  /\ Grown(acc, min, build).open = acc.open /\ Cur(Grown(acc, min, build)) = b
                  /\ IsAcc(Grown(acc, min, build), f, a, options)
  <1> DEFINE s == acc.blocks
             n == Len(s)
             x == s[n]
             b == [x EXCEPT !.min = min, !.minBuild = build]
             t == WithLast(s, b)
             new == Grown(acc, min, build)
  <1>1. n \in Nat /\ n \in DOMAIN s /\ DOMAIN s = 1..n /\ IsList(s)
    BY ListDomain DEF IsAcc
  <1>2. IsBlock(x, f, a, options)
    <2> HIDE DEF n, s
    <2>1. QED  BY <1>1 DEF IsAcc, s
  <1>3. IsBlock(b, f, a, options) /\ b.min = min /\ b.minBuild = build /\ b.max = x.max /\ b.p = x.p /\ b.gone = x.gone
    <2> HIDE DEF x
    <2>1. x \in [family : {f}, min : Int, max : Int, minBuild : Int, machine : {a}, p : options, gone : {x.gone}]
      BY <1>2 DEF IsBlock
    <2>2. b \in [family : {f}, min : Int, max : Int, minBuild : Int, machine : {a}, p : options, gone : {x.gone}]
      BY <2>1
    <2>3. b.min = min /\ b.minBuild = build /\ b.max = x.max /\ b.p = x.p /\ b.gone = x.gone
      BY <2>1
    <2>4. QED  BY <2>2, <2>3 DEF IsBlock
  <1>5. new = [blocks |-> t, open |-> acc.open]
    BY DEF Grown, Cur, WithLast
  <1> HIDE DEF b, new
  <1>6. /\ IsList(t) /\ Len(t) = n /\ DOMAIN t = DOMAIN s /\ t[n] = b
        /\ \A i \in DOMAIN s : i # n => t[i] = s[i]
    <2>1. n > 0
      OBVIOUS
    <2> HIDE DEF s
    <2>2. QED  BY <1>1, <2>1, ListGrows DEF WithLast
  <1>7. \A j \in DOMAIN t : IsBlock(t[j], f, a, options)
    <2>1. \A j \in DOMAIN s : IsBlock(s[j], f, a, options)
      BY DEF IsAcc
    <2> HIDE DEF s, t
    <2>2. QED  BY <1>3, <1>6, <2>1
  <1>8. new.blocks = t /\ new.open = acc.open /\ Cur(new) = b /\ IsAcc(new, f, a, options)
    <2>1. acc.open \in BOOLEAN
      BY DEF IsAcc
    <2> HIDE DEF s, t
    <2>2. QED  BY <1>5, <1>6, <1>7, <2>1 DEF IsAcc, Cur
  <1>9. x = Cur(acc)
    BY DEF Cur
  <1>10. QED
    <2> HIDE DEF x
    <2>1. /\ IsBlock(b, f, a, options) /\ b.min = min /\ b.minBuild = build
          /\ b.max = Cur(acc).max /\ b.p = Cur(acc).p /\ b.gone = Cur(acc).gone
          /\ new.blocks = WithLast(acc.blocks, b)
          /\ new.open = acc.open /\ Cur(new) = b /\ IsAcc(new, f, a, options)
      BY <1>3, <1>8, <1>9
    <2>2. QED  BY <2>1 DEF new

\* A block from version k on covers no computer that is before it, and of
\* those that have it the ones with its build.
LEMMA BlockCovers ==
    ASSUME NEW scale, NEW f, GoodScale(scale, f), NEW a, NEW options, NEW b, IsBlock(b, f, a, options),
           NEW m, m.family = f, m.arch = a, GoodComputer(m, scale), NEW i, At(scale, m, i),
           NEW k \in DOMAIN scale, b.min = scale[k].int, b.minBuild >= scale[k].build
    PROVE  /\ k < i => ~Covers(b, m)
           /\ k = i => /\ scale[k].build <= m.build
                       /\ f = "windows" /\ b.minBuild > m.build => ~Covers(b, m)
                       /\ (\E s \in DOMAIN scale : s <= k /\ b.max = Top(scale, scale[s]))
                          /\ (f = "windows" => b.minBuild <= m.build) => Covers(b, m)
  <1>1. /\ b.family = f /\ b.machine = a /\ b.min \in Int /\ b.max \in Int /\ b.minBuild \in Int
        /\ m.int \in Nat /\ m.build \in Nat
        /\ scale[k].int \in Nat /\ scale[k].build \in Nat
    <2>1. b.family = f /\ b.machine = a
      BY DEF IsBlock
    <2>2. b.min \in Int /\ b.max \in Int /\ b.minBuild \in Int
      BY DEF IsBlock
    <2>3. m.int \in Nat /\ m.build \in Nat
      BY Numbers DEF GoodComputer
    <2>4. QED  BY <2>1, <2>2, <2>3, ScaleIs
  <1>2. ASSUME k < i PROVE ~Covers(b, m)
    <2>1. OlderThan(m, scale[k])
      BY <1>2 DEF At
    <2>2. m.int = scale[k].int => f = "windows" /\ m.build < scale[k].build
      <3> SUFFICES ASSUME m.int = scale[k].int PROVE f = "windows" /\ m.build < scale[k].build
        OBVIOUS
      <3>1. m.build < scale[k].build
        BY <1>1, <2>1 DEF OlderThan
      <3>2. scale[k].build > 0
        BY <1>1, <3>1
      <3>3. QED  BY <3>1, <3>2, ScaleIs
    <2>3. m.int <= scale[k].int
      BY <1>1, <2>1 DEF OlderThan
    <2>4. QED  BY <1>1, <2>2, <2>3 DEF Covers
  <1>3. ASSUME k = i PROVE scale[k].build <= m.build /\ scale[k].int <= m.int
    <2>1. ~OlderThan(m, scale[k])
      BY <1>3 DEF At
    <2>2. scale[k].int <= m.int
      BY <1>1, <2>1 DEF OlderThan
    <2>3. scale[k].build > 0 => m.int <= scale[k].int
      BY DEF GoodComputer
    <2>4. QED  BY <1>1, <2>1, <2>2, <2>3 DEF OlderThan
  <1>4. f = "windows" /\ b.minBuild > m.build => ~Covers(b, m)
    BY <1>1 DEF Covers
  <1>5. ASSUME k = i, NEW s \in DOMAIN scale, s <= k, b.max = Top(scale, scale[s]),
               f = "windows" => b.minBuild <= m.build
        PROVE  Covers(b, m)
    <2>1. m.int <= b.max
      BY <1>5, TopIs
    <2>2. QED  BY <1>1, <1>3, <1>5, <2>1 DEF Covers
  <1>6. QED  BY <1>2, <1>3, <1>4, <1>5

LEMMA BlockIs ==
    ASSUME NEW scale, NEW f, GoodScale(scale, f), NEW k \in DOMAIN scale, NEW a, NEW build \in Int,
           NEW options, NEW p \in options, NEW gone
    PROVE  LET b == Block(f, a, scale[k], scale, build, p, gone) IN
           /\ IsBlock(b, f, a, options) /\ b.min = scale[k].int /\ b.minBuild = build
           /\ b.max = Top(scale, scale[k]) /\ b.p = p /\ b.gone = gone
  <1> DEFINE b == Block(f, a, scale[k], scale, build, p, gone)
             top == Top(scale, scale[k])
             min == scale[k].int
  <1>1. b = [family |-> f, min |-> min, max |-> top, minBuild |-> build, machine |-> a, p |-> p, gone |-> gone]
    BY DEF Block
  <1>2. top \in Int /\ min \in Int
    BY TopIs, ScaleIs
  <1> HIDE DEF b, top, min
  <1>3. IsBlock(b, f, a, options) /\ b.min = min /\ b.minBuild = build /\ b.max = top /\ b.p = p /\ b.gone = gone
    BY <1>1, <1>2 DEF IsBlock
  <1>4. QED  BY <1>3 DEF b, top, min

\* A block for newer builds only stands alone: where it would join the one
\* before, that one already asks for its build.
LEMMA CondStep ==
    ASSUME NEW scale, NEW f, NEW a, NEW best, GoodFold(scale, f, a, best), NEW k \in DOMAIN best,
           NEW acc, IsAcc(acc, f, a, PicksOf(best)), OpenAt(acc, k - 1, scale, best),
           NEW cond, cond = best[k].cond, cond # None
    PROVE  LET new == AddConditional(acc, f, a, scale[k], scale, cond) IN
           /\ IsAcc(new, f, a, PicksOf(best)) /\ ~new.open
           /\ \/ new.blocks = acc.blocks /\ k = 2 /\ scale[1].build = cond.minBuild
              \/ new.blocks = Added(acc.blocks, Block(f, a, scale[k], scale, cond.minBuild, cond, None))
  <1> DEFINE new == AddConditional(acc, f, a, scale[k], scale, cond)
             all == PicksOf(best)
  <1>1. /\ k \in DOMAIN scale /\ k \in Nat /\ GoodScale(scale, f)
        /\ cond \in all /\ cond.minBuild \in Nat /\ cond.minBuild > scale[k].build
    <2>1. k \in DOMAIN scale /\ GoodScale(scale, f)
      BY DEF GoodFold
    <2>2. cond \in {best[k].p, best[k].cond}
      OBVIOUS
    <2>3. cond \in all
      BY <2>2 DEF PicksOf
    <2>4. QED  BY <2>1, <2>3, ScaleIs DEF GoodFold
  <1> HIDE DEF all
  <1>2. CASE Joins(acc, cond) /\ Cur(acc).minBuild <= cond.minBuild
    <2> DEFINE x == Cur(acc)
               n == Len(acc.blocks)
               grown == Grown(acc, scale[k].int, cond.minBuild)
    <2>1. new = Flush(grown)
      BY <1>2 DEF AddConditional
    <2>2. acc.open /\ SamePick(x.p, cond)
      BY <1>2 DEF Joins
    <2>3. /\ n > 0 /\ k - 1 \in DOMAIN best /\ x.min = scale[k - 1].int /\ x.minBuild = scale[k - 1].build
          /\ SamePick(x.p, best[k - 1].p)
      BY <2>2 DEF OpenAt
    <2>4. x.p # None /\ x.p.rel = cond.rel
      BY <2>2 DEF SamePick
    <2>5. best[k - 1].p # None /\ best[k - 1].p.rel = cond.rel
      BY <2>3, <2>4 DEF SamePick
    <2>6. best[k - 1].p.minBuild = cond.minBuild
      <3>1. best[k - 1].p \in PicksOf(best)
        <4>1. best[k - 1].p \in {best[k - 1].p, best[k - 1].cond}
          OBVIOUS
        <4>2. QED  BY <2>3, <4>1 DEF PicksOf
      <3>2. QED  BY <1>1, <2>5, <3>1 DEF GoodFold, all
    <2>7. /\ k - 1 \in DOMAIN scale /\ cond.minBuild <= scale[k - 1].build
      BY <2>3, <2>5, <2>6 DEF GoodFold
    <2>8. k = 2 /\ scale[k - 1].build = cond.minBuild /\ scale[k].int = scale[k - 1].int
      <3>1. scale[k - 1].build > 0
        BY <1>1, <2>7, ScaleIs
      <3>2. k - 1 = 1 /\ scale[2].int = scale[1].int
        BY <1>1, <2>7, <3>1, ScaleIs
      <3>3. k = 2
        BY <1>1, <3>2
      <3>4. scale[k - 1].build <= cond.minBuild
        BY <1>2, <2>3
      <3>5. scale[k - 1].build = cond.minBuild
        BY <1>1, <2>7, <3>4, ScaleIs
      <3>6. QED  BY <3>2, <3>3, <3>5
    <2> HIDE DEF new, grown
    <2>9. PICK b : /\ IsBlock(b, f, a, all) /\ b.min = scale[k].int /\ b.minBuild = cond.minBuild
                   /\ b.max = x.max /\ b.p = x.p /\ b.gone = x.gone
                   /\ grown.blocks = WithLast(acc.blocks, b) /\ IsAcc(grown, f, a, all)
      <3>1. scale[k].int \in Int /\ cond.minBuild \in Int
        BY <1>1, ScaleIs
      <3>2. IsAcc(acc, f, a, all) /\ Len(acc.blocks) > 0
        BY <2>3 DEF all
      <3> DEFINE min == scale[k].int
                 build == cond.minBuild
      <3> HIDE DEF min, build
      <3>3. PICK b : /\ IsBlock(b, f, a, all) /\ b.min = min /\ b.minBuild = build
                     /\ b.max = Cur(acc).max /\ b.p = Cur(acc).p /\ b.gone = Cur(acc).gone
                     /\ Grown(acc, min, build).blocks = WithLast(acc.blocks, b)
                     /\ IsAcc(Grown(acc, min, build), f, a, all)
        <4>1. min \in Int /\ build \in Int
          BY <3>1 DEF min, build
        <4>2. QED  BY <3>2, <4>1, GrownIs
      <3>4. QED  BY <3>3 DEF grown, min, build
    <2>10. n \in DOMAIN acc.blocks /\ x = acc.blocks[n] /\ IsBlock(x, f, a, all)
           /\ acc.blocks = [i \in DOMAIN acc.blocks |-> acc.blocks[i]]
      <3>1. IsList(acc.blocks) /\ Len(acc.blocks) \in Nat /\ DOMAIN acc.blocks = 1..Len(acc.blocks)
        BY ListDomain DEF IsAcc
      <3>2. n \in DOMAIN acc.blocks
        BY <2>3, <3>1
      <3>3. acc.blocks = [i \in DOMAIN acc.blocks |-> acc.blocks[i]]
        BY <3>1 DEF IsList
      <3>4. QED  BY <3>2, <3>3 DEF IsAcc, Cur, all
    <2>11. b = x
      <3> HIDE DEF x
      <3>1. b.min = x.min /\ b.minBuild = x.minBuild
        BY <2>3, <2>8, <2>9
      <3>2. QED  BY <2>9, <2>10, <3>1 DEF IsBlock
    <2>12. grown.blocks = acc.blocks
      <3> DEFINE s == acc.blocks
      <3>1. grown.blocks = [s EXCEPT ![n] = s[n]] /\ s = [i \in DOMAIN s |-> s[i]]
        BY <2>9, <2>10, <2>11 DEF WithLast
      <3> HIDE DEF s, n
      <3>2. QED  BY <3>1 DEF s
    <2>13. IsAcc(new, f, a, all) /\ ~new.open /\ new.blocks = acc.blocks
      BY <2>1, <2>9, <2>12, FlushIs
    <2>14. QED  BY <2>8, <2>13 DEF new, all
  <1>3. CASE ~(Joins(acc, cond) /\ Cur(acc).minBuild <= cond.minBuild)
    <2> DEFINE b == Block(f, a, scale[k], scale, cond.minBuild, cond, None)
    <2>1. new = Flush(Start(acc, b))
      BY <1>3 DEF AddConditional
    <2>2. IsBlock(b, f, a, all)
      BY <1>1, BlockIs
    <2> HIDE DEF b, new
    <2>3. IsAcc(Start(acc, b), f, a, all) /\ Start(acc, b).blocks = Added(acc.blocks, b)
      <3>1. IsAcc(acc, f, a, all)
        BY DEF all
      <3>2. QED  BY <2>2, <3>1, StartIs
    <2>4. IsAcc(new, f, a, all) /\ ~new.open /\ new.blocks = Added(acc.blocks, b)
      BY <2>1, <2>3, FlushIs
    <2>5. QED  BY <2>4 DEF b, new, all
  <1>4. QED  BY <1>2, <1>3

\* What the OS version gets starts a block, or the one that is open grows down to it.
LEMMA PickStep ==
    ASSUME NEW scale, NEW f, NEW a, NEW best, GoodFold(scale, f, a, best), NEW k \in DOMAIN best,
           NEW acc, IsAcc(acc, f, a, PicksOf(best)), OpenAt(acc, k - 1, scale, best), NEW gone
    PROVE  LET new == AddPick(acc, f, a, scale[k], scale, best[k].p, gone) IN
           /\ IsAcc(new, f, a, PicksOf(best)) /\ OpenAt(new, k, scale, best)
           /\ \/ new.blocks = Added(acc.blocks, Block(f, a, scale[k], scale, scale[k].build, best[k].p, gone))
              \/ \E b : /\ IsBlock(b, f, a, PicksOf(best)) /\ b.min = scale[k].int /\ b.minBuild = scale[k].build
                        /\ acc.open /\ b.max = Cur(acc).max /\ b.p = Cur(acc).p /\ SamePick(b.p, best[k].p)
                        /\ new.blocks = WithLast(acc.blocks, b)
  <1> DEFINE p == best[k].p
             all == PicksOf(best)
             o == scale[k]
             new == AddPick(acc, f, a, o, scale, p, gone)
  <1>1. /\ k \in DOMAIN scale /\ k \in Nat /\ k >= 1 /\ GoodScale(scale, f) /\ p \in all
        /\ o.int \in Nat /\ o.build \in Nat
    <2>1. k \in DOMAIN scale /\ GoodScale(scale, f)
      BY DEF GoodFold
    <2>2. p \in {best[k].p, best[k].cond}
      OBVIOUS
    <2>3. p \in all
      BY <2>2 DEF PicksOf
    <2>4. QED  BY <2>1, <2>3, ScaleIs
  <1>2. (IF o.id = "11" THEN o.build ELSE 0) = o.build
    <2>1. o.build > 0 => o.id = "11"
      BY <1>1 DEF GoodScale
    <2>2. QED  BY <1>1, <2>1
  <1> HIDE DEF all, o, p
  <1>3. CASE Joins(acc, p) /\ Cur(acc).gone = gone
    <2> DEFINE x == Cur(acc)
               n == Len(acc.blocks)
               build == IF o.id = "10" /\ x.minBuild >= Windows11Build THEN 0 ELSE x.minBuild
    <2>1. new = Grown(acc, o.int, build)
      BY <1>3 DEF AddPick, Extend
    <2>2. acc.open /\ SamePick(x.p, p)
      BY <1>3 DEF Joins
    <2>3. /\ n > 0 /\ k - 1 \in DOMAIN best /\ x.minBuild = scale[k - 1].build
          /\ \E s \in DOMAIN scale : s <= k - 1 /\ x.max = Top(scale, scale[s])
      BY <2>2 DEF OpenAt
    <2> HIDE DEF x, new
    <2>4. build = o.build
      <3>1. k - 1 \in DOMAIN scale /\ k - 1 \in Nat /\ k - 1 >= 1
        BY <1>1, <2>3, ScaleIs DEF GoodFold
      <3>2. o.build = 0
        <4>1. k # 1
          BY <1>1, <3>1
        <4>2. ~(o.build > 0)
          BY <1>1, <4>1, ScaleIs DEF o
        <4>3. QED  BY <1>1, <4>2
      <3>3. Windows11Build \in Nat /\ Windows11Build > 0
        BY Numbers
      <3>4. CASE scale[k - 1].build > 0
        <4>1. k - 1 = 1 /\ scale[2].id = "10" /\ scale[1].build >= Windows11Build
          BY <1>1, <3>1, <3>4 DEF GoodScale
        <4>2. k = 2
          BY <1>1, <4>1
        <4>3. QED  BY <2>3, <3>2, <4>1, <4>2 DEF o
      <3>5. CASE ~(scale[k - 1].build > 0)
        <4>1. scale[k - 1].build = 0
          BY <1>1, <3>1, <3>5, ScaleIs
        <4>2. QED  BY <2>3, <3>2, <3>3, <4>1
      <3>6. QED  BY <3>4, <3>5
    <2> HIDE DEF build
    <2>5. PICK b : /\ IsBlock(b, f, a, all) /\ b.min = o.int /\ b.minBuild = o.build
                   /\ b.max = x.max /\ b.p = x.p
                   /\ new.blocks = WithLast(acc.blocks, b) /\ IsAcc(new, f, a, all) /\ Cur(new) = b
                   /\ new.open = acc.open
      <3>1. o.int \in Int /\ build \in Int
        BY <1>1, <2>4
      <3>2. IsAcc(acc, f, a, all) /\ Len(acc.blocks) > 0
        BY <2>3 DEF all
      <3> DEFINE min == o.int
      <3> HIDE DEF min
      <3>3. PICK b : /\ IsBlock(b, f, a, all) /\ b.min = min /\ b.minBuild = build
                     /\ b.max = Cur(acc).max /\ b.p = Cur(acc).p
                     /\ Grown(acc, min, build).blocks = WithLast(acc.blocks, b)
                     /\ Grown(acc, min, build).open = acc.open /\ Cur(Grown(acc, min, build)) = b
                     /\ IsAcc(Grown(acc, min, build), f, a, all)
        <4>1. min \in Int /\ build \in Int
          BY <3>1 DEF min
        <4>2. QED  BY <3>2, <4>1, GrownIs
      <3>4. QED  BY <2>1, <2>4, <3>3 DEF x, min
    <2>6. OpenAt(new, k, scale, best)
      <3>1. \E s \in DOMAIN scale : s <= k /\ x.max = Top(scale, scale[s])
        <4>1. PICK s \in DOMAIN scale : s <= k - 1 /\ x.max = Top(scale, scale[s])
          BY <2>3
        <4>2. s \in Nat
          BY <1>1, ScaleIs
        <4>3. s <= k
          BY <1>1, <4>1, <4>2
        <4>4. QED  BY <4>1, <4>3
      <3>2. Len(new.blocks) > 0
        <4>1. IsList(acc.blocks)
          BY DEF IsAcc
        <4>2. Len(new.blocks) = n
          BY <2>3, <2>5, <4>1, ListGrows DEF WithLast
        <4>3. QED  BY <2>3, <4>2
      <3>3. Cur(new).min = scale[k].int /\ Cur(new).minBuild = scale[k].build /\ SamePick(Cur(new).p, best[k].p)
        BY <2>2, <2>5 DEF o, p
      <3>4. Cur(new).max = x.max
        BY <2>5
      <3>5. QED  BY <3>1, <3>2, <3>3, <3>4 DEF OpenAt
    <2>7. SamePick(b.p, p)
      BY <2>2, <2>5
    <2>8. QED  BY <2>2, <2>5, <2>6, <2>7 DEF new, all, o, p, x
  <1>4. CASE ~(Joins(acc, p) /\ Cur(acc).gone = gone)
    <2> DEFINE b == Block(f, a, o, scale, o.build, p, gone)
    <2>1. new = Start(acc, b)
      BY <1>2, <1>4 DEF AddPick
    <2>2. /\ IsBlock(b, f, a, all) /\ b.min = scale[k].int /\ b.minBuild = scale[k].build
          /\ b.max = Top(scale, scale[k]) /\ b.p = p
      <3> DEFINE build == scale[k].build
      <3>1. o = scale[k] /\ build \in Int /\ b = Block(f, a, scale[k], scale, build, p, gone)
        BY <1>1 DEF o
      <3> HIDE DEF b, build
      <3>2. LET x == Block(f, a, scale[k], scale, build, p, gone) IN
            /\ IsBlock(x, f, a, all) /\ x.min = scale[k].int /\ x.minBuild = build
            /\ x.max = Top(scale, scale[k]) /\ x.p = p
        BY <1>1, <3>1, BlockIs
      <3>3. QED  BY <3>1, <3>2 DEF build
    <2> HIDE DEF b, new
    <2>3. /\ IsAcc(new, f, a, all) /\ new.blocks = Added(acc.blocks, b)
          /\ Len(new.blocks) > 0 /\ Cur(new) = b
      <3>1. IsAcc(acc, f, a, all)
        BY DEF all
      <3>2. QED  BY <2>1, <2>2, <3>1, StartIs
    <2>4. OpenAt(new, k, scale, best)
      <3>1. SamePick(p, p)
        BY DEF SamePick
      <3>2. \E s \in DOMAIN scale : s <= k /\ b.max = Top(scale, scale[s])
        <4>1. k <= k
          BY <1>1
        <4>2. QED  BY <1>1, <2>2, <4>1
      <3>3. QED  BY <2>2, <2>3, <3>1, <3>2 DEF OpenAt, p
    <2>5. QED  BY <2>3, <2>4 DEF b, new, all, o, p
  <1>5. QED  BY <1>3, <1>4 DEF o, p

LEMMA GivesItself == ASSUME NEW x PROVE GivesBest(x, x)
  BY DEF GivesBest

\* A block for newer builds only serves these, where no block did.
LEMMA CondServes ==
    ASSUME NEW scale, NEW f, NEW a, NEW best, GoodFold(scale, f, a, best), NEW k \in DOMAIN best,
           NEW acc, IsAcc(acc, f, a, PicksOf(best)), OpenAt(acc, k - 1, scale, best),
           NEW cond, cond = best[k].cond, cond # None,
           NEW m, m.family = f, m.arch = a, GoodComputer(m, scale), NEW i, At(scale, m, i),
           AccServes(acc, k - 1, best, m, i)
    PROVE  LET new == AddConditional(acc, f, a, scale[k], scale, cond) IN
           /\ k < i => Silent(new.blocks, m)
           /\ k > i /\ i \in DOMAIN best => ServedBy(new.blocks, m, ForBuild(best[i], m.build))
           /\ k = i => IF m.build >= cond.minBuild THEN ServedBy(new.blocks, m, cond) ELSE Silent(new.blocks, m)
  <1> DEFINE new == AddConditional(acc, f, a, scale[k], scale, cond)
             b == Block(f, a, scale[k], scale, cond.minBuild, cond, None)
             s == acc.blocks
  <1>1. /\ k \in DOMAIN scale /\ i \in DOMAIN scale /\ GoodScale(scale, f) /\ k \in Nat /\ i \in Nat
        /\ scale[k].build \in Nat /\ cond.minBuild \in Nat /\ cond.minBuild > scale[k].build
        /\ m.build \in Nat /\ f = "windows"
    BY ScaleIs DEF GoodFold, At, GoodComputer
  <1>2. /\ IsBlock(b, f, a, PicksOf(best)) /\ b.min = scale[k].int /\ b.minBuild = cond.minBuild
        /\ b.max = Top(scale, scale[k]) /\ b.p = cond
    <2>1. cond \in PicksOf(best)
      <3>1. cond \in {best[k].p, best[k].cond}
        OBVIOUS
      <3>2. QED  BY <3>1 DEF PicksOf
    <2> DEFINE build == cond.minBuild
    <2>2. build \in Int
      BY <1>1
    <2> HIDE DEF build
    <2>3. LET x == Block(f, a, scale[k], scale, build, cond, None) IN
          /\ IsBlock(x, f, a, PicksOf(best)) /\ x.min = scale[k].int /\ x.minBuild = build
          /\ x.max = Top(scale, scale[k]) /\ x.p = cond
      BY <1>1, <2>1, <2>2, BlockIs, SMTT(20)
    <2>4. QED  BY <2>3 DEF build
  <1> HIDE DEF b
  <1>3. b.minBuild >= scale[k].build /\ \E t \in DOMAIN scale : t <= k /\ b.max = Top(scale, scale[t])
    <2>1. k <= k
      BY <1>1
    <2>2. QED  BY <1>1, <1>2, <2>1
  <1>4. /\ k < i => ~Covers(b, m)
        /\ k = i => /\ m.build >= cond.minBuild => Covers(b, m)
                    /\ ~(m.build >= cond.minBuild) => ~Covers(b, m)
    <2>1. /\ k < i => ~Covers(b, m)
          /\ k = i => /\ f = "windows" /\ b.minBuild > m.build => ~Covers(b, m)
                      /\ (\E t \in DOMAIN scale : t <= k /\ b.max = Top(scale, scale[t]))
                         /\ (f = "windows" => b.minBuild <= m.build) => Covers(b, m)
      BY <1>1, <1>2, <1>3, BlockCovers
    <2>2. m.build >= cond.minBuild <=> b.minBuild <= m.build
      BY <1>1, <1>2
    <2>3. ~(m.build >= cond.minBuild) <=> b.minBuild > m.build
      BY <1>1, <1>2
    <2>4. QED  BY <1>1, <1>3, <2>1, <2>2, <2>3
  <1>5. /\ k <= i => Silent(s, m)
        /\ k > i /\ i \in DOMAIN best => ServedBy(s, m, ForBuild(best[i], m.build))
    <2>1. (k <= i => k - 1 < i) /\ (k > i => k - 1 >= i)
      BY <1>1
    <2>2. QED  BY <2>1 DEF AccServes
  <1>6. IsList(s) /\ (k < i => k <= i) /\ (k = i => k <= i)
    BY <1>1 DEF IsAcc
  <1>7. \/ new.blocks = s /\ k = 2 /\ scale[1].build = cond.minBuild
        \/ new.blocks = Added(s, b)
    BY CondStep DEF b
  <1> HIDE DEF new, s
  <1>8. CASE new.blocks = Added(s, b)
    <2>1. k < i => Silent(new.blocks, m)
      BY <1>4, <1>5, <1>6, <1>8, AppendServes
    <2>2. k > i /\ i \in DOMAIN best => ServedBy(new.blocks, m, ForBuild(best[i], m.build))
      <3> DEFINE want == ForBuild(best[i], m.build)
      <3> HIDE DEF want
      <3>1. k > i /\ i \in DOMAIN best => ServedBy(s, m, want)
        BY <1>5 DEF want
      <3>2. k > i /\ i \in DOMAIN best => ServedBy(new.blocks, m, want)
        BY <1>6, <1>8, <3>1, AppendServes
      <3>3. QED  BY <3>2 DEF want
    <2>3. ASSUME k = i, m.build >= cond.minBuild PROVE ServedBy(new.blocks, m, cond)
      <3>1. Silent(s, m) /\ Covers(b, m) /\ GivesBest(b.p, cond)
        BY <1>2, <1>4, <1>5, <1>6, <2>3, GivesItself
      <3>2. QED  BY <1>6, <1>8, <3>1, AppendServes
    <2>4. ASSUME k = i, ~(m.build >= cond.minBuild) PROVE Silent(new.blocks, m)
      <3>1. Silent(s, m) /\ ~Covers(b, m)
        BY <1>4, <1>5, <1>6, <2>4
      <3>2. QED  BY <1>6, <1>8, <3>1, AppendServes
    <2>5. QED  BY <2>1, <2>2, <2>3, <2>4 DEF new
  <1>9. CASE new.blocks = s /\ k = 2 /\ scale[1].build = cond.minBuild
    <2>1. ASSUME k = i PROVE ~(m.build >= cond.minBuild)
      <3>1. 1 \in DOMAIN scale /\ scale[1].build \in Nat
        BY <1>1, <1>9, ScaleIs
      <3>2. OlderThan(m, scale[1])
        BY <1>9, <2>1, <3>1 DEF At
      <3>3. scale[1].build > 0
        BY <1>1, <1>9, <3>1
      <3>4. scale[1].int = scale[2].int
        BY <1>1, <3>1, <3>3, ScaleIs
      <3>5. ~OlderThan(m, scale[2])
        BY <1>9, <2>1 DEF At
      <3>6. m.int \in Nat /\ scale[1].int \in Nat
        BY <1>1, <3>1, ScaleIs, Numbers DEF GoodComputer
      <3>7. ~(m.int < scale[1].int)
        BY <3>4, <3>5, <3>6 DEF OlderThan
      <3>8. m.build < scale[1].build
        BY <3>2, <3>7 DEF OlderThan
      <3>9. QED  BY <1>1, <1>9, <3>1, <3>8
    <2>2. QED  BY <1>5, <1>6, <1>9, <2>1 DEF new
  <1>10. QED  BY <1>7, <1>8, <1>9

\* What the OS version gets serves its computers, and those served before are
\* served the same still.
LEMMA PickServes ==
    ASSUME NEW scale, NEW f, NEW a, NEW best, GoodFold(scale, f, a, best), NEW k \in DOMAIN best,
           NEW acc, IsAcc(acc, f, a, PicksOf(best)), OpenAt(acc, k - 1, scale, best), NEW gone,
           NEW m, m.family = f, m.arch = a, GoodComputer(m, scale), NEW i, At(scale, m, i),
           k < i => Silent(acc.blocks, m),
           k > i /\ i \in DOMAIN best => ServedBy(acc.blocks, m, ForBuild(best[i], m.build)),
           k = i => \/ ServedBy(acc.blocks, m, ForBuild(best[k], m.build))
                    \/ Silent(acc.blocks, m) /\ ForBuild(best[k], m.build) = best[k].p
    PROVE  AccServes(AddPick(acc, f, a, scale[k], scale, best[k].p, gone), k, best, m, i)
  <1> DEFINE p == best[k].p
             all == PicksOf(best)
             new == AddPick(acc, f, a, scale[k], scale, p, gone)
             s == acc.blocks
             b0 == Block(f, a, scale[k], scale, scale[k].build, p, gone)
             want == ForBuild(best[i], m.build)
  <1>1. /\ k \in DOMAIN scale /\ i \in DOMAIN scale /\ GoodScale(scale, f) /\ k \in Nat /\ i \in Nat
        /\ scale[k].int \in Nat /\ scale[k].build \in Nat /\ m.build \in Nat
    BY ScaleIs DEF GoodFold, At, GoodComputer
  <1>2. p \in all
    <2>1. p \in {best[k].p, best[k].cond}
      OBVIOUS
    <2>2. QED  BY <2>1 DEF PicksOf
  <1>3. IsList(s) /\ (k = i => want = ForBuild(best[k], m.build))
    BY DEF IsAcc
  <1>4. \/ new.blocks = Added(s, b0)
        \/ \E b : /\ IsBlock(b, f, a, all) /\ b.min = scale[k].int /\ b.minBuild = scale[k].build
                  /\ acc.open /\ b.max = Cur(acc).max /\ b.p = Cur(acc).p /\ SamePick(b.p, p)
                  /\ new.blocks = WithLast(s, b)
    BY PickStep
  <1>5. k < i => Silent(s, m)
    OBVIOUS
  <1>6. k > i /\ i \in DOMAIN best => ServedBy(s, m, want)
    OBVIOUS
  <1>7. k = i => ServedBy(s, m, want) \/ (Silent(s, m) /\ want = p)
    BY <1>3
  <1> HIDE DEF new, s, all, want
  <1>8. ASSUME NEW b, IsBlock(b, f, a, all), b.min = scale[k].int, b.minBuild = scale[k].build,
               \E t \in DOMAIN scale : t <= k /\ b.max = Top(scale, scale[t])
        PROVE  (k < i => ~Covers(b, m)) /\ (k = i => Covers(b, m))
    <2>1. b.minBuild >= scale[k].build
      BY <1>1, <1>8
    <2>2. /\ k < i => ~Covers(b, m)
          /\ k = i => /\ scale[k].build <= m.build
                      /\ (\E t \in DOMAIN scale : t <= k /\ b.max = Top(scale, scale[t]))
                         /\ (f = "windows" => b.minBuild <= m.build) => Covers(b, m)
      BY <1>1, <1>8, <2>1, BlockCovers
    <2>3. QED  BY <1>8, <2>2
  <1>9. CASE new.blocks = Added(s, b0)
    <2>1. /\ IsBlock(b0, f, a, all) /\ b0.min = scale[k].int /\ b0.minBuild = scale[k].build
          /\ b0.max = Top(scale, scale[k]) /\ b0.p = p
      <3> DEFINE build == scale[k].build
      <3>1. build \in Int
        BY <1>1
      <3> HIDE DEF build, p
      <3>2. LET x == Block(f, a, scale[k], scale, build, p, gone) IN
            /\ IsBlock(x, f, a, all) /\ x.min = scale[k].int /\ x.minBuild = build
            /\ x.max = Top(scale, scale[k]) /\ x.p = p
        BY <1>1, <1>2, <3>1, BlockIs
      <3>3. QED  BY <3>2 DEF build
    <2> HIDE DEF b0
    <2>2. (k < i => ~Covers(b0, m)) /\ (k = i => Covers(b0, m))
      <3>1. k <= k
        BY <1>1
      <3>2. QED  BY <1>1, <1>8, <2>1, <3>1
    <2>3. k < i => Silent(new.blocks, m)
      BY <1>3, <1>5, <1>9, <2>2, AppendServes
    <2>4. k > i /\ i \in DOMAIN best => ServedBy(new.blocks, m, want)
      BY <1>3, <1>6, <1>9, AppendServes
    <2>5. ASSUME k = i PROVE ServedBy(new.blocks, m, want)
      <3>1. Silent(s, m) /\ want = p => GivesBest(b0.p, want)
        BY <2>1, GivesItself
      <3>2. QED  BY <1>3, <1>7, <1>9, <2>2, <2>5, <3>1, AppendServes
    <2>6. k >= i => k > i \/ k = i
      BY <1>1
    <2>7. QED  BY <2>3, <2>4, <2>5, <2>6 DEF AccServes, new, want
  <1>10. ASSUME NEW b, IsBlock(b, f, a, all), b.min = scale[k].int, b.minBuild = scale[k].build,
                acc.open, b.max = Cur(acc).max, b.p = Cur(acc).p, SamePick(b.p, p), new.blocks = WithLast(s, b)
         PROVE  AccServes(new, k, best, m, i)
    <2> DEFINE x == Cur(acc)
               n == Len(s)
    <2>1. /\ n > 0 /\ k - 1 \in DOMAIN best /\ x.min = scale[k - 1].int /\ x.minBuild = scale[k - 1].build
          /\ \E t \in DOMAIN scale : t <= k - 1 /\ x.max = Top(scale, scale[t])
      BY <1>10 DEF OpenAt, s
    <2>2. x = s[n]
      BY DEF Cur, s
    <2>3. n \in DOMAIN s /\ IsBlock(x, f, a, all)
      <3>1. n \in Nat /\ DOMAIN s = 1..n
        BY <1>3, ListDomain
      <3>2. n \in DOMAIN s
        BY <2>1, <3>1
      <3>3. QED  BY <2>2, <3>2 DEF IsAcc, s, all
    <2>4. (k < i => ~Covers(b, m)) /\ (k = i => Covers(b, m))
      <3>1. PICK t \in DOMAIN scale : t <= k - 1 /\ x.max = Top(scale, scale[t])
        BY <2>1
      <3>2. t <= k
        <4>1. t \in Nat
          BY <1>1, ScaleIs
        <4>2. QED  BY <1>1, <3>1, <4>1
      <3>3. b.max = Top(scale, scale[t])
        BY <1>10, <3>1
      <3>4. QED  BY <1>8, <1>10, <3>2, <3>3
    <2>5. Covers(x, m) => Covers(b, m)
      <3>1. k - 1 \in DOMAIN scale /\ k - 1 <= k
        BY <1>1, <2>1 DEF GoodFold
      <3>2. scale[k].int <= scale[k - 1].int /\ scale[k].build <= scale[k - 1].build
        BY <1>1, <3>1, ScaleIs
      <3>3. scale[k - 1].int \in Nat /\ scale[k - 1].build \in Nat /\ m.int \in Nat
        BY <1>1, <3>1, ScaleIs, Numbers DEF GoodComputer
      <3>4. b.family = x.family /\ b.machine = x.machine /\ b.max = x.max
        <4>1. b.family = f /\ b.machine = a
          BY <1>10 DEF IsBlock
        <4>2. x.family = f /\ x.machine = a
          BY <2>3 DEF IsBlock
        <4>3. QED  BY <1>10, <4>1, <4>2
      <3>5. x.min <= m.int => b.min <= m.int
        BY <1>1, <1>10, <2>1, <3>2, <3>3
      <3>6. x.minBuild <= m.build => b.minBuild <= m.build
        BY <1>1, <1>10, <2>1, <3>2, <3>3
      <3>7. QED  BY <3>4, <3>5, <3>6 DEF Covers
    <2>6. GivesBest(b.p, p)
      <3>1. b.p \in all
        BY <1>10 DEF IsBlock
      <3>2. QED  BY <1>2, <1>10, <3>1 DEF GoodFold, all
    <2>7. b.p = s[n].p /\ (Covers(s[n], m) => Covers(b, m))
      BY <1>10, <2>2, <2>5
    <2> HIDE DEF p
    <2>8. k < i => Silent(new.blocks, m)
      BY <1>3, <1>5, <1>10, <2>1, <2>4, GrowthServes
    <2>9. ServedBy(s, m, want) => ServedBy(new.blocks, m, want)
      BY <1>3, <1>10, <2>1, <2>7, GrowthServes
    <2>10. k = i => ServedBy(new.blocks, m, want)
      BY <1>3, <1>7, <1>10, <2>1, <2>4, <2>6, <2>9, GrowthServes
    <2>11. k >= i => k > i \/ k = i
      BY <1>1
    <2>12. QED  BY <1>6, <2>8, <2>9, <2>10, <2>11 DEF AccServes, want
  <1>11. QED
    <2>1. AccServes(new, k, best, m, i)
      BY <1>4, <1>9, <1>10 DEF new
    <2>2. QED  BY <2>1 DEF new

Has(m, i, scale, f, a) == m.family = f /\ m.arch = a /\ GoodComputer(m, scale) /\ At(scale, m, i)

\* One OS version more.
LEMMA AddOSServes ==
    ASSUME NEW scale, NEW f, NEW a, NEW best, GoodFold(scale, f, a, best), NEW k \in DOMAIN best,
           NEW acc, IsAcc(acc, f, a, PicksOf(best)), OpenAt(acc, k - 1, scale, best), NEW gone
    PROVE  LET new == AddOS(acc, f, a, scale[k], scale, best[k], gone) IN
           /\ IsAcc(new, f, a, PicksOf(best)) /\ OpenAt(new, k, scale, best)
           /\ \A m, i : Has(m, i, scale, f, a) /\ AccServes(acc, k - 1, best, m, i) => AccServes(new, k, best, m, i)
  <1> DEFINE p == best[k].p
             cond == best[k].cond
             own == cond # None /\ (p = None \/ cond.rel # p.rel)
             mid == IF own THEN AddConditional(acc, f, a, scale[k], scale, cond) ELSE acc
             why == IF p = None /\ cond = None THEN gone ELSE None
             all == PicksOf(best)
  <1>1. AddOS(acc, f, a, scale[k], scale, best[k], gone) = AddPick(mid, f, a, scale[k], scale, p, why)
    BY DEF AddOS
  <1>2. own <=> cond # None
    <2> SUFFICES ASSUME cond # None, p # None, cond.rel = p.rel PROVE FALSE
      OBVIOUS
    <2>1. cond \in all \ {None} /\ p \in all \ {None}
      <3>1. cond \in {best[k].p, best[k].cond} /\ p \in {best[k].p, best[k].cond}
        OBVIOUS
      <3>2. QED  BY <3>1 DEF PicksOf
    <2>2. cond.minBuild = p.minBuild
      BY <2>1 DEF GoodFold
    <2>3. /\ p.minBuild \in Nat /\ p.minBuild <= scale[k].build
          /\ cond.minBuild \in Nat /\ cond.minBuild > scale[k].build
      BY DEF GoodFold
    <2>4. scale[k].build \in Nat
      BY ScaleIs DEF GoodFold
    <2> HIDE DEF cond, p
    <2>5. QED  BY <2>2, <2>3, <2>4
  <1>3. cond # None => LET new == AddConditional(acc, f, a, scale[k], scale, cond) IN
                       IsAcc(new, f, a, all) /\ ~new.open
    BY CondStep
  <1> HIDE DEF own
  <1>4. IsAcc(mid, f, a, all) /\ OpenAt(mid, k - 1, scale, best)
    BY <1>2, <1>3 DEF OpenAt
  <1>5. ASSUME NEW m, NEW i, Has(m, i, scale, f, a), AccServes(acc, k - 1, best, m, i)
        PROVE  /\ k < i => Silent(mid.blocks, m)
               /\ k > i /\ i \in DOMAIN best => ServedBy(mid.blocks, m, ForBuild(best[i], m.build))
               /\ k = i => \/ ServedBy(mid.blocks, m, ForBuild(best[k], m.build))
                           \/ Silent(mid.blocks, m) /\ ForBuild(best[k], m.build) = p
    <2>1. m.family = f /\ m.arch = a /\ GoodComputer(m, scale) /\ At(scale, m, i)
      BY <1>5 DEF Has
    <2>2. CASE cond # None
      <3> DEFINE new == AddConditional(acc, f, a, scale[k], scale, cond)
      <3>1. mid = new
        BY <1>2, <2>2
      <3>2. /\ k < i => Silent(new.blocks, m)
            /\ k > i /\ i \in DOMAIN best => ServedBy(new.blocks, m, ForBuild(best[i], m.build))
            /\ k = i => IF m.build >= cond.minBuild THEN ServedBy(new.blocks, m, cond) ELSE Silent(new.blocks, m)
        BY <1>5, <2>1, <2>2, CondServes
      <3>3. ForBuild(best[k], m.build) = IF m.build >= cond.minBuild THEN cond ELSE p
        BY <2>2 DEF ForBuild
      <3> HIDE DEF new, mid, cond, p
      <3>4. QED  BY <3>1, <3>2, <3>3
    <2>3. CASE cond = None
      <3>1. mid = acc
        BY <1>2, <2>3
      <3>2. ForBuild(best[k], m.build) = p
        BY <2>3 DEF ForBuild
      <3>3. k \in Nat /\ i \in Nat
        BY <2>1, ScaleIs DEF GoodFold, At
      <3>4. (k <= i => k - 1 < i) /\ (k > i => k - 1 >= i) /\ (k < i => k <= i) /\ (k = i => k <= i)
        BY <3>3
      <3>5. (k <= i => Silent(acc.blocks, m))
            /\ (k > i /\ i \in DOMAIN best => ServedBy(acc.blocks, m, ForBuild(best[i], m.build)))
        BY <1>5, <3>4 DEF AccServes
      <3> HIDE DEF mid, p
      <3>6. QED  BY <3>1, <3>2, <3>4, <3>5
    <2>4. QED  BY <2>2, <2>3
  <1> HIDE DEF mid, why
  <1> DEFINE new == AddPick(mid, f, a, scale[k], scale, p, why)
  <1>6. IsAcc(new, f, a, all) /\ OpenAt(new, k, scale, best)
    BY <1>4, PickStep
  <1>7. ASSUME NEW m, NEW i, Has(m, i, scale, f, a), AccServes(acc, k - 1, best, m, i)
        PROVE  AccServes(new, k, best, m, i)
    <2>1. m.family = f /\ m.arch = a /\ GoodComputer(m, scale) /\ At(scale, m, i)
      BY <1>7 DEF Has
    <2>2. /\ k < i => Silent(mid.blocks, m)
          /\ k > i /\ i \in DOMAIN best => ServedBy(mid.blocks, m, ForBuild(best[i], m.build))
          /\ k = i => \/ ServedBy(mid.blocks, m, ForBuild(best[k], m.build))
                      \/ Silent(mid.blocks, m) /\ ForBuild(best[k], m.build) = best[k].p
      BY <1>5, <1>7
    <2>3. IsAcc(mid, f, a, PicksOf(best)) /\ OpenAt(mid, k - 1, scale, best)
      BY <1>4
    <2>4. QED  BY <2>1, <2>2, <2>3, PickServes
  <1>8. QED
    <2> HIDE DEF new
    <2>1. /\ IsAcc(new, f, a, PicksOf(best)) /\ OpenAt(new, k, scale, best)
          /\ \A m, i : Has(m, i, scale, f, a) /\ AccServes(acc, k - 1, best, m, i) => AccServes(new, k, best, m, i)
      BY <1>6, <1>7
    <2>2. QED  BY <1>1, <2>1 DEF new

\* All of them.
LEMMA FoldServes ==
    ASSUME NEW scale, NEW f, NEW a, NEW best, GoodFold(scale, f, a, best), NEW gone, NEW g, g[0] = NoBlocks,
           \A k \in 1..Len(scale) : g[k] = IF k \notin DOMAIN best THEN Flush(g[k - 1])
                                           ELSE AddOS(g[k - 1], f, a, scale[k], scale, best[k], gone[k])
    PROVE  LET s == g[Len(scale)].blocks IN
           /\ IsList(s) /\ \A j \in DOMAIN s : IsBlock(s[j], f, a, PicksOf(best))
           /\ \A m, i : Has(m, i, scale, f, a) /\ i \in DOMAIN best => ServedBy(s, m, ForBuild(best[i], m.build))
  <1> DEFINE n == Len(scale)
             Right(k) == /\ IsAcc(g[k], f, a, PicksOf(best)) /\ OpenAt(g[k], k, scale, best)
                         /\ \A m, i : Has(m, i, scale, f, a) => AccServes(g[k], k, best, m, i)
             T == {k \in 0..n : ~Right(k)}
  <1>1. n \in Nat /\ DOMAIN scale = 1..n /\ DOMAIN best \subseteq DOMAIN scale
    BY ScaleIs DEF GoodFold
  <1>2. \A m, i : Has(m, i, scale, f, a) => i \in 1..n
    BY <1>1 DEF Has, At
  <1>3. Right(0)
    <2>1. IsAcc(g[0], f, a, PicksOf(best)) /\ OpenAt(g[0], 0, scale, best) /\ g[0].blocks = <<>>
      <3>1. g[0] = [blocks |-> <<>>, open |-> FALSE]
        BY DEF NoBlocks
      <3>2. g[0].blocks = <<>> /\ ~g[0].open /\ g[0] \in [blocks : {g[0].blocks}, open : BOOLEAN]
        BY <3>1
      <3>3. QED  BY <3>2, EmptyList DEF IsAcc, OpenAt
    <2>2. ASSUME NEW m, NEW i, Has(m, i, scale, f, a) PROVE AccServes(g[0], 0, best, m, i)
      <3>1. 0 < i /\ ~(0 >= i)
        BY <1>1, <1>2, <2>2
      <3>2. Silent(<<>>, m)
        BY EmptyList DEF Silent
      <3>3. QED  BY <2>1, <3>1, <3>2 DEF AccServes
    <2>3. QED  BY <2>1, <2>2
  <1>4. ASSUME NEW k \in 1..n, Right(k - 1) PROVE Right(k)
    <2>1. CASE k \in DOMAIN best
      <3> DEFINE acc == g[k - 1]
                 new == AddOS(acc, f, a, scale[k], scale, best[k], gone[k])
      <3>1. g[k] = new
        BY <2>1
      <3>2. IsAcc(acc, f, a, PicksOf(best)) /\ OpenAt(acc, k - 1, scale, best)
        BY <1>4
      <3>3. /\ IsAcc(new, f, a, PicksOf(best)) /\ OpenAt(new, k, scale, best)
            /\ \A m, i : Has(m, i, scale, f, a) /\ AccServes(acc, k - 1, best, m, i) => AccServes(new, k, best, m, i)
        <4> DEFINE y == gone[k]
        <4> HIDE DEF acc, y
        <4>1. LET x == AddOS(acc, f, a, scale[k], scale, best[k], y) IN
              /\ IsAcc(x, f, a, PicksOf(best)) /\ OpenAt(x, k, scale, best)
              /\ \A m, i : Has(m, i, scale, f, a) /\ AccServes(acc, k - 1, best, m, i) => AccServes(x, k, best, m, i)
          BY <2>1, <3>2, AddOSServes
        <4>2. QED  BY <4>1 DEF y
      <3>4. \A m, i : Has(m, i, scale, f, a) => AccServes(acc, k - 1, best, m, i)
        BY <1>4
      <3> HIDE DEF acc, new
      <3>5. QED  BY <3>1, <3>3, <3>4
    <2>2. CASE k \notin DOMAIN best
      <3> DEFINE acc == g[k - 1]
                 new == Flush(acc)
      <3>1. g[k] = new
        BY <2>2
      <3>2. IsAcc(acc, f, a, PicksOf(best))
        BY <1>4
      <3>3. \A m, i : Has(m, i, scale, f, a) => AccServes(acc, k - 1, best, m, i)
        BY <1>4
      <3> HIDE DEF acc
      <3>4. IsAcc(new, f, a, PicksOf(best)) /\ ~new.open /\ new.blocks = acc.blocks
        BY <3>2, FlushIs
      <3> HIDE DEF new
      <3>5. ASSUME NEW m, NEW i, Has(m, i, scale, f, a) PROVE AccServes(new, k, best, m, i)
        <4>1. i \in Nat /\ k \in Nat
          BY <1>1, <1>2, <3>5
        <4>2. /\ k < i => k - 1 < i
              /\ k >= i /\ i \in DOMAIN best => k - 1 >= i
          BY <2>2, <4>1
        <4>3. AccServes(acc, k - 1, best, m, i)
          BY <3>3, <3>5
        <4>4. QED  BY <3>4, <4>2, <4>3 DEF AccServes
      <3>6. OpenAt(new, k, scale, best)
        BY <3>4 DEF OpenAt
      <3>7. QED  BY <3>1, <3>4, <3>5, <3>6
    <2>3. QED  BY <2>1, <2>2
  <1> HIDE DEF Right
  <1>5. T = {}
    <2> SUFFICES ASSUME T # {} PROVE FALSE
      OBVIOUS
    <2>1. PICK k \in T : \A y \in T : k <= y
      <3>1. T \in SUBSET Nat
        BY <1>1
      <3> HIDE DEF T
      <3>2. QED  BY <3>1, LeastNat
    <2>2. k \in 0..n /\ ~Right(k)
      OBVIOUS
    <2>3. k # 0
      BY <1>3, <2>2
    <2>4. k - 1 \in 0..n /\ ~(k <= k - 1) /\ k \in 1..n
      BY <1>1, <2>2, <2>3
    <2>5. k - 1 \notin T
      <3> HIDE DEF T
      <3>1. QED  BY <2>1, <2>4
    <2>6. Right(k - 1)
      BY <2>4, <2>5
    <2>7. QED  BY <1>4, <2>2, <2>4, <2>6
  <1>6. Right(n) /\ n \in Nat
    <2>1. n \in 0..n
      BY <1>1
    <2>2. QED  BY <1>1, <1>5, <2>1
  <1>7. \A m, i : Has(m, i, scale, f, a) => n >= i
    BY <1>1, <1>2
  <1>8. QED  BY <1>6, <1>7 DEF Right, IsAcc, AccServes

\* The blocks of one machine are worked out as their definition says.
LEMMA BlocksOfIs ==
    ASSUME NEW c, NEW lists, NEW all, NEW l, NEW app, NEW f, NEW a, Len(c.os[f]) \in Nat
    PROVE  \E g : /\ g[0] = NoBlocks
                  /\ \A k \in 1..Len(c.os[f]) :
                        g[k] = IF a \notin c.os[f][k].arches THEN Flush(g[k - 1])
                               ELSE AddOS(g[k - 1], f, a, c.os[f][k], c.os[f], Best(c, lists, l, a, c.os[f][k], app),
                                          GoneTo(c, all, l, a, c.os[f][k], app))
                  /\ BlocksOf(c, lists, all, l, app, f, a) = g[Len(c.os[f])].blocks
  <1> DEFINE scale == c.os[f]
             n == Len(scale)
             Step(acc, k) == IF a \notin scale[k].arches THEN Flush(acc)
                             ELSE AddOS(acc, f, a, scale[k], scale, Best(c, lists, l, a, scale[k], app),
                                        GoneTo(c, all, l, a, scale[k], app))
             Is(g, m) == g = [k \in 0..m |-> IF k = 0 THEN NoBlocks ELSE Step(g[k - 1], k)]
             after == CHOOSE g : g = [k \in 0..n |-> IF k = 0 THEN NoBlocks ELSE
                                         IF a \notin scale[k].arches THEN Flush(g[k - 1])
                                         ELSE AddOS(g[k - 1], f, a, scale[k], scale, Best(c, lists, l, a, scale[k], app),
                                                    GoneTo(c, all, l, a, scale[k], app))]
             T == {m \in Nat : \A g : ~Is(g, m)}
  <1>1. BlocksOf(c, lists, all, l, app, f, a) = after[n].blocks
    BY Zenon DEF BlocksOf
  <1>2. after = CHOOSE g : Is(g, n)
    BY Zenon
  <1>3. \A g, k : Step(g[k - 1], k) = IF a \notin scale[k].arches THEN Flush(g[k - 1])
                                      ELSE AddOS(g[k - 1], f, a, scale[k], scale, Best(c, lists, l, a, scale[k], app),
                                                 GoneTo(c, all, l, a, scale[k], app))
    BY Zenon
  <1> HIDE DEF Step, after
  <1>4. T = {}
    <2> SUFFICES ASSUME T # {} PROVE FALSE
      OBVIOUS
    <2>1. PICK m \in T : \A y \in T : m <= y
      <3>1. T \in SUBSET Nat
        OBVIOUS
      <3> HIDE DEF T
      <3>2. QED  BY <3>1, LeastNat
    <2>2. m # 0
      <3> DEFINE g == [k \in 0..0 |-> NoBlocks]
      <3>1. g = [k \in 0..0 |-> IF k = 0 THEN NoBlocks ELSE Step(g[k - 1], k)]
        OBVIOUS
      <3>2. Is(g, 0)
        BY <3>1
      <3>3. QED  BY <2>1, <3>2
    <2>3. m - 1 \in Nat /\ m - 1 \notin T /\ m \in Nat
      <3>1. m \in Nat
        OBVIOUS
      <3> HIDE DEF T
      <3>2. QED  BY <2>1, <2>2, <3>1
    <2>4. PICK g : Is(g, m - 1)
      <3> HIDE DEF Is
      <3>1. QED  BY <2>3
    <2> DEFINE h == [k \in 0..m |-> IF k = m THEN Step(g[k - 1], k) ELSE g[k]]
    <2>5. ASSUME NEW k \in 0..m PROVE h[k] = IF k = 0 THEN NoBlocks ELSE Step(h[k - 1], k)
      <3>1. k # m => k \in 0..(m - 1)
        BY <2>3
      <3>2. k # 0 => k - 1 \in 0..m /\ k - 1 # m
        BY <2>3
      <3>3. k # 0 => h[k - 1] = g[k - 1]
        BY <3>2
      <3>4. k # m => g[k] = IF k = 0 THEN NoBlocks ELSE Step(g[k - 1], k)
        BY <2>4, <3>1
      <3>5. h[k] = IF k = m THEN Step(g[k - 1], k) ELSE g[k]
        OBVIOUS
      <3> HIDE DEF h
      <3>6. QED  BY <2>2, <3>3, <3>4, <3>5
    <2>6. Is(h, m)
      <3>1. h = [k \in 0..m |-> h[k]]
        OBVIOUS
      <3> HIDE DEF h
      <3>2. [k \in 0..m |-> h[k]] = [k \in 0..m |-> IF k = 0 THEN NoBlocks ELSE Step(h[k - 1], k)]
        BY <2>5
      <3>3. QED  BY <3>1, <3>2
    <2>7. QED
      <3> HIDE DEF Is
      <3>1. QED  BY <2>1, <2>6
  <1>5. n \in Nat
    OBVIOUS
  <1>6. \E g : Is(g, n)
    <2> HIDE DEF Is, n
    <2>1. QED  BY <1>4, <1>5
  <1>7. Is(after, n)
    <2> HIDE DEF Is
    <2>1. QED  BY <1>2, <1>6, Zenon
  <1>8. after[0] = NoBlocks /\ \A k \in 1..n : after[k] = Step(after[k - 1], k)
    <2> HIDE DEF n
    <2>1. \A k \in 0..n : after[k] = IF k = 0 THEN NoBlocks ELSE Step(after[k - 1], k)
      BY <1>7
    <2>2. 0 \in 0..n /\ \A k \in 1..n : k \in 0..n /\ k # 0
      BY <1>5
    <2> HIDE DEF Is
    <2>3. QED  BY <2>1, <2>2
  <1> HIDE DEF Is
  <1>9. QED  BY <1>1, <1>3, <1>8, Zenon

\* What a block brings is not withdrawn.
Clean(l, p) ==
    p # None => /\ p.rel.file.sha \notin l
                /\ \A x \in p.extras : x.file.sha \notin l
                /\ \A n \in p.needs : n.p.rel.file.sha \notin l

LEMMA MachineServes ==
    ASSUME NEW c, GoodCatalogue(c), NEW l, NEW lists, GoodLists(c, l, lists), NEW all,
           NEW f \in ToSet(Families), NEW a \in ToSet(Machines), NEW app, app.runtime \in DOMAIN c.runtimes
    PROVE  LET s == BlocksOf(c, lists, all, l, app, f, a) IN
           /\ IsList(s)
           /\ \A j \in DOMAIN s : s[j].family = f /\ s[j].machine = a /\ Clean(l, s[j].p)
           /\ \A m, i : Has(m, i, c.os[f], f, a) /\ a \in c.os[f][i].arches =>
                 ServedBy(s, m, ForBuild(Best(c, lists, l, a, c.os[f][i], app), m.build))
  <1> DEFINE scale == c.os[f]
             places == {k \in DOMAIN scale : a \in scale[k].arches}
             best == [k \in places |-> Best(c, lists, l, a, scale[k], app)]
  <1>1. GoodScale(scale, f)
    BY DEF GoodCatalogue
  <1>2. \A k \in DOMAIN scale : scale[k].family = f /\ scale[k].build \in Nat /\ (f = "windows" => scale[k].id # "musl")
    BY <1>1 DEF GoodScale
  <1>3. a \in Arches
    BY DEF Arches
  <1> HIDE DEF scale
  <1>4. ASSUME NEW k \in places
        PROVE  /\ best[k].p # None => IsPick(c, l, app, scale[k], best[k].p) /\ best[k].p.minBuild <= scale[k].build
               /\ best[k].cond # None => IsPick(c, l, app, scale[k], best[k].cond) /\ best[k].cond.minBuild > scale[k].build
    <2> DEFINE o == scale[k]
    <2>1. o.family \in ToSet(Families) /\ o.build \in Int
      BY <1>2
    <2>2. best[k] = Best(c, lists, l, a, o, app)
      OBVIOUS
    <2> HIDE DEF o, best
    <2>3. LET b == Best(c, lists, l, a, o, app) IN
          /\ b.p # None => IsPick(c, l, app, o, b.p) /\ b.p.minBuild <= o.build
          /\ b.cond # None => IsPick(c, l, app, o, b.cond) /\ b.cond.minBuild > o.build
      BY <1>3, <2>1, BestIs
    <2>4. QED  BY <2>2, <2>3 DEF o
  <1>5. DOMAIN best = places /\ places \subseteq DOMAIN scale
    OBVIOUS
  <1> HIDE DEF best
  <1>6. \A x \in PicksOf(best) : x = None \/ \E k \in places : IsPick(c, l, app, scale[k], x)
    <2> SUFFICES ASSUME NEW x \in PicksOf(best), x # None PROVE \E k \in places : IsPick(c, l, app, scale[k], x)
      OBVIOUS
    <2>1. PICK k \in places : x \in {best[k].p, best[k].cond}
      BY <1>5 DEF PicksOf
    <2> HIDE DEF places
    <2>2. QED  BY <1>4, <2>1
  <1>7. ASSUME NEW k \in places, NEW x, IsPick(c, l, app, scale[k], x)
        PROVE  x.minBuild \in Nat /\ (f # "windows" => x.minBuild = 0)
    <2> DEFINE rt == c.runtimes[app.runtime]
    <2>1. x.minBuild = RunsOn(c, rt, x.rel, scale[k]).minBuild
      BY <1>7 DEF IsPick
    <2>2. \A r \in rt.rules : r.minBuild \in 0..NoBuild
      BY DEF GoodCatalogue, GoodRuntime
    <2> HIDE DEF rt
    <2>3. RunsOn(c, rt, x.rel, scale[k]).minBuild \in Nat
          /\ (scale[k].family # "windows" => RunsOn(c, rt, x.rel, scale[k]).minBuild = 0)
      BY <2>2, BuildOfRuns
    <2>4. scale[k].family = f
      BY <1>2, <1>5
    <2>5. QED  BY <2>1, <2>3, <2>4
  <1>8. ASSUME NEW j \in places, NEW k \in places
        PROVE  /\ scale[j].family = scale[k].family
               /\ scale[j].family = "windows" => scale[j].id # "musl" /\ scale[k].id # "musl"
    BY <1>2
  <1> HIDE DEF places
  <1>9. GoodFold(scale, f, a, best)
    <2>1. \A k \in DOMAIN best :
              /\ best[k].p # None => best[k].p.minBuild \in Nat /\ best[k].p.minBuild <= scale[k].build
              /\ best[k].cond # None =>
                    f = "windows" /\ best[k].cond.minBuild \in Nat /\ best[k].cond.minBuild > scale[k].build
      <3> SUFFICES ASSUME NEW k \in places
                   PROVE  /\ best[k].p # None => best[k].p.minBuild \in Nat /\ best[k].p.minBuild <= scale[k].build
                          /\ best[k].cond # None =>
                                f = "windows" /\ best[k].cond.minBuild \in Nat /\ best[k].cond.minBuild > scale[k].build
        BY <1>5
      <3>1. best[k].p # None => best[k].p.minBuild \in Nat /\ best[k].p.minBuild <= scale[k].build
        BY <1>4, <1>7
      <3>2. ASSUME best[k].cond # None
            PROVE  f = "windows" /\ best[k].cond.minBuild \in Nat /\ best[k].cond.minBuild > scale[k].build
        <4>1. IsPick(c, l, app, scale[k], best[k].cond) /\ best[k].cond.minBuild > scale[k].build
          BY <1>4, <3>2
        <4>2. best[k].cond.minBuild \in Nat /\ (f # "windows" => best[k].cond.minBuild = 0)
          BY <1>7, <4>1
        <4>3. scale[k].build \in Nat
          BY <1>2, <1>5
        <4>4. QED  BY <4>1, <4>2, <4>3
      <3>3. QED  BY <3>1, <3>2
    <2>2. ASSUME NEW x \in PicksOf(best) \ {None}, NEW y \in PicksOf(best) \ {None}, x.rel = y.rel
          PROVE  x.minBuild = y.minBuild
      <3>1. PICK j \in places : IsPick(c, l, app, scale[j], x)
        BY <1>6
      <3>2. PICK k \in places : IsPick(c, l, app, scale[k], y)
        BY <1>6
      <3> DEFINE o == scale[j]
                 p == scale[k]
      <3>3. o.family = p.family /\ (o.family = "windows" => o.id # "musl" /\ p.id # "musl")
        BY <1>8
      <3>4. IsPick(c, l, app, o, x) /\ IsPick(c, l, app, p, y)
        BY <3>1, <3>2
      <3> HIDE DEF o, p
      <3>5. QED  BY <2>2, <3>3, <3>4, SameRelease
    <2>3. ASSUME NEW x \in PicksOf(best), NEW y \in PicksOf(best), SamePick(x, y) PROVE GivesBest(x, y)
      <3>1. CASE x = None \/ y = None
        BY <2>3, <3>1 DEF SamePick, GivesBest
      <3>2. CASE x # None /\ y # None
        <4>1. PICK j \in places : IsPick(c, l, app, scale[j], x)
          BY <1>6, <3>2
        <4>2. PICK k \in places : IsPick(c, l, app, scale[k], y)
          BY <1>6, <3>2
        <4> DEFINE o == scale[j]
                   p == scale[k]
        <4>3. o.family = p.family /\ (o.family = "windows" => o.id # "musl" /\ p.id # "musl")
          BY <1>8
        <4>4. IsPick(c, l, app, o, x) /\ IsPick(c, l, app, p, y)
          BY <4>1, <4>2
        <4> HIDE DEF o, p
        <4>5. QED  BY <2>3, <4>3, <4>4, SameGets
      <3>3. QED  BY <3>1, <3>2
    <2>4. QED  BY <1>1, <1>5, <2>1, <2>2, <2>3 DEF GoodFold, places
  <1>10. Len(scale) \in Nat /\ DOMAIN scale = 1..Len(scale)
    BY <1>1, ScaleIs
  <1>11. PICK g : /\ g[0] = NoBlocks
                  /\ \A k \in 1..Len(scale) :
                        g[k] = IF a \notin scale[k].arches THEN Flush(g[k - 1])
                               ELSE AddOS(g[k - 1], f, a, scale[k], scale, Best(c, lists, l, a, scale[k], app),
                                          GoneTo(c, all, l, a, scale[k], app))
                  /\ BlocksOf(c, lists, all, l, app, f, a) = g[Len(scale)].blocks
    <2>1. Len(c.os[f]) \in Nat
      BY <1>10 DEF scale
    <2>2. \E g : /\ g[0] = NoBlocks
                 /\ \A k \in 1..Len(c.os[f]) :
                       g[k] = IF a \notin c.os[f][k].arches THEN Flush(g[k - 1])
                              ELSE AddOS(g[k - 1], f, a, c.os[f][k], c.os[f], Best(c, lists, l, a, c.os[f][k], app),
                                         GoneTo(c, all, l, a, c.os[f][k], app))
                 /\ BlocksOf(c, lists, all, l, app, f, a) = g[Len(c.os[f])].blocks
      BY <2>1, BlocksOfIs
    <2>3. QED  BY <2>2 DEF scale
  <1> DEFINE gone == [k \in DOMAIN scale |-> GoneTo(c, all, l, a, scale[k], app)]
  <1>12. \A k \in 1..Len(scale) : g[k] = IF k \notin DOMAIN best THEN Flush(g[k - 1])
                                         ELSE AddOS(g[k - 1], f, a, scale[k], scale, best[k], gone[k])
    <2> SUFFICES ASSUME NEW k \in 1..Len(scale)
                 PROVE  g[k] = IF k \notin DOMAIN best THEN Flush(g[k - 1])
                               ELSE AddOS(g[k - 1], f, a, scale[k], scale, best[k], gone[k])
      OBVIOUS
    <2>1. k \in DOMAIN scale /\ gone[k] = GoneTo(c, all, l, a, scale[k], app)
      BY <1>10
    <2>2. k \in DOMAIN best <=> a \in scale[k].arches
      BY <1>5, <2>1 DEF places
    <2>3. k \in DOMAIN best => best[k] = Best(c, lists, l, a, scale[k], app)
      BY <1>5 DEF best
    <2> HIDE DEF gone
    <2>4. QED  BY <1>11, <2>1, <2>2, <2>3
  <1> HIDE DEF gone
  <1> DEFINE s == g[Len(scale)].blocks
  <1>13. /\ IsList(s) /\ \A j \in DOMAIN s : IsBlock(s[j], f, a, PicksOf(best))
         /\ \A m, i : Has(m, i, scale, f, a) /\ i \in DOMAIN best => ServedBy(s, m, ForBuild(best[i], m.build))
    BY <1>9, <1>11, <1>12, FoldServes
  <1> HIDE DEF s
  <1>14. \A j \in DOMAIN s : s[j].family = f /\ s[j].machine = a /\ Clean(l, s[j].p)
    <2> SUFFICES ASSUME NEW j \in DOMAIN s PROVE s[j].family = f /\ s[j].machine = a /\ Clean(l, s[j].p)
      OBVIOUS
    <2>1. s[j].family = f /\ s[j].machine = a /\ s[j].p \in PicksOf(best)
      BY <1>13 DEF IsBlock
    <2>2. \A k \in places : IsPick(c, l, app, scale[k], s[j].p) => Clean(l, s[j].p)
      BY DEF IsPick, Clean
    <2>3. s[j].p = None => Clean(l, s[j].p)
      BY DEF Clean
    <2>4. QED  BY <1>6, <2>1, <2>2, <2>3
  <1>15. \A m, i : Has(m, i, scale, f, a) /\ a \in scale[i].arches =>
             ServedBy(s, m, ForBuild(Best(c, lists, l, a, scale[i], app), m.build))
    <2> SUFFICES ASSUME NEW m, NEW i, Has(m, i, scale, f, a), a \in scale[i].arches
                 PROVE  ServedBy(s, m, ForBuild(Best(c, lists, l, a, scale[i], app), m.build))
      OBVIOUS
    <2>1. i \in DOMAIN best
      BY <1>5 DEF Has, At, places
    <2>2. best[i] = Best(c, lists, l, a, scale[i], app)
      BY <1>5, <2>1 DEF best
    <2>3. QED  BY <1>13, <2>1, <2>2
  <1>16. BlocksOf(c, lists, all, l, app, f, a) = s
    BY <1>11 DEF s
  <1>17. QED  BY <1>13, <1>14, <1>15, <1>16 DEF scale
-----------------------------------------------------------------------------
(* The blocks of a family, and of all *)

LEMMA MachinesAre == ToSet(Machines) = {"amd64", "arm64", "x86"}
  <1>1. DOMAIN Machines = {1, 2, 3} /\ Machines[1] = "amd64" /\ Machines[2] = "arm64" /\ Machines[3] = "x86"
    BY DEF Machines
  <1>2. QED  BY <1>1 DEF ToSet

LEMMA FamiliesAre == ToSet(Families) = {"windows", "macos", "linux"}
  <1>1. DOMAIN Families = {1, 2, 3} /\ Families[1] = "windows" /\ Families[2] = "macos" /\ Families[3] = "linux"
    BY DEF Families
  <1>2. QED  BY <1>1 DEF ToSet

LEMMA FamilyServes ==
    ASSUME NEW c, GoodCatalogue(c), NEW l, NEW lists, GoodLists(c, l, lists), NEW all,
           NEW f \in ToSet(Families), NEW app, app.runtime \in DOMAIN c.runtimes
    PROVE  LET s == FamilyBlocks(c, lists, all, l, app, f) IN
           /\ IsList(s)
           /\ \A j \in DOMAIN s : s[j].family = f /\ Clean(l, s[j].p)
           /\ \A m, i : Has(m, i, c.os[f], f, m.arch) /\ m.arch \in c.os[f][i].arches =>
                 ServedBy(s, m, ForBuild(Best(c, lists, l, m.arch, c.os[f][i], app), m.build))
  <1> DEFINE B(a) == BlocksOf(c, lists, all, l, app, f, a)
             Want(m, i) == ForBuild(Best(c, lists, l, m.arch, c.os[f][i], app), m.build)
             s1 == Joined(B("amd64"), B("arm64"))
             s == Joined(s1, B("x86"))
  <1>1. \A a \in {"amd64", "arm64", "x86"} : a \in ToSet(Machines)
    BY MachinesAre
  <1>2. ASSUME NEW a \in ToSet(Machines)
        PROVE  /\ IsList(B(a))
               /\ \A j \in DOMAIN B(a) : B(a)[j].family = f /\ B(a)[j].machine = a /\ Clean(l, B(a)[j].p)
               /\ \A m, i : Has(m, i, c.os[f], f, a) /\ a \in c.os[f][i].arches =>
                      ServedBy(B(a), m, ForBuild(Best(c, lists, l, a, c.os[f][i], app), m.build))
    BY MachineServes
  <1>3. FamilyBlocks(c, lists, all, l, app, f) = s
    BY DEF FamilyBlocks, Joined
  <1> HIDE DEF B
  <1>4. ASSUME NEW m, NEW a \in ToSet(Machines), m.arch # a PROVE Silent(B(a), m)
    BY <1>2, <1>4 DEF Silent, Covers
  <1>5. \A m, i : Has(m, i, c.os[f], f, m.arch) /\ m.arch \in c.os[f][i].arches =>
            m.arch \in ToSet(Machines) /\ ServedBy(B(m.arch), m, Want(m, i))
    <2> SUFFICES ASSUME NEW m, NEW i, Has(m, i, c.os[f], f, m.arch), m.arch \in c.os[f][i].arches
                 PROVE  m.arch \in ToSet(Machines) /\ ServedBy(B(m.arch), m, Want(m, i))
      OBVIOUS
    <2>1. GoodScale(c.os[f], f) /\ i \in DOMAIN c.os[f]
      BY DEF GoodCatalogue, Has, At
    <2>2. c.os[f][i].arches \subseteq ToSet(Machines)
      BY <2>1 DEF GoodScale
    <2>3. m.arch \in ToSet(Machines)
      BY <2>2
    <2>4. QED  BY <1>2, <2>3
  <1> HIDE DEF Want
  <1>6. /\ IsList(s1) /\ \A j \in DOMAIN s1 : s1[j].family = f /\ Clean(l, s1[j].p)
        /\ \A m, want : /\ ServedBy(B("amd64"), m, want) => ServedBy(s1, m, want)
                        /\ Silent(B("amd64"), m) /\ ServedBy(B("arm64"), m, want) => ServedBy(s1, m, want)
                        /\ Silent(B("amd64"), m) /\ Silent(B("arm64"), m) => Silent(s1, m)
    <2>1. IsList(B("amd64")) /\ IsList(B("arm64"))
      BY <1>1, <1>2
    <2>2. /\ \A j \in DOMAIN B("amd64") : B("amd64")[j].family = f /\ Clean(l, B("amd64")[j].p)
          /\ \A j \in DOMAIN B("arm64") : B("arm64")[j].family = f /\ Clean(l, B("arm64")[j].p)
      BY <1>1, <1>2
    <2>3. QED  BY <2>1, <2>2, JoinedIs, ConcatServes
  <1>7. /\ IsList(s) /\ \A j \in DOMAIN s : s[j].family = f /\ Clean(l, s[j].p)
        /\ \A m, want : /\ ServedBy(s1, m, want) => ServedBy(s, m, want)
                        /\ Silent(s1, m) /\ ServedBy(B("x86"), m, want) => ServedBy(s, m, want)
    <2>1. IsList(B("x86")) /\ \A j \in DOMAIN B("x86") : B("x86")[j].family = f /\ Clean(l, B("x86")[j].p)
      BY <1>1, <1>2
    <2> HIDE DEF s1
    <2>2. QED  BY <1>6, <2>1, JoinedIs, ConcatServes
  <1> HIDE DEF s, s1
  <1>8. ASSUME NEW m, NEW i, Has(m, i, c.os[f], f, m.arch), m.arch \in c.os[f][i].arches
        PROVE  ServedBy(s, m, Want(m, i))
    <2>1. m.arch \in {"amd64", "arm64", "x86"} /\ ServedBy(B(m.arch), m, Want(m, i))
      BY <1>5, <1>8, MachinesAre
    <2>2. CASE m.arch = "amd64"
      BY <1>6, <1>7, <2>1, <2>2
    <2>3. CASE m.arch = "arm64"
      <3>1. Silent(B("amd64"), m)
        BY <1>1, <1>4, <2>3
      <3>2. QED  BY <1>6, <1>7, <2>1, <2>3, <3>1
    <2>4. CASE m.arch = "x86"
      <3>1. Silent(B("amd64"), m) /\ Silent(B("arm64"), m)
        BY <1>1, <1>4, <2>4
      <3>2. QED  BY <1>6, <1>7, <2>1, <2>4, <3>1
    <2>5. QED  BY <2>1, <2>2, <2>3, <2>4
  <1>9. QED  BY <1>3, <1>7, <1>8 DEF Want

\* The app on one family: a stand-in may take the runtime's place.
OnFamily(c, app, f) == [app EXCEPT !.runtime = Via(c, app.runtime, f)]

\* A computer with a version whose machines may have an installer of the app.
OnPlatform(c, app, m, i) ==
    /\ m.family \in ToSet(Families) /\ AnyOf(app.platforms, m.family)
    /\ Has(m, i, c.os[m.family], m.family, m.arch) /\ m.arch \in c.os[m.family][i].arches

LEMMA BlocksServe ==
    ASSUME NEW c, GoodCatalogue(c), NEW memo, MemoIsRight(memo), NEW l,
           NEW app, app.runtime \in DOMAIN c.runtimes,
           \A f \in ToSet(Families) : OnFamily(c, app, f).runtime = Via(c, app.runtime, f)
    PROVE  LET s == Blocks(c, memo, l, app) IN
           /\ IsList(s) /\ \A j \in DOMAIN s : Clean(l, s[j].p)
           /\ \A m, i : OnPlatform(c, app, m, i) =>
                 ServedBy(s, m, ForBuild(Best(c, ListsFor(c, memo, l, m.family), l, m.arch, c.os[m.family][i],
                                              OnFamily(c, app, m.family)), m.build))
  <1> DEFINE B(f) == BlocksFor(c, memo, l, app, f)
             Want(m, i) == ForBuild(Best(c, ListsFor(c, memo, l, m.family), l, m.arch, c.os[m.family][i],
                                         OnFamily(c, app, m.family)), m.build)
             Asked(m, i) == OnPlatform(c, app, m, i)
             s1 == Joined(B("windows"), B("macos"))
             s == Joined(s1, B("linux"))
  <1>1. \A f \in {"windows", "macos", "linux"} : f \in ToSet(Families)
    BY FamiliesAre
  <1>2. ASSUME NEW f \in ToSet(Families)
        PROVE  /\ IsList(B(f))
               /\ \A j \in DOMAIN B(f) : B(f)[j].family = f /\ Clean(l, B(f)[j].p)
               /\ \A m, i : Asked(m, i) /\ m.family = f => ServedBy(B(f), m, Want(m, i))
    <2>1. CASE ~AnyOf(app.platforms, f)
      <3>1. B(f) = <<>>
        BY <2>1 DEF BlocksFor
      <3>2. \A m, i : Asked(m, i) => m.family # f
        BY <2>1 DEF OnPlatform
      <3> HIDE DEF B, Asked
      <3>3. QED  BY <3>1, <3>2, EmptyList
    <2>2. CASE AnyOf(app.platforms, f)
      <3> DEFINE lists == ListsFor(c, memo, l, f)
                 all == ListsFor(c, memo, {}, f)
                 x == OnFamily(c, app, f)
      <3>1. B(f) = FamilyBlocks(c, lists, all, l, x, f)
        BY <2>2 DEF BlocksFor, OnFamily
      <3>2. GoodLists(c, l, lists)
        BY ListsAreGood DEF GoodCatalogue, GoodRuntime
      <3>3. x.runtime \in DOMAIN c.runtimes
        <4>1. x.runtime = c.runtimes[app.runtime].via[f]
          BY DEF Via
        <4>2. f \in DOMAIN c.runtimes[app.runtime].via
          BY DEF GoodCatalogue, GoodRuntime
        <4>3. c.runtimes[app.runtime].via[f] \in DOMAIN c.runtimes
          BY <4>2 DEF GoodCatalogue, GoodRuntime
        <4>4. QED  BY <4>1, <4>3
      <3> HIDE DEF lists, all, x
      <3>4. LET t == FamilyBlocks(c, lists, all, l, x, f) IN
            /\ IsList(t)
            /\ \A j \in DOMAIN t : t[j].family = f /\ Clean(l, t[j].p)
            /\ \A m, i : Has(m, i, c.os[f], f, m.arch) /\ m.arch \in c.os[f][i].arches =>
                  ServedBy(t, m, ForBuild(Best(c, lists, l, m.arch, c.os[f][i], x), m.build))
        BY <3>2, <3>3, FamilyServes
      <3>5. /\ IsList(B(f))
            /\ \A j \in DOMAIN B(f) : B(f)[j].family = f /\ Clean(l, B(f)[j].p)
            /\ \A m, i : Has(m, i, c.os[f], f, m.arch) /\ m.arch \in c.os[f][i].arches =>
                  ServedBy(B(f), m, ForBuild(Best(c, lists, l, m.arch, c.os[f][i], x), m.build))
        <4> HIDE DEF B
        <4>1. QED  BY <3>1, <3>4
      <3>6. ASSUME NEW m, NEW i, Asked(m, i), m.family = f PROVE ServedBy(B(f), m, Want(m, i))
        <4>1. Has(m, i, c.os[f], f, m.arch) /\ m.arch \in c.os[f][i].arches
          BY <3>6 DEF OnPlatform
        <4>2. Want(m, i) = ForBuild(Best(c, lists, l, m.arch, c.os[f][i], x), m.build)
          BY <3>6 DEF lists, x
        <4> HIDE DEF B, Want, Asked
        <4>3. QED  BY <3>5, <4>1, <4>2
      <3> HIDE DEF B, Want, Asked
      <3>7. QED  BY <3>5, <3>6
    <2>3. QED  BY <2>1, <2>2
  <1>3. Blocks(c, memo, l, app) = s
    BY DEF Blocks, Joined
  <1> HIDE DEF B, Want
  <1>4. ASSUME NEW m, NEW f \in ToSet(Families), m.family # f PROVE Silent(B(f), m)
    BY <1>2, <1>4 DEF Silent, Covers
  <1>5. /\ IsList(s1) /\ \A j \in DOMAIN s1 : Clean(l, s1[j].p)
        /\ \A m, want : /\ ServedBy(B("windows"), m, want) => ServedBy(s1, m, want)
                        /\ Silent(B("windows"), m) /\ ServedBy(B("macos"), m, want) => ServedBy(s1, m, want)
                        /\ Silent(B("windows"), m) /\ Silent(B("macos"), m) => Silent(s1, m)
    <2>1. IsList(B("windows")) /\ IsList(B("macos"))
      BY <1>1, <1>2
    <2>2. /\ \A j \in DOMAIN B("windows") : Clean(l, B("windows")[j].p)
          /\ \A j \in DOMAIN B("macos") : Clean(l, B("macos")[j].p)
      BY <1>1, <1>2
    <2>3. QED  BY <2>1, <2>2, JoinedIs, ConcatServes
  <1>6. /\ IsList(s) /\ \A j \in DOMAIN s : Clean(l, s[j].p)
        /\ \A m, want : /\ ServedBy(s1, m, want) => ServedBy(s, m, want)
                        /\ Silent(s1, m) /\ ServedBy(B("linux"), m, want) => ServedBy(s, m, want)
    <2>1. IsList(B("linux")) /\ \A j \in DOMAIN B("linux") : Clean(l, B("linux")[j].p)
      BY <1>1, <1>2
    <2> HIDE DEF s1
    <2>2. QED  BY <1>5, <2>1, JoinedIs, ConcatServes
  <1> HIDE DEF s, s1
  <1>7. ASSUME NEW m, NEW i, Asked(m, i) PROVE ServedBy(s, m, Want(m, i))
    <2>1. m.family \in {"windows", "macos", "linux"}
      BY <1>7, FamiliesAre DEF OnPlatform
    <2>2. ServedBy(B(m.family), m, Want(m, i))
      BY <1>2, <1>7, <2>1, FamiliesAre
    <2> HIDE DEF Asked
    <2>3. CASE m.family = "windows"
      BY <1>5, <1>6, <2>2, <2>3
    <2>4. CASE m.family = "macos"
      <3>1. Silent(B("windows"), m)
        BY <1>1, <1>4, <2>4
      <3>2. QED  BY <1>5, <1>6, <2>2, <2>4, <3>1
    <2>5. CASE m.family = "linux"
      <3>1. Silent(B("windows"), m) /\ Silent(B("macos"), m)
        BY <1>1, <1>4, <2>5
      <3>2. QED  BY <1>5, <1>6, <2>2, <2>5, <3>1
    <2>6. QED  BY <2>1, <2>3, <2>4, <2>5
  <1>8. QED  BY <1>3, <1>6, <1>7 DEF Want
-----------------------------------------------------------------------------
(* The targets of a plan *)

IsApp(app) ==
    app \in [runtime : {app.runtime}, named : {app.named}, select : {app.select}, range : {app.range},
             tools : {app.tools}, install : {app.install}, installs : {app.installs},
             package : {app.package}, prereqs : {app.prereqs}, platforms : {app.platforms}]

\* What is best does not depend on the platforms an app is asked for.
SameWork(app, other) ==
    /\ app.runtime = other.runtime /\ app.named = other.named /\ app.select = other.select
    /\ app.range = other.range /\ app.tools = other.tools /\ app.installs = other.installs

LEMMA SameApp ==
    ASSUME NEW app, NEW other, SameWork(app, other), NEW c, NEW lists, NEW l, NEW a, NEW o
    PROVE  /\ \A cond : ForApp(cond, app) = ForApp(cond, other)
           /\ Best(c, lists, l, a, o, app) = Best(c, lists, l, a, o, other)
  <1>1. \A cond : ForApp(cond, app) = ForApp(cond, other)
    BY DEF ForApp, SameWork
  <1> DEFINE id == app.runtime
             rt == c.runtimes[id]
             picks == Companions(c, lists, l, o)
             n == Depth(c)
  <1>2. other.runtime = id
    BY DEF SameWork
  <1>3. ASSUME NEW e PROVE RecipeFor(c, rt, e, o, app) = RecipeFor(c, rt, e, o, other)
    <2>1. \A r : Supported(c, rt, r, e, o, app) = Supported(c, rt, r, e, o, other)
      <3>1. \A r, extras : SupportedWith(c, r, e, app, extras) = SupportedWith(c, r, e, other, extras)
        <4> SUFFICES ASSUME NEW r, NEW extras
                     PROVE  SupportedWith(c, r, e, app, extras) = SupportedWith(c, r, e, other, extras)
          OBVIOUS
        <4>1. (\A x \in extras : x.ok /\ ForApp(x.for, app)) <=> (\A x \in extras : x.ok /\ ForApp(x.for, other))
          BY <1>1
        <4>2. QED  BY <4>1, Zenon DEF SupportedWith
      <3>2. QED  BY <3>1 DEF Supported
    <2>2. \A r : RecipeMatches(r, e, app) = RecipeMatches(r, e, other)
      BY DEF RecipeMatches, SameWork
    <2>3. \A sup : RecipeWith(c, rt, e, app, sup) = RecipeWith(c, rt, e, other, sup)
      BY <2>2 DEF RecipeWith
    <2>4. [i \in DOMAIN rt.recipes |-> Supported(c, rt, rt.recipes[i], e, o, app)]
          = [i \in DOMAIN rt.recipes |-> Supported(c, rt, rt.recipes[i], e, o, other)]
      BY <2>1
    <2> HIDE DEF rt
    <2>5. QED  BY <2>3, <2>4 DEF RecipeFor
  <1>4. ASSUME NEW e PROVE PrereqsFor(c, rt, e, o, app) = PrereqsFor(c, rt, e, o, other)
    BY <1>1 DEF PrereqsFor
  <1>5. RequiredBy(rt, o.family, app) = RequiredBy(rt, o.family, other)
    BY <1>1 DEF RequiredBy
  <1>6. SelectFor(c, app, o) = SelectFor(c, other, o)
    BY DEF SelectFor, SameWork
  <1> HIDE DEF picks, n
  <1>7. ASSUME NEW e PROVE OptionOf(c, l, o, app, picks, n, e) = OptionOf(c, l, o, other, picks, n, e)
    <2> DEFINE needs(req) == {[runtime |-> q.runtime, p |-> picks[<<n, q, e.arch>>]] : q \in req}
    <2>1. \A x : x.runtime = id => OptionOf(c, l, o, x, picks, n, e) =
              Option(e, o, SelectFor(c, x, o), l, RunsOn(c, rt, e, o), RecipeFor(c, rt, e, o, x),
                     needs(RequiredBy(rt, o.family, x)), PrereqsFor(c, rt, e, o, x))
      BY DEF OptionOf
    <2> HIDE DEF needs, rt, id
    <2>2. QED  BY <1>2, <1>3, <1>4, <1>5, <1>6, <2>1 DEF id
  <1>8. \A cands : BestOf(c, l, o, app, picks, n, cands) = BestOf(c, l, o, other, picks, n, cands)
    <2> SUFFICES ASSUME NEW cands
                 PROVE  BestOf(c, l, o, app, picks, n, cands) = BestOf(c, l, o, other, picks, n, cands)
      OBVIOUS
    <2>1. [i \in DOMAIN cands |-> OptionOf(c, l, o, app, picks, n, cands[i])]
          = [i \in DOMAIN cands |-> OptionOf(c, l, o, other, picks, n, cands[i])]
      BY <1>7
    <2>2. QED  BY <2>1 DEF BestOf
  <1>9. Best(c, lists, l, a, o, app) = Best(c, lists, l, a, o, other)
    BY <1>2, <1>8 DEF Best, picks, n
  <1>10. QED  BY <1>1, <1>9

LEMMA PlatformsApart ==
    ASSUME NEW app, IsApp(app), NEW fs
    PROVE  LET x == [app EXCEPT !.platforms = fs] IN
           /\ IsApp(x) /\ x.platforms = fs /\ x.prereqs = app.prereqs /\ SameWork(x, app)
           /\ \A c, f : /\ SameWork(OnFamily(c, x, f), OnFamily(c, app, f))
                        /\ OnFamily(c, x, f).runtime = Via(c, app.runtime, f)
  <1> DEFINE x == [app EXCEPT !.platforms = fs]
  <1>1. x \in [runtime : {app.runtime}, named : {app.named}, select : {app.select}, range : {app.range},
               tools : {app.tools}, install : {app.install}, installs : {app.installs},
               package : {app.package}, prereqs : {app.prereqs}, platforms : {fs}]
    BY DEF IsApp
  <1> HIDE DEF x
  <1>2. IsApp(x) /\ x.platforms = fs /\ x.prereqs = app.prereqs /\ SameWork(x, app)
    BY <1>1 DEF IsApp, SameWork
  <1>3. ASSUME NEW c, NEW f, NEW y, IsApp(y)
        PROVE  /\ OnFamily(c, y, f).runtime = Via(c, y.runtime, f)
               /\ OnFamily(c, y, f).named = y.named /\ OnFamily(c, y, f).select = y.select
               /\ OnFamily(c, y, f).range = y.range /\ OnFamily(c, y, f).tools = y.tools
               /\ OnFamily(c, y, f).installs = y.installs
    BY <1>3 DEF OnFamily, IsApp
  <1>4. ASSUME NEW c, NEW f
        PROVE  /\ SameWork(OnFamily(c, x, f), OnFamily(c, app, f))
               /\ OnFamily(c, x, f).runtime = Via(c, app.runtime, f)
    BY <1>2, <1>3 DEF SameWork
  <1>5. QED  BY <1>2, <1>4 DEF x

\* The targets are the blocks' own.
LEMMA TargetFits ==
    ASSUME NEW app, NEW b, NEW m PROVE Fits(Target(app, b), m) <=> Covers(b, m)
  <1>1. Target(app, b).when = When(b)
    BY DEF Target, Refusal, Serves
  <1>2. QED  BY <1>1 DEF Fits, When, Covers

LEMMA FirstFits ==
    ASSUME NEW s, IsList(s), NEW app, NEW m, NEW want, ServedBy(s, m, want)
    PROVE  LET plan == [i \in DOMAIN s |-> Target(app, s[i])] IN
           /\ Fitting(plan, m) # {}
           /\ \E j \in DOMAIN s : /\ SelectTarget(plan, m) = Target(app, s[j])
                                  /\ Covers(s[j], m) /\ GivesBest(s[j].p, want)
  <1> DEFINE plan == [i \in DOMAIN s |-> Target(app, s[i])]
             fit == Fitting(plan, m)
  <1>1. Len(s) \in Nat /\ DOMAIN s = 1..Len(s)
    BY ListDomain
  <1>2. PICK j \in DOMAIN s : /\ Covers(s[j], m) /\ GivesBest(s[j].p, want)
                              /\ \A i \in DOMAIN s : i < j => ~Covers(s[i], m)
    BY DEF ServedBy
  <1>3. fit = {i \in DOMAIN s : Covers(s[i], m)}
    <2>1. \A i \in DOMAIN s : Fits(plan[i], m) <=> Covers(s[i], m)
      BY TargetFits
    <2>2. DOMAIN plan = DOMAIN s
      OBVIOUS
    <2> HIDE DEF plan
    <2>3. QED  BY <2>1, <2>2 DEF Fitting
  <1>4. fit \in SUBSET Nat /\ j \in fit
    BY <1>1, <1>2, <1>3
  <1>5. SelectTarget(plan, m) = plan[Min(fit)]
    BY <1>4 DEF SelectTarget, FirstAt
  <1> HIDE DEF fit
  <1>6. Min(fit) \in fit /\ \A y \in fit : Min(fit) <= y
    BY <1>4, MinIsLeast
  <1>7. Min(fit) = j
    <2> DEFINE k == Min(fit)
    <2>1. k \in DOMAIN s /\ Covers(s[k], m) /\ k <= j
      BY <1>3, <1>4, <1>6
    <2> HIDE DEF k
    <2>2. ~(k < j)
      BY <1>2, <2>1
    <2>3. k = j
      BY <1>1, <2>1, <2>2
    <2>4. QED  BY <2>3 DEF k
  <1>8. SelectTarget(plan, m) = Target(app, s[j])
    BY <1>5, <1>7
  <1> HIDE DEF plan
  <1>9. fit # {} /\ \E i \in DOMAIN s : /\ SelectTarget(plan, m) = Target(app, s[i])
                                        /\ Covers(s[i], m) /\ GivesBest(s[i].p, want)
    BY <1>2, <1>4, <1>8
  <1>10. QED  BY <1>9 DEF fit, plan

\* A block that brings the best makes a target that does, or that says why not.
LEMMA TargetServes ==
    ASSUME NEW app, NEW other, SameWork(app, other), NEW b, NEW m, Covers(b, m), NEW want, GivesBest(b.p, want)
    PROVE  ServesBest(other, Target(app, b), m, want)
  <1> DEFINE rt == The.runtimes[app.runtime]
             t == Target(app, b)
             x == [family |-> m.family, p |-> want]
  <1>1. other.runtime = app.runtime /\ b.family = m.family
    BY DEF SameWork, Covers
  <1>2. CASE want = None
    <2>1. b.p = None
      BY <1>2 DEF GivesBest
    <2>2. t.fail \in {"nothing", "withdrawn"}
      BY <2>1 DEF Target, Refusal
    <2>3. QED  BY <1>2, <2>2 DEF ServesBest
  <1>3. CASE want # None
    <2>1. b.p # None /\ Gets(b.p) = Gets(want)
      BY <1>3 DEF GivesBest
    <2>2. b.p.rel = want.rel
      BY <2>1 DEF Gets
    <2>3. Unsupported(rt, app, b) <=> Unsupported(rt, other, x)
      <3>1. x.family = b.family /\ x.p = want
        BY <1>1
      <3>2. \A cond : ForApp(cond, app) = ForApp(cond, other)
        BY SameApp
      <3> HIDE DEF x, rt
      <3>3. QED  BY <2>2, <3>1, <3>2 DEF Unsupported
    <2>4. CASE Unsupported(rt, app, b)
      <3>1. t.fail = "unsupported"
        BY <2>1, <2>4 DEF Target, Refusal
      <3>2. Unsupported(The.runtimes[other.runtime], other, x)
        BY <1>1, <2>3, <2>4
      <3>3. QED  BY <1>3, <3>1, <3>2 DEF ServesBest
    <2>5. CASE ~Unsupported(rt, app, b)
      <3>1. t.fail = None /\ t.pick = b.p
        BY <2>1, <2>5 DEF Target, Serves
      <3>2. ~Unsupported(The.runtimes[other.runtime], other, x)
        BY <1>1, <2>3, <2>5
      <3> HIDE DEF t
      <3>3. QED  BY <1>3, <2>1, <3>1, <3>2 DEF ServesBest, t
    <2>6. QED  BY <2>4, <2>5
  <1>4. QED  BY <1>2, <1>3
-----------------------------------------------------------------------------
(* The plan of an app *)

\* A computer the catalogue knows has one of its versions.
LEMMA KnownAt ==
    ASSUME NEW m \in Computers, cat \in DOMAIN Catalogues, Known(m)
    PROVE  \E i : /\ Has(m, i, The.os[m.family], m.family, m.arch)
                  /\ OSOf(m) = The.os[m.family][i] /\ m.arch \in The.os[m.family][i].arches
  <1> DEFINE scale == The.os[m.family]
             ok == {i \in DOMAIN scale : ~OlderThan(m, scale[i])}
  <1>1. OSOf(m) = FirstAt(scale, ok)
    BY DEF OSOf, FirstWhere
  <1>2. GoodScale(scale, m.family) /\ GoodComputer(m, scale)
    BY CatalogueAssumption, ComputerAssumption DEF GoodCatalogue, GoodComputer, The
  <1>3. DOMAIN scale = 1..Len(scale) /\ Len(scale) \in Nat
    BY <1>2 DEF GoodScale
  <1>4. ok # {} /\ ok \in SUBSET Nat
    <2>1. OSOf(m) # None
      BY DEF Known
    <2>2. ok # {}
      <3> HIDE DEF ok, scale
      <3>1. QED  BY <1>1, <2>1 DEF FirstAt
    <2>3. ok \in SUBSET Nat
      <3> HIDE DEF scale
      <3>1. QED  BY <1>3
    <2>4. QED  BY <2>2, <2>3
  <1> DEFINE i == Min(ok)
  <1>5. i \in ok /\ \A j \in ok : i <= j
    <2> HIDE DEF ok
    <2>1. QED  BY <1>4, MinIsLeast
  <1>6. OSOf(m) = scale[i]
    BY <1>1, <1>4 DEF FirstAt
  <1> HIDE DEF i
  <1>7. At(scale, m, i)
    <2> SUFFICES ASSUME NEW j \in DOMAIN scale, j < i PROVE OlderThan(m, scale[j])
      BY <1>5 DEF At
    <2>1. ~(i <= j)
      BY <1>3, <1>5
    <2>2. QED  BY <1>5, <2>1
  <1> HIDE DEF scale, ok
  <1>8. m.arch \in scale[i].arches
    BY <1>6 DEF Known
  <1>9. Has(m, i, scale, m.family, m.arch)
    BY <1>2, <1>7 DEF Has
  <1>10. QED  BY <1>6, <1>8, <1>9 DEF scale
LEMMA RightLists ==
    ASSUME NEW c, NEW memo, MemoIsRight(memo), NEW l, NEW f
    PROVE  ListsFor(c, memo, l, f) = ListsFor(c, <<>>, l, f)
  <1>1. MemoIsRight(<<>>)
    BY EmptyList DEF MemoIsRight
  <1> DEFINE lists == [id \in DOMAIN c.runtimes |-> [a \in Arches |-> CandidatesUncached(c, l, id, f, a)]]
  <1>2. ListsFor(c, memo, l, f) = lists
    BY ListsAre
  <1> DEFINE none == <<>>
  <1>3. MemoIsRight(none)
    BY <1>1
  <1> HIDE DEF none
  <1>4. ListsFor(c, none, l, f) = lists
    BY <1>3, ListsAre
  <1>5. QED  BY <1>2, <1>4 DEF none

\* A plan has a target for each computer the catalogue knows, which is one of
\* a block that brings what is best for it.
LEMMA PlanServes ==
    ASSUME cat \in DOMAIN Catalogues, MemoIsRight(remembered),
           NEW app, IsApp(app), app.runtime \in DOMAIN The.runtimes, NEW fs
    PROVE  LET plan == PlanFor(app, fs)
               x == [app EXCEPT !.platforms = fs]
           IN  /\ IsList(plan.blocks) /\ \A j \in DOMAIN plan.blocks : Clean(list, plan.blocks[j].p)
               /\ plan.targets = [j \in DOMAIN plan.blocks |-> Target(x, plan.blocks[j])]
               /\ \A m \in Computers : m.family \in fs /\ Known(m) =>
                    /\ Fitting(plan.targets, m) # {}
                    /\ \E j \in DOMAIN plan.blocks : /\ SelectTarget(plan.targets, m) = Target(x, plan.blocks[j])
                                                     /\ Covers(plan.blocks[j], m)
                    /\ ServesBest(app, SelectTarget(plan.targets, m), m,
                                  BestFor(app, ListsFor(The, <<>>, list, m.family), list, m))
  <1> DEFINE plan == PlanFor(app, fs)
             x == [app EXCEPT !.platforms = fs]
             s == Blocks(The, remembered, list, x)
             want(m) == BestFor(app, ListsFor(The, <<>>, list, m.family), list, m)
  <1>1. GoodCatalogue(The)
    BY CatalogueAssumption DEF The
  <1>2. /\ x.platforms = fs /\ SameWork(x, app)
        /\ \A c, f : /\ SameWork(OnFamily(c, x, f), OnFamily(c, app, f))
                     /\ OnFamily(c, x, f).runtime = Via(c, app.runtime, f)
    BY PlatformsApart
  <1> HIDE DEF x
  <1>3. x.runtime \in DOMAIN The.runtimes /\ x.runtime = app.runtime
    BY <1>2 DEF SameWork
  <1>4. \A f \in ToSet(Families) : OnFamily(The, x, f).runtime = Via(The, x.runtime, f)
    BY <1>2, <1>3
  <1>5. /\ IsList(s) /\ \A j \in DOMAIN s : Clean(list, s[j].p)
        /\ \A m, i : OnPlatform(The, x, m, i) =>
              ServedBy(s, m, ForBuild(Best(The, ListsFor(The, remembered, list, m.family), list, m.arch,
                                           The.os[m.family][i], OnFamily(The, x, m.family)), m.build))
    BY <1>1, <1>3, <1>4, BlocksServe
  <1>6. plan.blocks = s /\ plan.targets = [j \in DOMAIN s |-> Target(x, s[j])]
    BY DEF PlanFor, PlanOn, PlanOf, x
  <1> HIDE DEF s
  <1>7. ASSUME NEW m \in Computers, m.family \in fs, Known(m)
        PROVE  ServedBy(s, m, want(m))
    <2>1. PICK i : /\ Has(m, i, The.os[m.family], m.family, m.arch)
                   /\ OSOf(m) = The.os[m.family][i] /\ m.arch \in The.os[m.family][i].arches
      BY <1>7, KnownAt
    <2>2. m.family \in ToSet(Families)
      BY ComputerAssumption
    <2>3. OnPlatform(The, x, m, i)
      BY <1>2, <1>7, <2>1, <2>2 DEF OnPlatform, AnyOf
    <2> DEFINE lists == ListsFor(The, <<>>, list, m.family)
               y == OnFamily(The, x, m.family)
               z == OnFamily(The, app, m.family)
    <2>4. ListsFor(The, remembered, list, m.family) = lists
      BY RightLists
    <2>5. SameWork(y, z)
      BY <1>2
    <2>6. want(m) = ForBuild(Best(The, lists, list, m.arch, OSOf(m), z), m.build)
      BY DEF BestFor, BestOn, OnFamily
    <2> HIDE DEF lists, y, z, want
    <2>7. Best(The, lists, list, m.arch, OSOf(m), y) = Best(The, lists, list, m.arch, OSOf(m), z)
      BY <2>5, SameApp
    <2>8. ServedBy(s, m, ForBuild(Best(The, lists, list, m.arch, OSOf(m), y), m.build))
      BY <1>5, <2>1, <2>3, <2>4 DEF y
    <2>9. QED  BY <2>6, <2>7, <2>8
  <1> HIDE DEF want
  <1>8. ASSUME NEW m \in Computers, m.family \in fs, Known(m)
        PROVE  /\ Fitting(plan.targets, m) # {}
               /\ \E j \in DOMAIN s : SelectTarget(plan.targets, m) = Target(x, s[j]) /\ Covers(s[j], m)
               /\ ServesBest(app, SelectTarget(plan.targets, m), m, want(m))
    <2> DEFINE targets == [j \in DOMAIN s |-> Target(x, s[j])]
               w == want(m)
    <2>1. ServedBy(s, m, w)
      BY <1>7, <1>8
    <2> HIDE DEF w
    <2>2. /\ Fitting(targets, m) # {}
          /\ \E j \in DOMAIN s : /\ SelectTarget(targets, m) = Target(x, s[j])
                                 /\ Covers(s[j], m) /\ GivesBest(s[j].p, w)
      BY <1>5, <2>1, FirstFits
    <2> HIDE DEF targets
    <2>3. PICK j \in DOMAIN s : /\ SelectTarget(targets, m) = Target(x, s[j])
                                /\ Covers(s[j], m) /\ GivesBest(s[j].p, w)
      BY <2>2
    <2>4. ServesBest(app, Target(x, s[j]), m, w)
      BY <1>2, <2>3, TargetServes
    <2>5. plan.targets = targets
      BY <1>6 DEF targets
    <2> HIDE DEF plan
    <2>6. QED  BY <2>2, <2>3, <2>4, <2>5 DEF w
  <1> HIDE DEF plan
  <1>9. QED  BY <1>5, <1>6, <1>8 DEF plan, x, want
-----------------------------------------------------------------------------
(* What a build is to be *)

Served(mk) ==
    /\ ~mk.missing
    /\ LET lists == [f \in ToSet(Families) |-> ListsFor(The, <<>>, mk.list, f)]
       IN  \A i \in mk.of, m \in Computers :
              i.plan # <<>> /\ m.family \in i.families /\ Known(m) =>
                /\ Fitting(i.plan, m) # {}
                /\ ServesBest(mk.app, SelectTarget(i.plan, m), m,
                              BestFor(mk.app, lists[m.family], mk.list, m))

\* Somebody ticked the system the computer has.
TickedFor(form, m) ==
    \E x \in Ticked(form) : /\ FamilyOf(x[1]) = m.family /\ x[2] = m.arch
                            /\ TargetOS(x[1]) = {} \/ m.int \in TargetOS(x[1])
Packed(mk, i, m) ==
    m.family \in i.families /\ Known(m) /\ (host = "page" => TickedFor(mk.form, m)) =>
        /\ Fitting(i.plan, m) # {} /\ SelectTarget(i.plan, m).downloads \subseteq i.files
        /\ \A d \in SelectTarget(i.plan, m).downloads : d.sha \notin mk.list

LEMMA ServedIs == PlanServesMachines <=> (made # None => Served(made))
  BY Zenon DEF PlanServesMachines, Served

LEMMA PackedIs ==
    PackServesTicked <=>
        (made # None => \A i \in {j \in made.of : j.offline} :
                            /\ i.source \/ made.form.source = "package"
                            /\ \A m \in Computers : Packed(made, i, m))
  BY Zenon DEF PackServesTicked, Packed, TickedFor

\* A form that is no problem to a host that finds it valid.
GoodForm(form) == form \in Forms /\ ~FormProblem(form) /\ Valid(form)

GoodMade(mk) ==
    /\ mk \in [form : {mk.form}, app : {mk.app}, list : {mk.list}, missing : {mk.missing}, of : {mk.of}]
    /\ GoodForm(mk.form) /\ mk.app = App(mk.form)

\* The memo has, for a key, the list the key is of, whatever is withdrawn
\* since; and what is made is of a form the host finds valid.
PlansInv ==
    /\ cat \in DOMAIN Catalogues /\ host \in {"page", "server"}
    /\ MemoIsRight(remembered)
    /\ made # None => GoodMade(made)

LEMMA UnchangedStep ==
    ASSUME cat' = cat, host' = host, made' = made
    PROVE  /\ PlanServesMachines => PlanServesMachines'
           /\ PackServesTicked => PackServesTicked'
  <1>1. The' = The
    BY DEF The
  <1>2. \A m : OSOf(m)' = OSOf(m)
    BY <1>1 DEF OSOf, FirstWhere
  <1>3. \A m : Known(m)' <=> Known(m)
    BY <1>2 DEF Known
  <1>4. \A app, lists, l, m : BestFor(app, lists, l, m)' = BestFor(app, lists, l, m)
    BY <1>1, <1>2 DEF BestFor, BestOn
  <1>5. \A app, t, m, best : ServesBest(app, t, m, best)' <=> ServesBest(app, t, m, best)
    BY <1>1 DEF ServesBest
  <1>6. PlanServesMachines => PlanServesMachines'
    BY <1>1, <1>3, <1>4, <1>5 DEF PlanServesMachines
  <1>7. PackServesTicked => PackServesTicked'
    BY <1>3 DEF PackServesTicked
  <1>8. QED  BY <1>6, <1>7

LEMMA AppIsApp == ASSUME NEW form PROVE IsApp(App(form)) /\ App(form).runtime = form.runtime
  <1> DEFINE install == ProjectInstall(The.runtimes[form.runtime], form)
             installs == form.source = "package" \/ install # None
             package == form.source = "package"
  <1>1. App(form) = [runtime |-> form.runtime, named |-> form.runtime, select |-> form.select, range |-> form.range,
                     tools |-> form.tools, install |-> install, installs |-> installs,
                     package |-> package, prereqs |-> form.prereqs, platforms |-> {}]
    BY Zenon DEF App
  <1> HIDE DEF install, installs, package
  <1>2. QED  BY <1>1 DEF IsApp

\* The folders that a build unpacks hold all the runtimes its plans ask for.
LEMMA NoneMissing ==
    ASSUME cat \in DOMAIN Catalogues, NEW id \in DOMAIN The.runtimes, NEW app, app.runtime = id,
           NEW fs \in SUBSET ToSet(Families)
    PROVE  Reached(app, fs) \subseteq RuntimeNeeds({id})
  <1> DEFINE all == DOMAIN The.runtimes
             next == [x \in all |-> NextTo(x)]
             needs == RuntimeNeeds({id})
             req(f) == [x \in all |-> {q.runtime : q \in The.runtimes[x].requires[f]}]
  <1>1. ASSUME NEW x \in all PROVE NextTo(x) \in SUBSET all
    <2>1. GoodRuntime(The, The.runtimes[x])
      BY CatalogueAssumption DEF GoodCatalogue, The
    <2>2. \A f \in DOMAIN The.runtimes[x].via : The.runtimes[x].via[f] \in all
      BY <2>1 DEF GoodRuntime
    <2>3. \A f \in DOMAIN The.runtimes[x].requires : \A q \in The.runtimes[x].requires[f] : q.runtime \in all
      BY <2>1 DEF GoodRuntime
    <2>4. QED  BY <2>2, <2>3 DEF NextTo
  <1>2. needs = {x \in all : \A S \in SUBSET all : {id} \subseteq S /\ (\A y \in S : next[y] \subseteq S) => x \in S}
    BY Zenon DEF RuntimeNeeds, Closure
  <1>3. needs \in SUBSET all /\ id \in needs
    BY <1>2
  <1>4. ASSUME NEW x \in needs PROVE NextTo(x) \subseteq needs
    <2>1. next[x] = NextTo(x) /\ NextTo(x) \in SUBSET all
      BY <1>1, <1>3
    <2> HIDE DEF next
    <2>2. ASSUME NEW y \in next[x], NEW S \in SUBSET all, {id} \subseteq S, \A z \in S : next[z] \subseteq S
          PROVE  y \in S
      <3>1. x \in S
        BY <1>2, <2>2
      <3>2. QED  BY <2>2, <3>1
    <2> HIDE DEF needs
    <2>3. QED  BY <1>2, <2>1, <2>2
  <1> HIDE DEF next, needs
  <1>5. ASSUME NEW f \in fs PROVE Closure({Via(The, app.runtime, f)}, req(f)) \subseteq needs
    <2>1. \A x \in all : GoodRuntime(The, The.runtimes[x])
      BY CatalogueAssumption DEF GoodCatalogue, The
    <2>2. Via(The, app.runtime, f) \in NextTo(id)
      <3>1. f \in DOMAIN The.runtimes[id].via
        BY <2>1 DEF GoodRuntime
      <3>2. QED  BY <3>1 DEF NextTo, Via
    <2>3. ASSUME NEW x \in needs PROVE req(f)[x] \subseteq needs
      <3>1. f \in DOMAIN The.runtimes[x].requires
        BY <1>3, <2>1 DEF GoodRuntime
      <3>2. req(f)[x] = {q.runtime : q \in The.runtimes[x].requires[f]}
        BY <1>3
      <3>3. {q.runtime : q \in The.runtimes[x].requires[f]} \subseteq NextTo(x)
        BY <3>1 DEF NextTo
      <3> HIDE DEF req
      <3>4. QED  BY <1>4, <3>2, <3>3
    <2>4. {Via(The, app.runtime, f)} \subseteq needs
      BY <1>3, <1>4, <2>2
    <2> HIDE DEF req
    <2>5. QED  BY <1>3, <2>3, <2>4 DEF Closure
  <1> HIDE DEF req
  <1>6. Reached(app, fs) = {app.runtime} \cup UNION {Closure({Via(The, app.runtime, f)}, req(f)) : f \in fs}
    BY Zenon DEF Reached, req
  <1>7. Reached(app, fs) \subseteq needs
    BY <1>3, <1>5, <1>6
  <1>8. QED  BY <1>7 DEF needs

\* A target brings nothing, or all its block is of.
LEMMA TargetBrings ==
    ASSUME NEW app, NEW b
    PROVE  Target(app, b).downloads = {} \/ (b.p # None /\ Target(app, b).downloads = BlockFiles(b.p))
  BY DEF Target, Refusal, Serves

\* One platform's installer has what is best for a computer, and all of it if
\* it is to be of use offline.
LEMMA InstallerServes ==
    ASSUME PlansInv, NEW form, GoodForm(form), NEW f \in form.platforms
    PROVE  LET i == Installer(form, App(form), f) IN
           /\ i.offline => i.source \/ form.source = "package"
           /\ i.offline <=> Offline(form)
           /\ i.families = {f}
           /\ \A m \in Computers : i.plan # <<>> /\ m.family = f /\ Known(m) =>
                /\ Fitting(i.plan, m) # {}
                /\ ServesBest(App(form), SelectTarget(i.plan, m), m,
                              BestFor(App(form), ListsFor(The, <<>>, list, f), list, m))
           /\ i.offline => \A m \in Computers : m.family = f /\ Known(m) =>
                /\ Fitting(i.plan, m) # {}
                /\ \A d \in SelectTarget(i.plan, m).downloads : d.sha \notin list
                /\ (host = "page" => TickedFor(form, m)) => SelectTarget(i.plan, m).downloads \subseteq i.files
  <1> DEFINE app == App(form)
             i == Installer(form, app, f)
             plan == PlanFor(app, {f})
             targets == plan.targets
             blocks == plan.blocks
             x == [app EXCEPT !.platforms = {f}]
  <1>1. /\ i.families = {f} /\ i.offline = Offline(form)
        /\ i.plan = IF host = "page" \/ Offline(form) THEN targets ELSE <<>>
        /\ i.files = IF ~Offline(form) THEN {}
                     ELSE IF host = "page" THEN PlanPackFiles(targets, Ticked(form))
                     ELSE PlanFiles(app, blocks)
        /\ i.source <=> (host = "page" \/ Offline(form)) /\ form.source \in {"inline", "upload", "url"}
    BY DEF Installer, InstallerOf
  <1>2. cat \in DOMAIN Catalogues /\ MemoIsRight(remembered) /\ form \in Forms /\ Valid(form)
    BY DEF PlansInv, GoodForm
  <1>3. IsApp(app) /\ app.runtime \in DOMAIN The.runtimes
    BY <1>2, AppIsApp DEF Valid
  <1> HIDE DEF app, i
  <1>4. /\ IsList(blocks) /\ \A j \in DOMAIN blocks : Clean(list, blocks[j].p)
        /\ targets = [j \in DOMAIN blocks |-> Target(x, blocks[j])]
        /\ \A m \in Computers : m.family \in {f} /\ Known(m) =>
             /\ Fitting(targets, m) # {}
             /\ \E j \in DOMAIN blocks : SelectTarget(targets, m) = Target(x, blocks[j]) /\ Covers(blocks[j], m)
             /\ ServesBest(app, SelectTarget(targets, m), m,
                           BestFor(app, ListsFor(The, <<>>, list, m.family), list, m))
    <2> DEFINE fs == {f}
    <2> HIDE DEF fs
    <2>1. LET p == PlanFor(app, fs)
              y == [app EXCEPT !.platforms = fs]
          IN  /\ IsList(p.blocks) /\ \A j \in DOMAIN p.blocks : Clean(list, p.blocks[j].p)
              /\ p.targets = [j \in DOMAIN p.blocks |-> Target(y, p.blocks[j])]
              /\ \A m \in Computers : m.family \in fs /\ Known(m) =>
                   /\ Fitting(p.targets, m) # {}
                   /\ \E j \in DOMAIN p.blocks : /\ SelectTarget(p.targets, m) = Target(y, p.blocks[j])
                                                 /\ Covers(p.blocks[j], m)
                   /\ ServesBest(app, SelectTarget(p.targets, m), m,
                                 BestFor(app, ListsFor(The, <<>>, list, m.family), list, m))
      BY <1>2, <1>3, PlanServes
    <2>2. QED  BY <2>1, Zenon DEF fs
  <1> HIDE DEF plan, x
  <1>5. ASSUME Offline(form) PROVE i.source \/ form.source = "package"
    <2>1. form.source \in {"inline", "github", "url", "upload", "package"}
      BY <1>2, FormAssumption
    <2>2. form.source # "github"
      BY <1>2, <1>5 DEF Valid
    <2>3. QED  BY <1>1, <1>5, <2>1, <2>2
  <1>6. ASSUME NEW m \in Computers, i.plan # <<>>, m.family = f, Known(m)
        PROVE  /\ Fitting(i.plan, m) # {}
               /\ ServesBest(app, SelectTarget(i.plan, m), m,
                             BestFor(app, ListsFor(The, <<>>, list, f), list, m))
    <2>1. i.plan = targets
      BY <1>1, <1>6
    <2>2. QED  BY <1>4, <1>6, <2>1
  <1>7. ASSUME Offline(form), NEW m \in Computers, m.family = f, Known(m)
        PROVE  /\ Fitting(i.plan, m) # {}
               /\ \A d \in SelectTarget(i.plan, m).downloads : d.sha \notin list
               /\ (host = "page" => TickedFor(form, m)) => SelectTarget(i.plan, m).downloads \subseteq i.files
    <2>1. i.plan = targets
      BY <1>1, <1>7
    <2>2. PICK j \in DOMAIN blocks : SelectTarget(targets, m) = Target(x, blocks[j]) /\ Covers(blocks[j], m)
      BY <1>4, <1>7
    <2> DEFINE b == blocks[j]
               t == Target(x, b)
    <2>3. t.downloads = {} \/ (b.p # None /\ t.downloads = BlockFiles(b.p))
      BY TargetBrings
    <2>4. targets[j] = t /\ j \in DOMAIN targets
      BY <1>4, <2>2
    <2>5. Clean(list, b.p)
      BY <1>4
    <2>6. Fits(t, m)
      BY <2>2, TargetFits
    <2> HIDE DEF targets, blocks, b, t
    <2>7. \A d \in t.downloads : d.sha \notin list
      BY <2>3, <2>5 DEF Clean, BlockFiles
    <2>8. ASSUME host = "page", TickedFor(form, m) PROVE t.downloads \subseteq i.files
      <3>1. Wanted(t, Ticked(form))
        BY <2>6, <2>8 DEF Wanted, Fits, TickedFor
      <3>2. i.files = PlanPackFiles(targets, Ticked(form))
        BY <1>1, <1>7, <2>8
      <3>3. QED  BY <2>4, <3>1, <3>2 DEF PlanPackFiles
    <2>9. ASSUME host # "page" PROVE t.downloads \subseteq i.files
      <3>1. i.files = PlanFiles(app, blocks)
        BY <1>1, <1>7, <2>9
      <3>2. b.p # None => BlockFiles(b.p) \subseteq PlanFiles(app, blocks)
        BY DEF PlanFiles, b
      <3>3. QED  BY <2>3, <3>1, <3>2
    <2>10. Fitting(targets, m) # {}
      BY <1>4, <1>7
    <2>11. SelectTarget(i.plan, m) = t
      BY <2>1, <2>2 DEF t, b
    <2>12. QED  BY <2>1, <2>7, <2>8, <2>9, <2>10, <2>11
  <1> HIDE DEF targets, blocks
  <1>8. QED
    <2>1. /\ i.offline => i.source \/ form.source = "package"
          /\ i.offline <=> Offline(form)
          /\ i.families = {f}
          /\ \A m \in Computers : i.plan # <<>> /\ m.family = f /\ Known(m) =>
               /\ Fitting(i.plan, m) # {}
               /\ ServesBest(app, SelectTarget(i.plan, m), m, BestFor(app, ListsFor(The, <<>>, list, f), list, m))
          /\ i.offline => \A m \in Computers : m.family = f /\ Known(m) =>
               /\ Fitting(i.plan, m) # {}
               /\ \A d \in SelectTarget(i.plan, m).downloads : d.sha \notin list
               /\ (host = "page" => TickedFor(form, m)) => SelectTarget(i.plan, m).downloads \subseteq i.files
      BY <1>1, <1>5, <1>6, <1>7
    <2>2. QED  BY <2>1, Zenon DEF i, app

\* What is worked out for a plan is kept under the list it was worked out with.
LEMMA RemembersRight ==
    ASSUME MemoIsRight(remembered), NEW app PROVE MemoIsRight(Remember(app))
  <1>1. ASSUME NEW l, NEW k \in KeysOf(app, l) PROVE k[4] = l
    <2>1. PICK id, f, m : k = CandidatesKey(l, id, f, m)
      BY <1>1 DEF KeysOf
    <2>2. QED  BY <2>1 DEF CandidatesKey, RevokedKey
  <1>2. QED  BY <1>1 DEF Remember, MemoIsRight

LEMMA InitPlansInv == InitPlans => PlansInv
  BY EmptyList DEF InitPlans, PlansInv, MemoIsRight

\* One build serves every computer it is for, and its packs have all they need.
LEMMA BuildServes ==
    ASSUME PlansInv, NEW form, GoodForm(form)
    PROVE  LET mk == Made(form, App(form),
                          ~(Reached(App(form), form.platforms) \subseteq loaded \cup RuntimeNeeds({form.runtime})),
                          [f \in form.platforms |-> Installer(form, App(form), f)])
           IN  /\ GoodMade(mk) /\ Served(mk)
               /\ \A i \in {j \in mk.of : j.offline} :
                    /\ i.source \/ mk.form.source = "package"
                    /\ \A m \in Computers : Packed(mk, i, m)
  <1> DEFINE app == App(form)
             missing == ~(Reached(app, form.platforms) \subseteq loaded \cup RuntimeNeeds({form.runtime}))
             all == [f \in form.platforms |-> Installer(form, app, f)]
             of == IF missing \/ RefusedByRule(The.runtimes[form.runtime], form) THEN {} ELSE Finished(form, all)
             mk == Made(form, app, missing, all)
  <1>1. mk = [form |-> form, app |-> app, list |-> list, missing |-> missing, of |-> of]
    BY DEF Made
  <1>2. /\ form \in Forms /\ Valid(form)
        /\ form.platforms \in SUBSET ToSet(Families) /\ form.runtime \in DOMAIN The.runtimes
    BY FormAssumption DEF GoodForm, Valid
  <1>3. app.runtime = form.runtime
    BY AppIsApp
  <1> HIDE DEF app
  <1>4. ~missing
    <2>1. cat \in DOMAIN Catalogues
      BY DEF PlansInv
    <2>2. Reached(app, form.platforms) \subseteq RuntimeNeeds({form.runtime})
      BY <1>2, <1>3, <2>1, NoneMissing
    <2>3. QED  BY <2>2
  <1>5. \A i \in of : \E f \in form.platforms : i = Installer(form, app, f)
    BY DEF Finished
  <1> HIDE DEF missing, of, mk
  <1>6. /\ mk.form = form /\ mk.app = app /\ mk.list = list /\ mk.missing = missing /\ mk.of = of
        /\ mk \in [form : {mk.form}, app : {mk.app}, list : {mk.list}, missing : {mk.missing}, of : {mk.of}]
    BY <1>1
  <1>7. GoodMade(mk)
    BY <1>6 DEF GoodMade, app
  <1>8. ASSUME NEW i \in of
        PROVE  \E f \in form.platforms :
                 /\ i.offline => i.source \/ form.source = "package"
                 /\ i.families = {f}
                 /\ \A m \in Computers : i.plan # <<>> /\ m.family = f /\ Known(m) =>
                      /\ Fitting(i.plan, m) # {}
                      /\ ServesBest(app, SelectTarget(i.plan, m), m,
                                    BestFor(app, ListsFor(The, <<>>, list, f), list, m))
                 /\ i.offline => \A m \in Computers : m.family = f /\ Known(m) =>
                      /\ Fitting(i.plan, m) # {}
                      /\ \A d \in SelectTarget(i.plan, m).downloads : d.sha \notin list
                      /\ (host = "page" => TickedFor(form, m)) => SelectTarget(i.plan, m).downloads \subseteq i.files
    <2>1. PICK f \in form.platforms : i = Installer(form, app, f)
      BY <1>5
    <2>2. LET j == Installer(form, app, f) IN
          /\ j.offline => j.source \/ form.source = "package"
          /\ j.offline <=> Offline(form)
          /\ j.families = {f}
          /\ \A m \in Computers : j.plan # <<>> /\ m.family = f /\ Known(m) =>
               /\ Fitting(j.plan, m) # {}
               /\ ServesBest(app, SelectTarget(j.plan, m), m,
                             BestFor(app, ListsFor(The, <<>>, list, f), list, m))
          /\ j.offline => \A m \in Computers : m.family = f /\ Known(m) =>
               /\ Fitting(j.plan, m) # {}
               /\ \A d \in SelectTarget(j.plan, m).downloads : d.sha \notin list
               /\ (host = "page" => TickedFor(form, m)) => SelectTarget(j.plan, m).downloads \subseteq j.files
      BY InstallerServes, Zenon DEF app
    <2>3. QED  BY <2>1, <2>2
  <1>9. Served(mk)
    <2> DEFINE lists == [f \in ToSet(Families) |-> ListsFor(The, <<>>, list, f)]
    <2>1. ASSUME NEW i \in of, NEW m \in Computers, i.plan # <<>>, m.family \in i.families, Known(m)
          PROVE  /\ Fitting(i.plan, m) # {}
                 /\ ServesBest(app, SelectTarget(i.plan, m), m, BestFor(app, lists[m.family], list, m))
      <3>1. lists[m.family] = ListsFor(The, <<>>, list, m.family)
        BY ComputerAssumption
      <3> HIDE DEF lists
      <3>2. QED  BY <1>8, <2>1, <3>1
    <2>2. QED  BY <1>4, <1>6, <2>1 DEF Served
  <1>10. ASSUME NEW i \in {j \in of : j.offline}
         PROVE  /\ i.source \/ form.source = "package"
                /\ \A m \in Computers : Packed(mk, i, m)
    BY <1>6, <1>8 DEF Packed
  <1>11. /\ GoodMade(mk) /\ Served(mk)
         /\ \A i \in {j \in mk.of : j.offline} :
              /\ i.source \/ mk.form.source = "package"
              /\ \A m \in Computers : Packed(mk, i, m)
    BY <1>6, <1>7, <1>9, <1>10
  <1>12. QED  BY <1>11 DEF mk, missing, app

\* The server makes the plan of a record anew, from the list it has now.
LEMMA ServeServes ==
    ASSUME PlansInv, made # None, ~made.missing
    PROVE  LET i == [families |-> made.form.platforms, offline |-> FALSE, files |-> {}, source |-> FALSE,
                     plan |-> PlanFor(made.app, made.form.platforms).targets]
               mk == [made EXCEPT !.list = list, !.of = {i}]
           IN  GoodMade(mk) /\ Served(mk) /\ \A j \in mk.of : ~j.offline
  <1> DEFINE fs == made.form.platforms
             app == made.app
             targets == PlanFor(app, fs).targets
             i == [families |-> fs, offline |-> FALSE, files |-> {}, source |-> FALSE, plan |-> targets]
             of == {i}
             mk == [made EXCEPT !.list = list, !.of = of]
  <1>1. /\ GoodMade(made) /\ cat \in DOMAIN Catalogues /\ MemoIsRight(remembered)
        /\ made \in [form : {made.form}, app : {made.app}, list : {made.list},
                     missing : {made.missing}, of : {made.of}]
    BY DEF PlansInv, GoodMade
  <1>2. IsApp(app) /\ app.runtime \in DOMAIN The.runtimes
    BY <1>1, AppIsApp DEF GoodMade, GoodForm, Valid
  <1> HIDE DEF of
  <1>3. mk \in [form : {made.form}, app : {made.app}, list : {list}, missing : {made.missing}, of : {of}]
    BY <1>1
  <1> HIDE DEF mk
  <1>4. /\ mk.form = made.form /\ mk.app = app /\ mk.list = list /\ ~mk.missing /\ mk.of = of
        /\ mk \in [form : {mk.form}, app : {mk.app}, list : {mk.list}, missing : {mk.missing}, of : {mk.of}]
    BY <1>3
  <1>5. GoodMade(mk)
    BY <1>1, <1>4 DEF GoodMade
  <1> HIDE DEF app, fs
  <1>6. \A m \in Computers : m.family \in fs /\ Known(m) =>
             /\ Fitting(targets, m) # {}
             /\ ServesBest(app, SelectTarget(targets, m), m,
                           BestFor(app, ListsFor(The, <<>>, list, m.family), list, m))
    <2>1. LET p == PlanFor(app, fs)
              y == [app EXCEPT !.platforms = fs]
          IN  /\ IsList(p.blocks) /\ \A j \in DOMAIN p.blocks : Clean(list, p.blocks[j].p)
              /\ p.targets = [j \in DOMAIN p.blocks |-> Target(y, p.blocks[j])]
              /\ \A m \in Computers : m.family \in fs /\ Known(m) =>
                   /\ Fitting(p.targets, m) # {}
                   /\ \E j \in DOMAIN p.blocks : /\ SelectTarget(p.targets, m) = Target(y, p.blocks[j])
                                                 /\ Covers(p.blocks[j], m)
                   /\ ServesBest(app, SelectTarget(p.targets, m), m,
                                 BestFor(app, ListsFor(The, <<>>, list, m.family), list, m))
      BY <1>1, <1>2, PlanServes
    <2>2. QED  BY <2>1, Zenon
  <1> HIDE DEF targets
  <1>7. Served(mk)
    <2> DEFINE lists == [f \in ToSet(Families) |-> ListsFor(The, <<>>, list, f)]
    <2>1. ASSUME NEW m \in Computers, m.family \in fs, Known(m)
          PROVE  /\ Fitting(targets, m) # {}
                 /\ ServesBest(app, SelectTarget(targets, m), m, BestFor(app, lists[m.family], list, m))
      <3>1. lists[m.family] = ListsFor(The, <<>>, list, m.family)
        BY ComputerAssumption
      <3> HIDE DEF lists
      <3>2. QED  BY <1>6, <2>1, <3>1
    <2>2. \A j \in of : j.plan = targets /\ j.families = fs
      BY DEF of
    <2>3. QED  BY <1>4, <2>1, <2>2 DEF Served
  <1>8. \A j \in mk.of : ~j.offline
    BY <1>4 DEF of
  <1>9. QED  BY <1>5, <1>7, <1>8 DEF mk, of, app, fs, targets
-----------------------------------------------------------------------------
(* Every step *)

LEMMA MadeStep ==
    ASSUME cat' = cat, host' = host, NEW v, made' = v
    PROVE  /\ Served(v) => PlanServesMachines'
           /\ (\A i \in {j \in v.of : j.offline} :
                  /\ i.source \/ v.form.source = "package"
                  /\ \A m \in Computers : Packed(v, i, m)) => PackServesTicked'
           /\ GoodMade(v) => GoodMade(v)'
  <1>1. The' = The
    BY DEF The
  <1>2. \A m : OSOf(m)' = OSOf(m)
    BY <1>1 DEF OSOf, FirstWhere
  <1>3. \A m : Known(m)' <=> Known(m)
    BY <1>2 DEF Known
  <1>4. \A app, lists, l, m : BestFor(app, lists, l, m)' = BestFor(app, lists, l, m)
    BY <1>1, <1>2 DEF BestFor, BestOn
  <1>5. \A app, t, m, best : ServesBest(app, t, m, best)' <=> ServesBest(app, t, m, best)
    BY <1>1 DEF ServesBest
  <1>6. Served(v) => PlanServesMachines'
    BY <1>1, <1>3, <1>4, <1>5 DEF PlanServesMachines, Served
  <1>7. (\A i \in {j \in v.of : j.offline} : /\ i.source \/ v.form.source = "package"
                                             /\ \A m \in Computers : Packed(v, i, m)) => PackServesTicked'
    BY <1>3 DEF PackServesTicked, Packed, TickedFor
  <1>8. \A form : App(form)' = App(form)
    BY <1>1 DEF App
  <1>9. \A form : Valid(form)' <=> Valid(form)
    BY <1>1 DEF Valid, Modes
  <1>10. GoodMade(v) => GoodMade(v)'
    BY <1>8, <1>9 DEF GoodMade, GoodForm
  <1>11. QED  BY <1>6, <1>7, <1>10

LEMMA StepServes ==
    ASSUME PlansInv, PlanServesMachines, PackServesTicked, [NextPlans]_planVars
    PROVE  PlansInv' /\ PlanServesMachines' /\ PackServesTicked'
  <1>1. cat' = cat /\ host' = host
    BY DEF NextPlans, ChangeList, Serve, Build, BuildWith, planVars
  <1>2. cat' \in DOMAIN Catalogues /\ host' \in {"page", "server"}
    BY <1>1 DEF PlansInv
  <1>3. CASE ChangeList \/ UNCHANGED planVars
    <2>1. made' = made /\ remembered' = remembered
      BY <1>3 DEF ChangeList, planVars
    <2>2. PICK v : v = made
      OBVIOUS
    <2>3. GoodMade(v) => GoodMade(v)'
      BY <1>1, <2>1, <2>2, MadeStep
    <2>4. PlansInv'
      <3>1. v # None => GoodMade(v)
        BY <2>2 DEF PlansInv
      <3>2. MemoIsRight(remembered')
        BY <2>1 DEF PlansInv
      <3>3. (made # None => GoodMade(made))'
        <4>1. made' = v
          BY <2>1, <2>2
        <4>2. (v # None => GoodMade(v))'
          BY <2>3, <3>1
        <4>3. QED  BY <4>1, <4>2 DEF GoodMade, GoodForm
      <3>4. QED  BY <1>2, <3>2, <3>3 DEF PlansInv
    <2>5. QED  BY <1>1, <2>1, <2>4, UnchangedStep
  <1>4. ASSUME NEW v, made' = v, GoodMade(v), Served(v), MemoIsRight(remembered'),
               \A i \in {j \in v.of : j.offline} : /\ i.source \/ v.form.source = "package"
                                                   /\ \A m \in Computers : Packed(v, i, m)
        PROVE  PlansInv' /\ PlanServesMachines' /\ PackServesTicked'
    <2>1. PlanServesMachines' /\ PackServesTicked' /\ GoodMade(v)'
      BY <1>1, <1>4, MadeStep
    <2>2. (made # None => GoodMade(made))'
      BY <1>4, <2>1 DEF GoodMade, GoodForm
    <2>3. QED  BY <1>2, <1>4, <2>1, <2>2 DEF PlansInv
  <1>5. CASE Serve
    <2> DEFINE i == [families |-> made.form.platforms, offline |-> FALSE, files |-> {}, source |-> FALSE,
                     plan |-> PlanFor(made.app, made.form.platforms).targets]
               mk == [made EXCEPT !.list = list, !.of = {i}]
    <2>1. made # None /\ made' = mk /\ remembered' = Remember(made.app)
      BY <1>5, Zenon DEF Serve
    <2>2. ~made.missing
      BY <2>1 DEF PlanServesMachines
    <2>3. GoodMade(mk) /\ Served(mk) /\ \A j \in mk.of : ~j.offline
      BY <2>1, <2>2, ServeServes
    <2>4. MemoIsRight(remembered')
      BY <2>1, RemembersRight DEF PlansInv
    <2> HIDE DEF mk
    <2>5. PICK v : v = mk
      OBVIOUS
    <2>6. QED  BY <1>4, <2>1, <2>3, <2>4, <2>5
  <1>6. ASSUME NEW form \in Forms, Build(form) PROVE PlansInv' /\ PlanServesMachines' /\ PackServesTicked'
    <2> DEFINE mk == Made(form, App(form),
                          ~(Reached(App(form), form.platforms) \subseteq loaded \cup RuntimeNeeds({form.runtime})),
                          [f \in form.platforms |-> Installer(form, App(form), f)])
    <2>1. GoodForm(form) /\ made' = mk /\ remembered' = Remember(App(form))
      BY <1>6, Zenon DEF Build, BuildWith, GoodForm
    <2>2. /\ GoodMade(mk) /\ Served(mk)
          /\ \A i \in {j \in mk.of : j.offline} : /\ i.source \/ mk.form.source = "package"
                                                  /\ \A m \in Computers : Packed(mk, i, m)
      BY <2>1, BuildServes
    <2>3. MemoIsRight(remembered')
      BY <2>1, RemembersRight DEF PlansInv
    <2> HIDE DEF mk
    <2>4. PICK v : v = mk
      OBVIOUS
    <2>5. QED  BY <1>4, <2>1, <2>2, <2>3, <2>4
  <1>7. QED  BY <1>3, <1>5, <1>6 DEF NextPlans

LEMMA PlansHold == SpecPlans => [](PlansInv /\ PlanServesMachines /\ PackServesTicked)
  <1>1. InitPlans => PlansInv /\ PlanServesMachines /\ PackServesTicked
    <2>1. InitPlans => made = None
      BY DEF InitPlans
    <2>2. QED  BY <2>1, InitPlansInv DEF PlanServesMachines, PackServesTicked
  <1>2. PlansInv /\ PlanServesMachines /\ PackServesTicked /\ [NextPlans]_planVars
        => (PlansInv /\ PlanServesMachines /\ PackServesTicked)'
    BY StepServes
  <1>3. QED  BY <1>1, <1>2, PTL DEF SpecPlans
-----------------------------------------------------------------------------
(* Theorems *)

\* Whatever is withdrawn, built and served in whatever order, what the memo has
\* for a key was worked out with the list in that key, and what was made last is
\* of a form its host finds valid (resolve.js candidates and setRevoked,
\* builder.js validate).
THEOREM PlansAreOfTheirList == SpecPlans => []PlansInv
  BY PlansHold, PTL

\* Every computer the catalogue knows finds a target in a plan for its family,
\* the first that fits is what is best for it, and none says it has nothing
\* while something is left.
THEOREM PlansServeMachines == SpecPlans => []PlanServesMachines
  BY PlansHold, PTL

\* An offline installer has all an engine downloads on a computer it was made
\* for, nothing of it withdrawn.
THEOREM PacksServeTicked == SpecPlans => []PackServesTicked
  BY PlansHold, PTL
=============================================================================
