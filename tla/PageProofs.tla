------------------------------ MODULE PageProofs ------------------------------
(***************************************************************************)
(* Proofs about what the pages say and use. The verify page tells the      *)
(* truth, for every file dropped and every answer of a server: which file  *)
(* the rows are of, what a rewritten ledger shows and what a row that      *)
(* reassures stands on (VerifyPage). The catalogue of a page, for any      *)
(* number of tabs, catalogues, folders and replacements: an older one is   *)
(* stored only over one that came while it was being downloaded, and a     *)
(* build mixes catalogues, misses a change or its folder only if its page  *)
(* replaced its catalogue meanwhile (PageCatalogue).                       *)
(*                                                                         *)
(* What a chain of hashes, a tree and a proof compute is defined by        *)
(* recursion. The facts needed of them are found by the least number at    *)
(* which they would fail.                                                  *)
(***************************************************************************)
EXTENDS VerifyPage, PageCatalogue, WellFoundedInduction, TLAPS


(***************************************************************************)
(* Which file the page is about                                            *)
(***************************************************************************)
FileShape(r) ==
    /\ DOMAIN r = {"name", "pc", "derived", "about", "crossed"}
    /\ r.crossed \in BOOLEAN /\ r.derived \in BOOLEAN /\ r.name \in DOMAIN Droppable

\* A file further down the list was being read or asked about when the last one
\* was dropped.
Overtaken(n) == n # Len(dropped) => dropped[n].crossed /\ dropped[Len(dropped)].crossed

DroppedOK ==
    /\ \E S : dropped \in Seq(S)
    /\ \A n \in DOMAIN dropped :
          /\ FileShape(dropped[n])
          /\ Going(n) => Overtaken(n)
          /\ At(n, "paint") \/ At(n, "derive") => FileOf(n).is = "installer"
          /\ At(n, "releases") => FileOf(n).is = "page"

ShownOK ==
    /\ DOMAIN page = {"facts", "ledger", "server"}
    /\ \A x \in {"facts", "ledger", "server"} : page[x] # 0 => page[x] \in DOMAIN dropped
    /\ page.facts # 0 => Overtaken(page.facts) /\ FileOf(page.facts).is = "installer"
    /\ page.ledger # 0 => Overtaken(page.ledger) /\ FileOf(page.ledger).is = "page"
    /\ page.facts # 0 /\ page.server \notin {0, page.facts} => dropped[page.server].crossed

PageInv == DroppedOK /\ ShownOK

LEMMA ShownIsCrossed == PageInv => MixedOnlyWhenCrossed
  BY DEF PageInv, ShownOK, Overtaken, MixedOnlyWhenCrossed

\* One file goes on to where it is at next, as its kind has it.
Goes(n, where) ==
    /\ n \in DOMAIN dropped /\ Going(n)
    /\ DOMAIN dropped' = DOMAIN dropped /\ Len(dropped') = Len(dropped)
    /\ \E S : dropped' \in Seq(S)
    /\ \A m \in DOMAIN dropped : FileShape(dropped'[m]) /\ dropped'[m].name = dropped[m].name /\ dropped'[m].crossed = dropped[m].crossed
    /\ \A m \in DOMAIN dropped \ {n} : dropped'[m].pc = dropped[m].pc
    /\ dropped'[n].pc = where

LEMMA GoingOn ==
    ASSUME PageInv, NEW n \in DOMAIN dropped, Going(n), NEW where, NEW r, FileShape(r), r.pc = where,
           r.name = dropped[n].name, r.crossed = dropped[n].crossed,
           dropped' = [dropped EXCEPT ![n] = r]
    PROVE  Goes(n, where)
  <1>1. PICK S : dropped \in Seq(S)
    BY DEF PageInv, DroppedOK
  <1>2. dropped' \in Seq(S \cup {r}) /\ Len(dropped') = Len(dropped)
    BY <1>1
  <1>3. \A m \in DOMAIN dropped : FileShape(dropped[m])
    BY DEF PageInv, DroppedOK
  <1>4. \A m \in DOMAIN dropped : dropped'[m] = IF m = n THEN r ELSE dropped[m]
    BY <1>1
  <1>5. DOMAIN dropped' = DOMAIN dropped
    OBVIOUS
  <1>6. QED  BY <1>2, <1>3, <1>4, <1>5 DEF Goes

\* Of the page only what such a file may show is changed.
LEMMA GoesKeeps ==
    ASSUME PageInv, NEW n, NEW where, Goes(n, where), DOMAIN page' = {"facts", "ledger", "server"},
           where \in {"paint", "derive"} => FileOf(n).is = "installer",
           where = "releases" => FileOf(n).is = "page",
           \/ page' = page
           \/ page' = [page EXCEPT !.facts = n, !.server = 0] /\ FileOf(n).is = "installer"
           \/ page' = [page EXCEPT !.ledger = n] /\ FileOf(n).is = "page"
           \/ page' = [page EXCEPT !.server = n]
    PROVE  PageInv'
  <1>1. /\ DOMAIN dropped' = DOMAIN dropped /\ \E S : dropped' \in Seq(S)
        /\ \A m \in DOMAIN dropped : FileShape(dropped'[m])
    BY DEF Goes
  <1>2. \A m \in DOMAIN dropped : FileOf(m)' = FileOf(m)
    BY DEF Goes, FileOf
  <1>3. Len(dropped) \in DOMAIN dropped
    <2>1. PICK S : dropped \in Seq(S)
      BY DEF PageInv, DroppedOK
    <2>2. n \in DOMAIN dropped
      BY DEF Goes
    <2>3. QED  BY <2>1, <2>2
  <1>4. \A m \in DOMAIN dropped : Overtaken(m) => Overtaken(m)'
    BY <1>3 DEF Goes, Overtaken
  <1>5. ASSUME NEW m \in DOMAIN dropped
        PROVE  (/\ Going(m) => Overtaken(m)
                /\ At(m, "paint") \/ At(m, "derive") => FileOf(m).is = "installer"
                /\ At(m, "releases") => FileOf(m).is = "page")'
    <2>1. CASE m = n
      BY <1>2, <1>4, <2>1 DEF Goes, Going, At, PageInv, DroppedOK
    <2>2. CASE m # n
      BY <1>2, <1>4, <2>2 DEF Goes, Going, At, PageInv, DroppedOK
    <2>3. QED  BY <2>1, <2>2
  <1>6. DroppedOK'
    BY <1>1, <1>5 DEF DroppedOK
  <1>7. n \in DOMAIN dropped /\ Overtaken(n)'
    BY <1>4 DEF Goes, PageInv, DroppedOK
  <1>8. \A m \in DOMAIN dropped : dropped'[m].crossed = dropped[m].crossed
    BY DEF Goes
  <1>9. ShownOK'
    <2>1. CASE page' = page
      BY <1>1, <1>2, <1>4, <1>8, <2>1 DEF PageInv, ShownOK
    <2>2. CASE page' = [page EXCEPT !.facts = n, !.server = 0] /\ FileOf(n).is = "installer"
      <3>1. page'.facts = n /\ page'.server = 0 /\ page'.ledger = page.ledger
        BY <2>2 DEF PageInv, ShownOK
      <3>2. QED  BY <1>1, <1>2, <1>4, <1>7, <1>8, <2>2, <3>1 DEF PageInv, ShownOK
    <2>3. CASE page' = [page EXCEPT !.ledger = n] /\ FileOf(n).is = "page"
      <3>1. page'.facts = page.facts /\ page'.server = page.server /\ page'.ledger = n
        BY <2>3 DEF PageInv, ShownOK
      <3>2. QED  BY <1>1, <1>2, <1>4, <1>7, <1>8, <2>3, <3>1 DEF PageInv, ShownOK
    <2>4. CASE page' = [page EXCEPT !.server = n]
      <3>1. page'.facts = page.facts /\ page'.server = n /\ page'.ledger = page.ledger
        BY <2>4 DEF PageInv, ShownOK
      <3>2. page.facts # 0 /\ n # page.facts => dropped'[n].crossed
        <4>1. page.facts # 0 => page.facts \in DOMAIN dropped /\ Overtaken(page.facts)
          BY DEF PageInv, ShownOK
        <4>2. Overtaken(n)
          BY <1>7 DEF Goes, PageInv, DroppedOK
        <4>3. QED  BY <1>7, <1>8, <4>1, <4>2 DEF Overtaken
      <3>3. QED  BY <1>1, <1>2, <1>4, <1>7, <1>8, <3>1, <3>2 DEF PageInv, ShownOK
    <2>5. QED  BY <2>1, <2>2, <2>3, <2>4
  <1>10. QED  BY <1>6, <1>9 DEF PageInv

LEMMA MovedGoes ==
    ASSUME PageInv, NEW n \in DOMAIN dropped, Going(n), NEW where, dropped' = Moved(n, where)
    PROVE  Goes(n, where)
  <1> DEFINE r == [dropped[n] EXCEPT !.pc = where]
  <1>1. FileShape(dropped[n])
    BY DEF PageInv, DroppedOK
  <1>2. FileShape(r) /\ r.pc = where /\ r.name = dropped[n].name /\ r.crossed = dropped[n].crossed
    BY <1>1 DEF FileShape
  <1>3. dropped' = [dropped EXCEPT ![n] = r]
    BY DEF Moved
  <1> HIDE DEF r
  <1>4. QED  BY <1>2, <1>3, GoingOn

LEMMA DeriveGoes ==
    ASSUME PageInv, NEW n \in DOMAIN dropped, Derive(n)
    PROVE  Goes(n, "paint")
  <1>1. PICK d \in BOOLEAN : dropped' = [Moved(n, "paint") EXCEPT ![n].derived = d]
    BY DEF Derive
  <1> DEFINE r == [[dropped[n] EXCEPT !.pc = "paint"] EXCEPT !.derived = d]
  <1>2. FileShape(dropped[n]) /\ Going(n)
    BY DEF PageInv, DroppedOK, Derive, At, Going
  <1>3. FileShape(r) /\ r.pc = "paint" /\ r.name = dropped[n].name /\ r.crossed = dropped[n].crossed
    BY <1>2 DEF FileShape
  <1>4. dropped' = [dropped EXCEPT ![n] = r]
    BY <1>1 DEF Moved
  <1> HIDE DEF r
  <1>5. QED  BY <1>2, <1>3, <1>4, GoingOn

LEMMA AboutGoes ==
    ASSUME PageInv, NEW n \in DOMAIN dropped, Going(n), NEW hash, NEW row, About(n, hash, row)
    PROVE  /\ Goes(n, "fresh") \/ Goes(n, "revoked")
           /\ page' = page
  <1>1. PICK where \in {"fresh", "revoked"} : dropped' = [Moved(n, where) EXCEPT ![n].about = hash]
    BY DEF About
  <1> DEFINE r == [[dropped[n] EXCEPT !.pc = where] EXCEPT !.about = hash]
  <1>2. FileShape(dropped[n])
    BY DEF PageInv, DroppedOK
  <1>3. FileShape(r) /\ r.pc = where /\ r.name = dropped[n].name /\ r.crossed = dropped[n].crossed
    BY <1>2 DEF FileShape
  <1>4. dropped' = [dropped EXCEPT ![n] = r]
    BY <1>1 DEF Moved
  <1> HIDE DEF r
  <1>5. Goes(n, where)
    BY <1>3, <1>4, GoingOn
  <1>6. QED  BY <1>5 DEF About

LEMMA DropKeeps == ASSUME PageInv, NEW f \in DOMAIN Files, Drop(f) PROVE PageInv'
  <1> DEFINE k == Len(dropped) + 1
             g == [n \in DOMAIN dropped |-> IF Going(n) THEN [dropped[n] EXCEPT !.crossed = TRUE] ELSE dropped[n]]
             any == \E n \in DOMAIN dropped : Going(n)
             new == [name |-> f, pc |-> "read", derived |-> FALSE, about |-> Nothing, crossed |-> any]
  <1>1. PICK S : dropped \in Seq(S)
    BY DEF PageInv, DroppedOK
  <1>2. /\ dropped' = Append(g, new) /\ page' = [page EXCEPT !.facts = 0, !.ledger = 0]
    BY DEF Drop
  <1>3. PICK b \in BOOLEAN : b <=> any
    <2>1. \/ any <=> TRUE
          \/ any <=> FALSE
      OBVIOUS
    <2>2. QED  BY <2>1
  <1>4. /\ FileShape(new) /\ new.pc = "read" /\ (new.crossed <=> b)
    BY <1>3 DEF FileShape, Files
  <1>5. ASSUME NEW n \in DOMAIN dropped
        PROVE  /\ FileShape(g[n]) /\ g[n].name = dropped[n].name /\ g[n].pc = dropped[n].pc
               /\ dropped[n].crossed => g[n].crossed
               /\ Going(n) => g[n].crossed
    <2>1. FileShape(dropped[n])
      BY DEF PageInv, DroppedOK
    <2>2. CASE Going(n)
      <3>1. g[n] = [dropped[n] EXCEPT !.crossed = TRUE]
        BY <2>2
      <3>2. QED  BY <2>1, <3>1 DEF FileShape
    <2>3. CASE ~Going(n)
      <3>1. g[n] = dropped[n]
        BY <2>3
      <3>2. QED  BY <2>1, <2>3, <3>1
    <2>4. QED  BY <2>2, <2>3
  <1>6. g \in Seq({g[n] : n \in DOMAIN dropped}) /\ Len(g) = Len(dropped) /\ DOMAIN g = DOMAIN dropped
    BY <1>1
  <1> HIDE DEF any, new
  <1>7. any => b
    BY <1>3
  <1> HIDE DEF g
  <1>8. PICK T : g \in Seq(T) /\ new \in T
    <2>1. g \in Seq({g[n] : n \in DOMAIN dropped} \cup {new})
      BY <1>6
    <2>2. QED  BY <2>1
  <1>9. /\ dropped' \in Seq(T) /\ Len(dropped') = k /\ k \in DOMAIN dropped' /\ dropped'[k] = new
        /\ DOMAIN dropped' = DOMAIN dropped \cup {k} /\ k \notin DOMAIN dropped
        /\ \A n \in DOMAIN dropped : dropped'[n] = g[n]
    BY <1>1, <1>2, <1>6, <1>8
  <1>10. ASSUME NEW n \in DOMAIN dropped'
         PROVE  (/\ FileShape(dropped[n])
                 /\ Going(n) => Overtaken(n)
                 /\ At(n, "paint") \/ At(n, "derive") => FileOf(n).is = "installer"
                 /\ At(n, "releases") => FileOf(n).is = "page")'
    <2>1. CASE n = k
      BY <1>4, <1>9, <2>1 DEF Overtaken, At
    <2>2. CASE n \in DOMAIN dropped
      <3>1. /\ FileShape(dropped'[n]) /\ dropped'[n].name = dropped[n].name /\ dropped'[n].pc = dropped[n].pc
            /\ Going(n) => dropped'[n].crossed
        BY <1>5, <1>9, <2>2
      <3>2. Going(n) => dropped'[k].crossed
        BY <1>4, <1>7, <1>9, <2>2 DEF any
      <3>3. /\ At(n, "paint") \/ At(n, "derive") => FileOf(n).is = "installer"
            /\ At(n, "releases") => FileOf(n).is = "page"
        BY <2>2 DEF PageInv, DroppedOK
      <3>4. QED  BY <1>9, <3>1, <3>2, <3>3 DEF Going, Overtaken, At, FileOf
    <2>3. QED  BY <1>9, <2>1, <2>2
  <1>11. DroppedOK'
    BY <1>9, <1>10 DEF DroppedOK
  <1>12. page'.facts = 0 /\ page'.ledger = 0 /\ page'.server = page.server /\ DOMAIN page' = DOMAIN page
    BY <1>2 DEF PageInv, ShownOK
  <1>13. ShownOK'
    BY <1>9, <1>12 DEF PageInv, ShownOK
  <1>14. QED  BY <1>11, <1>13 DEF PageInv

LEMMA PageStays == ASSUME PageInv, UNCHANGED <<dropped, page>> PROVE PageInv'
  BY DEF PageInv, DroppedOK, ShownOK, Overtaken, Going, At, FileOf

\* Reading, painting and asking about a file.
LEMMA ReadingKeeps ==
    ASSUME PageInv, NEW n \in DOMAIN dropped, Unreadable(n) \/ ReadPage(n) \/ ReadInstaller(n) \/ Derive(n) \/ Paint(n)
    PROVE  PageInv'
  <1>1. Going(n) /\ DOMAIN page = {"facts", "ledger", "server"}
    BY DEF Unreadable, ReadPage, ReadInstaller, Derive, Paint, At, Going, PageInv, ShownOK
  <1>2. CASE Unreadable(n)
    <2>1. Goes(n, "ended") /\ page' = page
      BY <1>1, <1>2, MovedGoes DEF Unreadable
    <2>2. QED  BY <1>1, <2>1, GoesKeeps
  <1>3. CASE ReadPage(n)
    <2>1. PICK where \in {"releases", "ended"} : dropped' = Moved(n, where)
      BY <1>3 DEF ReadPage
    <2>2. Goes(n, where) /\ page' = [page EXCEPT !.ledger = n] /\ FileOf(n).is = "page"
      BY <1>1, <1>3, <2>1, MovedGoes DEF ReadPage
    <2>3. DOMAIN page' = DOMAIN page
      BY <2>2
    <2>4. QED  BY <1>1, <2>1, <2>2, <2>3, GoesKeeps
  <1>4. CASE ReadInstaller(n)
    <2>1. PICK where \in {"derive", "paint"} : dropped' = Moved(n, where)
      BY <1>4 DEF ReadInstaller
    <2>2. Goes(n, where) /\ page' = page /\ FileOf(n).is = "installer"
      BY <1>1, <1>4, <2>1, MovedGoes DEF ReadInstaller
    <2>3. QED  BY <1>1, <2>1, <2>2, GoesKeeps
  <1>5. CASE Derive(n)
    <2>1. Goes(n, "paint") /\ page' = page
      BY <1>5, DeriveGoes DEF Derive
    <2>2. FileOf(n).is = "installer"
      BY <1>5 DEF Derive, PageInv, DroppedOK
    <2>3. QED  BY <1>1, <2>1, <2>2, GoesKeeps
  <1>6. CASE Paint(n)
    <2>1. PICK where \in {"known", "ended"} : dropped' = Moved(n, where)
      BY <1>6 DEF Paint
    <2>2. Goes(n, where) /\ page' = [page EXCEPT !.facts = n, !.server = 0]
      BY <1>1, <1>6, <2>1, MovedGoes DEF Paint
    <2>3. FileOf(n).is = "installer"
      BY <1>6 DEF Paint, PageInv, DroppedOK
    <2>4. DOMAIN page' = DOMAIN page
      BY <2>2
    <2>5. QED  BY <1>1, <2>1, <2>2, <2>3, <2>4, GoesKeeps
  <1>7. QED  BY <1>2, <1>3, <1>4, <1>5, <1>6

LEMMA AskingKeeps ==
    ASSUME PageInv, NEW n \in DOMAIN dropped, Releases(n) \/ AskRecord(n) \/ AskByName(n) \/ AskFresh(n) \/ AskWithdrawn(n)
    PROVE  PageInv'
  <1>1. Going(n) /\ DOMAIN page = {"facts", "ledger", "server"}
    BY DEF Releases, AskRecord, AskByName, AskFresh, AskWithdrawn, At, Going, PageInv, ShownOK
  <1>2. CASE Releases(n)
    <2>1. Goes(n, "ended") /\ (page' = page \/ page' = [page EXCEPT !.ledger = n])
      BY <1>1, <1>2, MovedGoes DEF Releases
    <2>2. FileOf(n).is = "page"
      BY <1>2 DEF Releases, PageInv, DroppedOK
    <2>3. DOMAIN page' = DOMAIN page
      BY <2>1
    <2>4. QED  BY <1>1, <2>1, <2>2, <2>3, GoesKeeps
  <1>3. CASE AskRecord(n) \/ AskByName(n)
    <2>1. PICK hash, row : About(n, hash, row)
      BY <1>3 DEF AskRecord, AskByName, NotAnswered
    <2>2. (Goes(n, "fresh") \/ Goes(n, "revoked")) /\ page' = page
      BY <1>1, <2>1, AboutGoes
    <2>3. QED  BY <1>1, <2>2, GoesKeeps
  <1>4. CASE AskFresh(n)
    <2>1. dropped' = Moved(n, "revoked") /\ page' = page
      BY <1>4 DEF AskFresh, Answered
    <2>2. Goes(n, "revoked")
      BY <1>1, <2>1, MovedGoes
    <2>3. QED  BY <1>1, <2>1, <2>2, GoesKeeps
  <1>5. CASE AskWithdrawn(n)
    <2>1. Goes(n, "ended") /\ page' = [page EXCEPT !.server = n]
      BY <1>1, <1>5, MovedGoes DEF AskWithdrawn
    <2>2. DOMAIN page' = DOMAIN page
      BY <2>1
    <2>3. QED  BY <1>1, <2>1, <2>2, GoesKeeps
  <1>6. QED  BY <1>2, <1>3, <1>4, <1>5

LEMMA PageInvariant == SpecVerify => []PageInv
  <1>1. InitVerify => PageInv
    <2> SUFFICES ASSUME InitVerify PROVE PageInv
      OBVIOUS
    <2>1. dropped = <<>> /\ page = [facts |-> 0, ledger |-> 0, server |-> 0]
      BY DEF InitVerify
    <2>2. <<>> \in Seq({}) /\ DOMAIN dropped = {}
      BY <2>1
    <2>3. QED  BY <2>1, <2>2 DEF PageInv, DroppedOK, ShownOK
  <1>2. PageInv /\ [NextVerify]_verifyVars => PageInv'
    <2> SUFFICES ASSUME PageInv, [NextVerify]_verifyVars PROVE PageInv'
      OBVIOUS
    <2>1. CASE WithdrawMore \/ CatalogueChanges \/ UNCHANGED verifyVars
      BY <2>1, PageStays DEF WithdrawMore, CatalogueChanges, verifyVars
    <2>2. QED  BY <2>1, DropKeeps, ReadingKeeps, AskingKeeps DEF NextVerify
  <1>3. QED  BY <1>1, <1>2, PTL DEF SpecVerify

(***************************************************************************)
(* What the page shows side by side is of one file, but where a second was *)
(* dropped while the first was still being read or asked about: the order  *)
(* in which reading, painting and a server's answers end does not matter   *)
(* (dropped, paint and serverChecks, verify.js).                           *)
(***************************************************************************)
THEOREM NothingIsMixed == SpecVerify => []MixedOnlyWhenCrossed
  BY PageInvariant, ShownIsCrossed, PTL

(***************************************************************************)
(* The ledger is a chain                                                   *)
(***************************************************************************)
\* A set of numbers that is not empty has a least one.
LEMMA LeastNat ==
    ASSUME NEW T \in SUBSET Nat, T # {} PROVE \E x \in T : \A y \in T : x <= y
  <1> DEFINE Less == {ss \in Nat \X Nat : ss[1] < ss[2]}
  <1>1. IsWellFoundedOn(Less, Nat)
    BY NatLessThanWellFounded DEF OpToRel
  <1>2. PICK x \in T : \A y \in T : ~ (<<y, x>> \in Less)
    <2> HIDE DEF Less
    <2>1. QED  BY <1>1, WFMin
  <1>3. ASSUME NEW y \in T PROVE x <= y
    <2>1. <<y, x>> \in Nat \X Nat /\ <<y, x>>[1] = y /\ <<y, x>>[2] = x
      OBVIOUS
    <2>2. ~(y < x)
      BY <1>2, <2>1, Zenon
    <2>3. QED  BY <2>2
  <1>4. QED  BY <1>3

LEMMA ChainGrows ==
    ASSUME NEW entries, Len(entries) \in Nat
    PROVE  ChainRoots(entries) = [n \in 0..Len(entries) |->
               IF n = 0 THEN ZeroRoot ELSE <<ChainRoots(entries)[n - 1], entries[n]>>]
  <1> DEFINE Is(g, m) == g = [n \in 0..m |-> IF n = 0 THEN ZeroRoot ELSE <<g[n - 1], entries[n]>>]
             T == {m \in Nat : \A g : ~Is(g, m)}
  <1>1. T = {}
    <2> SUFFICES ASSUME T # {} PROVE FALSE
      OBVIOUS
    <2>1. PICK m \in T : \A y \in T : m <= y
      BY LeastNat
    <2>2. m # 0
      <3> DEFINE g == [n \in 0..0 |-> ZeroRoot]
      <3>1. Is(g, 0)
        OBVIOUS
      <3>2. QED  BY <3>1
    <2>3. m - 1 \in Nat /\ m - 1 \notin T
      <3>1. m \in Nat
        OBVIOUS
      <3> HIDE DEF T
      <3>2. QED  BY <2>1, <2>2, <3>1
    <2>4. PICK g : Is(g, m - 1)
      <3> HIDE DEF Is
      <3>1. QED  BY <2>3
    <2> DEFINE h == [n \in 0..m |-> IF n = m THEN <<g[m - 1], entries[m]>> ELSE g[n]]
    <2>5. ASSUME NEW n \in 0..m PROVE h[n] = IF n = 0 THEN ZeroRoot ELSE <<h[n - 1], entries[n]>>
      <3>1. CASE n = m
        BY <2>2, <3>1
      <3>2. CASE n # m
        <4>1. n \in 0..(m - 1) /\ h[n] = g[n]
          BY <3>2
        <4>2. g[n] = IF n = 0 THEN ZeroRoot ELSE <<g[n - 1], entries[n]>>
          BY <2>4, <4>1
        <4>3. n # 0 => h[n - 1] = g[n - 1]
          BY <4>1
        <4>4. QED  BY <4>1, <4>2, <4>3
      <3>3. QED  BY <3>1, <3>2
    <2> DEFINE rhs == [n \in 0..m |-> IF n = 0 THEN ZeroRoot ELSE <<h[n - 1], entries[n]>>]
    <2>6. h = rhs
      <3>1. DOMAIN h = 0..m /\ h = [n \in 0..m |-> h[n]]
        OBVIOUS
      <3> HIDE DEF h
      <3>2. QED  BY <2>5, <3>1
    <2> HIDE DEF h
    <2>7. QED  BY <2>6
  <1>2. \E g : Is(g, Len(entries))
    BY <1>1
  <1>3. QED  BY <1>2 DEF ChainRoots

\* Of two lists of one length with one root, every entry is the same.
LEMMA ChainIsInjective ==
    ASSUME NEW es, NEW ds, Len(es) \in Nat, Len(ds) = Len(es), ChainRoot(es) = ChainRoot(ds),
           NEW i \in 1..Len(es)
    PROVE  es[i] = ds[i]
  <1> DEFINE k == Len(es)
             R == ChainRoots(es)
             S == ChainRoots(ds)
             T == {m \in Nat : m <= k /\ R[k - m] # S[k - m]}
  <1>1. \A n \in 0..k : n # 0 => R[n] = <<R[n - 1], es[n]>> /\ S[n] = <<S[n - 1], ds[n]>>
    BY ChainGrows
  <1>2. R[k] = S[k]
    BY DEF ChainRoot
  <1> HIDE DEF R, S
  <1>3. T = {}
    <2> SUFFICES ASSUME T # {} PROVE FALSE
      OBVIOUS
    <2>1. PICK m \in T : \A y \in T : m <= y
      BY LeastNat
    <2>2. m # 0
      BY <1>2
    <2>3. m - 1 \in Nat /\ m - 1 \notin T
      <3>1. m \in Nat
        OBVIOUS
      <3> HIDE DEF T
      <3>2. QED  BY <2>1, <2>2, <3>1
    <2>4. R[k - (m - 1)] = S[k - (m - 1)]
      BY <2>3
    <2>5. k - (m - 1) \in 0..k /\ k - (m - 1) # 0 /\ k - (m - 1) - 1 = k - m
      BY <2>2
    <2>6. R[k - m] = S[k - m]
      BY <1>1, <2>4, <2>5
    <2>7. QED  BY <2>6
  <1>4. R[i] = S[i]
    <2>1. k - i \in Nat /\ k - i <= k /\ k - (k - i) = i
      OBVIOUS
    <2>2. QED  BY <1>3, <2>1
  <1>5. QED  BY <1>1, <1>4

LEMMA EntriesOf ==
    ASSUME NEW doc \in LedgerDocs
    PROVE  /\ doc.entries \in Seq(ToSet(doc.entries)) /\ BuiltAfter \in Seq(ToSet(BuiltAfter))
           /\ \A e \in ToSet(doc.entries) : e = [seq |-> e.seq, page |-> e.page]
           /\ \A j \in 1..Len(doc.entries) : doc.entries[j] \in ToSet(doc.entries)
           /\ \A e \in ToSet(doc.entries) : \E j \in 1..Len(doc.entries) : e = doc.entries[j]
  <1>1. /\ IsList(doc.entries) /\ IsList(BuiltAfter)
        /\ \A e \in ToSet(doc.entries) : e = [seq |-> e.seq, page |-> e.page]
    BY DocumentsAssumption
  <1>2. doc.entries \in Seq(ToSet(doc.entries)) /\ BuiltAfter \in Seq(ToSet(BuiltAfter))
    BY <1>1 DEF IsList
  <1>3. DOMAIN doc.entries = 1..Len(doc.entries)
    BY <1>2
  <1>4. QED  BY <1>1, <1>2, <1>3 DEF ToSet

LEMMA RowTellsAPrefix ==
    ASSUME NEW doc \in LedgerDocs
    PROVE  /\ RewrittenRow(doc.entries) = "no" => IsPrefix(BuiltAfter, doc.entries)
           /\ RewrittenRow(doc.entries) = "yes" => ~IsPrefix(BuiltAfter, doc.entries)
           /\ \/ RewrittenRow(doc.entries) = "yes"
              \/ IsPrefix(BuiltAfter, doc.entries)
              \/ Len(doc.entries) < Len(BuiltAfter)
  <1> DEFINE es == doc.entries
             k == Len(BuiltAfter)
             start == SubSeq(es, 1, k)
  <1>1. es \in Seq(ToSet(es)) /\ BuiltAfter \in Seq(ToSet(BuiltAfter))
    BY EntriesOf
  <1> HIDE DEF es
  <1>2. SubSeq(BuiltAfter, 1, k) = BuiltAfter /\ k \in Nat /\ Len(es) \in Nat
    BY <1>1
  <1>3. IsPrefix(BuiltAfter, es) <=> k <= Len(es) /\ start = BuiltAfter
    BY <1>2 DEF IsPrefix
  <1>4. CASE BuiltAfter = <<>>
    <2>1. k = 0 /\ start = <<>>
      BY <1>1, <1>4
    <2>2. IsPrefix(BuiltAfter, es) /\ RewrittenRow(es) = "not asked"
      BY <1>2, <1>3, <1>4, <2>1 DEF RewrittenRow
    <2>3. QED  BY <2>2 DEF es
  <1>5. CASE BuiltAfter # <<>> /\ Len(es) < k
    <2>1. ~(k <= Len(es))
      BY <1>2, <1>5
    <2>2. ~IsPrefix(BuiltAfter, es) /\ RewrittenRow(es) = "cannot be told"
      BY <1>3, <1>5, <2>1 DEF RewrittenRow
    <2>3. QED  BY <1>5, <2>2 DEF es
  <1>6. CASE BuiltAfter # <<>> /\ ~(Len(es) < k)
    <2>1. start \in Seq(ToSet(es)) /\ Len(start) = k /\ k <= Len(es)
      BY <1>1, <1>2, <1>6
    <2>2. RewrittenRow(es) = IF ChainRoot(start) = ChainRoot(BuiltAfter) THEN "no" ELSE "yes"
      BY <1>6 DEF RewrittenRow, RootAt, Witness
    <2> HIDE DEF start
    <2>3. ChainRoot(start) = ChainRoot(BuiltAfter) => start = BuiltAfter
      <3> SUFFICES ASSUME ChainRoot(start) = ChainRoot(BuiltAfter) PROVE start = BuiltAfter
        OBVIOUS
      <3>1. \A j \in 1..k : start[j] = BuiltAfter[j]
        BY <1>2, <2>1, ChainIsInjective
      <3>2. start = [j \in 1..k |-> start[j]] /\ BuiltAfter = [j \in 1..k |-> BuiltAfter[j]]
        BY <1>1, <2>1
      <3>3. [j \in 1..k |-> start[j]] = [j \in 1..k |-> BuiltAfter[j]]
        BY <3>1
      <3>4. QED  BY <3>2, <3>3, Zenon
    <2>4. QED  BY <1>3, <2>1, <2>2, <2>3 DEF es
  <1>7. QED  BY <1>4, <1>5, <1>6

LEMMA ReleasesAreSeen ==
    ASSUME NEW n \in DOMAIN dropped, Releases(n), FileOf(n)' = FileOf(n) PROVE RewriteIsSeen'
  <1> SUFFICES ASSUME said'.doc # Nothing PROVE RewriteIsSeen'
    BY DEF RewriteIsSeen
  <1>1. PICK doc \in LedgerDocs : said' = [of |-> n, rows |-> LedgerRows(FileOf(n), doc), doc |-> doc]
    BY DEF Releases, Says, Ledgers
  <1>2. said'.of = n /\ said'.doc = doc /\ said'.rows = LedgerRows(FileOf(n), doc) /\ baked' = baked
    BY <1>1 DEF Releases
  <1>3. <<"rewritten", "no">> \in said'.rows => RewrittenRow(doc.entries) = "no"
    BY <1>2 DEF LedgerRows
  <1>4. <<"rewritten", "yes">> \in said'.rows => RewrittenRow(doc.entries) = "yes"
    BY <1>2 DEF LedgerRows
  <1>5. <<"note", "published by us">> \in said'.rows => LedgerNote(FileOf(n), doc) = "published by us"
    BY <1>2 DEF LedgerRows
  <1>6. ASSUME LedgerNote(FileOf(n), doc) = "published by us"
        PROVE  /\ RewrittenRow(doc.entries) # "yes" /\ Checks(doc)
               /\ \E i \in DOMAIN doc.entries : doc.entries[i] = [seq |-> i, page |-> FileOf(n).bytes]
    <2>1. RewrittenRow(doc.entries) # "yes" /\ InLedger(FileOf(n), doc) /\ Checks(doc) /\ NumberedFrom1(doc.entries)
      BY <1>6 DEF LedgerNote, ChainHolds
    <2>2. PICK e \in ToSet(doc.entries) : e.page = FileOf(n).bytes
      BY <2>1 DEF InLedger
    <2>3. PICK j \in 1..Len(doc.entries) : e = doc.entries[j]
      BY EntriesOf
    <2>4. j \in DOMAIN doc.entries
      BY EntriesOf
    <2>5. e = [seq |-> e.seq, page |-> e.page] /\ e.seq = j
      BY <2>1, <2>3, <2>4, EntriesOf DEF NumberedFrom1
    <2>6. QED  BY <2>1, <2>2, <2>3, <2>4, <2>5
  <1>7. Checks(doc)' <=> Checks(doc)
    BY <1>2 DEF Checks
  <1>8. QED  BY <1>2, <1>3, <1>4, <1>5, <1>6, <1>7, RowTellsAPrefix DEF RewriteIsSeen

(***************************************************************************)
(* The published blocks are a tree                                         *)
(***************************************************************************)
\* Each level of a tree is made of the one below it.
LEMMA LevelsGrow ==
    ASSUME NEW leaves, Len(leaves) \in Nat
    PROVE  BuildLevels(leaves) = [n \in 0..Len(leaves) |->
               IF n = 0 THEN leaves ELSE LevelAbove(BuildLevels(leaves)[n - 1])]
  <1> DEFINE Is(g, m) == g = [n \in 0..m |-> IF n = 0 THEN leaves ELSE LevelAbove(g[n - 1])]
             T == {m \in Nat : \A g : ~Is(g, m)}
  <1>1. T = {}
    <2> SUFFICES ASSUME T # {} PROVE FALSE
      OBVIOUS
    <2>1. PICK m \in T : \A y \in T : m <= y
      BY LeastNat
    <2>2. m # 0
      <3> DEFINE g == [n \in 0..0 |-> leaves]
      <3>1. Is(g, 0)
        OBVIOUS
      <3>2. QED  BY <3>1
    <2>3. m - 1 \in Nat /\ m - 1 \notin T
      <3>1. m \in Nat
        OBVIOUS
      <3> HIDE DEF T
      <3>2. QED  BY <2>1, <2>2, <3>1
    <2>4. PICK g : Is(g, m - 1)
      <3> HIDE DEF Is
      <3>1. QED  BY <2>3
    <2> DEFINE h == [n \in 0..m |-> IF n = m THEN LevelAbove(g[m - 1]) ELSE g[n]]
    <2>5. ASSUME NEW n \in 0..m PROVE h[n] = IF n = 0 THEN leaves ELSE LevelAbove(h[n - 1])
      <3>1. CASE n = m
        BY <2>2, <3>1
      <3>2. CASE n # m
        <4>1. n \in 0..(m - 1) /\ h[n] = g[n]
          BY <3>2
        <4>2. g[n] = IF n = 0 THEN leaves ELSE LevelAbove(g[n - 1])
          BY <2>4, <4>1
        <4>3. n # 0 => h[n - 1] = g[n - 1]
          BY <4>1
        <4>4. QED  BY <4>1, <4>2, <4>3
      <3>3. QED  BY <3>1, <3>2
    <2> DEFINE rhs == [n \in 0..m |-> IF n = 0 THEN leaves ELSE LevelAbove(h[n - 1])]
    <2>6. h = rhs
      <3>1. DOMAIN h = 0..m /\ h = [n \in 0..m |-> h[n]]
        OBVIOUS
      <3> HIDE DEF h
      <3>2. QED  BY <2>5, <3>1
    <2> HIDE DEF h
    <2>7. QED  BY <2>6
  <1>2. \E g : Is(g, Len(leaves))
    BY <1>1
  <1>3. QED  BY <1>2 DEF BuildLevels

\* What stands on a proof's way up, one step above another.
StepUp(below, s) == IF s.right THEN NodeHash(below, s.hash) ELSE NodeHash(s.hash, below)

LEMMA WayGrows ==
    ASSUME NEW leaf, NEW proof, Len(proof) \in Nat
    PROVE  WayUp(leaf, proof) = [n \in 0..Len(proof) |->
               IF n = 0 THEN leaf ELSE StepUp(WayUp(leaf, proof)[n - 1], proof[n])]
  <1> DEFINE Is(g, m) == g = [n \in 0..m |-> IF n = 0 THEN leaf ELSE StepUp(g[n - 1], proof[n])]
             T == {m \in Nat : \A g : ~Is(g, m)}
  <1>1. T = {}
    <2> SUFFICES ASSUME T # {} PROVE FALSE
      OBVIOUS
    <2>1. PICK m \in T : \A y \in T : m <= y
      BY LeastNat
    <2>2. m # 0
      <3> DEFINE g == [n \in 0..0 |-> leaf]
      <3>1. Is(g, 0)
        OBVIOUS
      <3>2. QED  BY <3>1
    <2>3. m - 1 \in Nat /\ m - 1 \notin T
      <3>1. m \in Nat
        OBVIOUS
      <3> HIDE DEF T
      <3>2. QED  BY <2>1, <2>2, <3>1
    <2>4. PICK g : Is(g, m - 1)
      <3> HIDE DEF Is
      <3>1. QED  BY <2>3
    <2> DEFINE h == [n \in 0..m |-> IF n = m THEN StepUp(g[m - 1], proof[m]) ELSE g[n]]
    <2>5. ASSUME NEW n \in 0..m PROVE h[n] = IF n = 0 THEN leaf ELSE StepUp(h[n - 1], proof[n])
      <3>1. CASE n = m
        BY <2>2, <3>1
      <3>2. CASE n # m
        <4>1. n \in 0..(m - 1) /\ h[n] = g[n]
          BY <3>2
        <4>2. g[n] = IF n = 0 THEN leaf ELSE StepUp(g[n - 1], proof[n])
          BY <2>4, <4>1
        <4>3. n # 0 => h[n - 1] = g[n - 1]
          BY <4>1
        <4>4. QED  BY <4>1, <4>2, <4>3
      <3>3. QED  BY <3>1, <3>2
    <2> DEFINE rhs == [n \in 0..m |-> IF n = 0 THEN leaf ELSE StepUp(h[n - 1], proof[n])]
    <2>6. h = rhs
      <3>1. DOMAIN h = 0..m /\ h = [n \in 0..m |-> h[n]]
        OBVIOUS
      <3> HIDE DEF h
      <3>2. QED  BY <2>5, <3>1
    <2> HIDE DEF h
    <2>7. QED  BY <2>6
  <1>2. \E g : Is(g, Len(proof))
    BY <1>1
  <1>3. QED  BY <1>2 DEF WayUp, StepUp

\* What stands at some place of a level.
StandsAt(level) == {level[i] : i \in DOMAIN level}

IsLevel(level, m) == m \in Nat /\ m # 0 /\ DOMAIN level = 1..m /\ Len(level) = m

LEMMA LevelAboveIsOf ==
    ASSUME NEW level, NEW m, IsLevel(level, m)
    PROVE  /\ IsLevel(LevelAbove(level), (m + 1) \div 2)
           /\ \A x \in StandsAt(LevelAbove(level)) :
                 x \in StandsAt(level) \/ \E a, b \in StandsAt(level) : x = NodeHash(a, b)
  <1>1. m \in Nat /\ m # 0 /\ DOMAIN level = 1..m /\ Len(level) = m
    BY DEF IsLevel
  <1> DEFINE k == (m + 1) \div 2
  <1>2. k \in Nat /\ k # 0 /\ 2 * k <= m + 1
    BY <1>1
  <1> HIDE DEF k
  <1>3. LevelAbove(level) =
            [i \in 1..k |-> IF 2 * i <= m THEN NodeHash(level[2 * i - 1], level[2 * i]) ELSE level[2 * i - 1]]
    BY <1>1 DEF LevelAbove, k
  <1>4. IsLevel(LevelAbove(level), k)
    BY <1>2, <1>3 DEF IsLevel
  <1>5. ASSUME NEW i \in 1..k
        PROVE  \/ LevelAbove(level)[i] \in StandsAt(level)
               \/ \E a, b \in StandsAt(level) : LevelAbove(level)[i] = NodeHash(a, b)
    <2>1. 2 * i - 1 \in 1..m /\ (2 * i <= m => 2 * i \in 1..m)
      BY <1>1, <1>2
    <2>2. level[2 * i - 1] \in StandsAt(level) /\ (2 * i <= m => level[2 * i] \in StandsAt(level))
      BY <1>1, <2>1 DEF StandsAt
    <2>3. QED  BY <1>3, <2>2
  <1>6. DOMAIN LevelAbove(level) = 1..k
    BY <1>3
  <1>7. QED  BY <1>4, <1>5, <1>6 DEF StandsAt, k

\* Every hash that stands in a tree.
TreeOf(leaves) == UNION {StandsAt(BuildLevels(leaves)[n]) : n \in 0..Len(leaves)}

\* Below a hash of two in a tree stand those two; and a leaf's hash in it is of a leaf.
LEMMA TreeIsOfItsLeaves ==
    ASSUME NEW leaves, NEW N, IsLevel(leaves, N), \A x \in StandsAt(leaves) : \E t : x = LeafHash(t)
    PROVE  /\ \A a, b : NodeHash(a, b) \in TreeOf(leaves) => a \in TreeOf(leaves) /\ b \in TreeOf(leaves)
           /\ \A t : LeafHash(t) \in TreeOf(leaves) => LeafHash(t) \in StandsAt(leaves)
           /\ TreeRoot(leaves) \in TreeOf(leaves)
  <1> DEFINE L == BuildLevels(leaves)
             C == TreeOf(leaves)
             Good(n) == /\ \E m : IsLevel(L[n], m)
                        /\ \A a, b : NodeHash(a, b) \in StandsAt(L[n]) => a \in C /\ b \in C
                        /\ \A t : LeafHash(t) \in StandsAt(L[n]) => LeafHash(t) \in StandsAt(leaves)
             T == {n \in Nat : n <= N /\ ~Good(n)}
  <1>1. N \in Nat /\ N # 0 /\ Len(leaves) = N
    BY DEF IsLevel
  <1>2. L[0] = leaves /\ \A n \in 1..N : L[n] = LevelAbove(L[n - 1])
    BY <1>1, LevelsGrow
  <1>3. \A n \in 0..N : StandsAt(L[n]) \subseteq C
    BY <1>1 DEF TreeOf
  <1> HIDE DEF L, C
  <1>4. \A a, b, t : NodeHash(a, b) # LeafHash(t)
    BY DEF NodeHash, LeafHash
  <1>5. \A a, b, c, d : NodeHash(a, b) = NodeHash(c, d) => a = c /\ b = d
    BY DEF NodeHash
  <1>6. T = {}
    <2> SUFFICES ASSUME T # {} PROVE FALSE
      OBVIOUS
    <2>1. PICK n \in T : \A y \in T : n <= y
      <3> HIDE DEF T, Good
      <3>1. T \in SUBSET Nat
        BY DEF T
      <3>2. QED  BY <3>1, LeastNat
    <2>2. n \in Nat /\ n <= N /\ ~Good(n)
      OBVIOUS
    <2>3. n # 0
      <3>1. Good(0)
        BY <1>2, <1>4
      <3>2. QED  BY <2>2, <3>1
    <2>4. n - 1 \in Nat /\ n - 1 <= N /\ Good(n - 1)
      <3> HIDE DEF Good
      <3>1. n - 1 \notin T
        <4> HIDE DEF T
        <4>1. QED  BY <2>1, <2>2, <2>3
      <3>2. QED  BY <1>1, <2>2, <2>3, <3>1
    <2>5. L[n] = LevelAbove(L[n - 1]) /\ StandsAt(L[n - 1]) \subseteq C
      BY <1>1, <1>2, <1>3, <2>2, <2>3, <2>4
    <2>6. PICK m : IsLevel(L[n - 1], m)
      BY <2>4
    <2>7. IsLevel(L[n], (m + 1) \div 2)
      BY <2>5, <2>6, LevelAboveIsOf
    <2>8. \A x \in StandsAt(L[n]) :
             x \in StandsAt(L[n - 1]) \/ \E a, b \in StandsAt(L[n - 1]) : x = NodeHash(a, b)
      <3> DEFINE below == L[n - 1]
      <3>1. IsLevel(below, m)
        BY <2>6
      <3> HIDE DEF below
      <3>2. \A x \in StandsAt(LevelAbove(below)) :
               x \in StandsAt(below) \/ \E a, b \in StandsAt(below) : x = NodeHash(a, b)
        BY <3>1, LevelAboveIsOf
      <3>3. L[n] = LevelAbove(below)
        BY <2>5 DEF below
      <3>4. QED  BY <3>2, <3>3, Zenon DEF below
    <2>9. ASSUME NEW a, NEW b, NodeHash(a, b) \in StandsAt(L[n]) PROVE a \in C /\ b \in C
      BY <1>5, <2>4, <2>5, <2>8, <2>9
    <2>10. ASSUME NEW t, LeafHash(t) \in StandsAt(L[n]) PROVE LeafHash(t) \in StandsAt(leaves)
      BY <1>4, <2>4, <2>8, <2>10
    <2>11. Good(n)
      BY <2>7, <2>9, <2>10
    <2>12. QED  BY <2>2, <2>11
  <1>7. \A n \in 0..N : Good(n)
    <2> HIDE DEF Good
    <2>1. QED  BY <1>1, <1>6
  <1>8. C = UNION {StandsAt(L[n]) : n \in 0..N}
    BY <1>1 DEF TreeOf, C, L
  <1>9. ASSUME NEW a, NEW b, NodeHash(a, b) \in C PROVE a \in C /\ b \in C
    <2>1. PICK n \in 0..N : NodeHash(a, b) \in StandsAt(L[n])
      BY <1>8, <1>9
    <2>2. QED  BY <1>7, <2>1
  <1>10. ASSUME NEW t, LeafHash(t) \in C PROVE LeafHash(t) \in StandsAt(leaves)
    <2>1. PICK n \in 0..N : LeafHash(t) \in StandsAt(L[n])
      BY <1>8, <1>10
    <2>2. QED  BY <1>7, <2>1
  <1>11. TreeRoot(leaves) \in C
    <2>1. leaves # <<>>
      BY DEF IsLevel
    <2>2. TreeRoot(leaves) = L[N][1]
      BY <1>1, <2>1 DEF TreeRoot, L
    <2>3. PICK m : IsLevel(L[N], m)
      BY <1>1, <1>7
    <2>4. L[N][1] \in StandsAt(L[N])
      BY <2>3 DEF IsLevel, StandsAt
    <2>5. QED  BY <1>1, <1>3, <2>2, <2>4
  <1>12. QED  BY <1>9, <1>10, <1>11 DEF C

\* A proof that ends at a tree's root starts at one of its leaves.
LEMMA ProofIsOfALeaf ==
    ASSUME NEW leaves, NEW N, IsLevel(leaves, N), \A x \in StandsAt(leaves) : \E t : x = LeafHash(t),
           NEW text, NEW proof, Len(proof) \in Nat,
           RootFromProof(LeafHash(text), proof) = TreeRoot(leaves)
    PROVE  LeafHash(text) \in StandsAt(leaves)
  <1> DEFINE k == Len(proof)
             W == WayUp(LeafHash(text), proof)
             C == TreeOf(leaves)
             T == {m \in Nat : m <= k /\ W[k - m] \notin C}
  <1>1. W[0] = LeafHash(text) /\ \A n \in 1..k : W[n] = StepUp(W[n - 1], proof[n])
    BY WayGrows
  <1>2. W[k] \in C
    BY TreeIsOfItsLeaves DEF RootFromProof
  <1>3. \A a, b : NodeHash(a, b) \in C => a \in C /\ b \in C
    BY TreeIsOfItsLeaves
  <1> HIDE DEF W, C
  <1>4. T = {}
    <2> SUFFICES ASSUME T # {} PROVE FALSE
      OBVIOUS
    <2>1. PICK m \in T : \A y \in T : m <= y
      BY LeastNat
    <2>2. m # 0
      BY <1>2
    <2>3. m - 1 \in Nat /\ m - 1 \notin T
      <3>1. m \in Nat
        OBVIOUS
      <3> HIDE DEF T
      <3>2. QED  BY <2>1, <2>2, <3>1
    <2>4. W[k - (m - 1)] \in C
      BY <2>3
    <2>5. k - (m - 1) \in 1..k /\ k - (m - 1) - 1 = k - m
      BY <2>2
    <2>6. W[k - (m - 1)] = StepUp(W[k - m], proof[k - (m - 1)])
      BY <1>1, <2>5
    <2>7. W[k - m] \in C
      BY <1>3, <2>4, <2>6 DEF StepUp
    <2>8. QED  BY <2>7
  <1>5. W[0] \in C
    <2>1. k \in Nat /\ k <= k /\ k - k = 0
      OBVIOUS
    <2>2. QED  BY <1>4, <2>1
  <1>6. QED  BY <1>1, <1>5, TreeIsOfItsLeaves DEF C

(***************************************************************************)
(* What each step says                                                     *)
(***************************************************************************)
LEMMA ProvedIsPublished ==
    ASSUME baked \in {"ours", "none"}, NEW f \in DOMAIN Droppable, NEW plan, plan = Droppable[f].plan, plan # Nothing,
           SetupRow(plan) = "proved",
           NEW b \in ToSet(plan.targets), b.files # {} \/ b.runs
    PROVE  b.text \in ToSet(Published)
  <1>1. plan.roots # Nothing /\ Checks(plan.roots) /\ plan.roots.root # Nothing
    BY DEF SetupRow
  <1> DEFINE root == plan.roots.root
             states == {BlockState(c, root) : c \in {d \in ToSet(plan.targets) : Acts(d)}}
  <1>2. OfBlocks(states) = "proved"
    BY <1>1 DEF SetupRow
  <1>3. BlockState(b, root) \in states
    BY DEF Acts
  <1> HIDE DEF states
  <1>4. states = {"proved"}
    <2>1. states # {} /\ "wrong" \notin states
      BY <1>2, <1>3 DEF OfBlocks
    <2>2. QED  BY <1>2, <2>1 DEF OfBlocks
  <1>5. b.proof # Nothing /\ RootFromProof(LeafHash(b.text), b.proof) = root
    BY <1>3, <1>4 DEF BlockState
  <1>6. plan.roots.by = "ours" /\ plan.roots.intact
    BY <1>1 DEF Checks
  <1>7. root = TreeRoot(PublishedLeaves) /\ IsList(b.proof) /\ IsList(Published)
    <2>1. plan \in {Droppable[f].plan, Droppable[f].today} \ {Nothing}
      OBVIOUS
    <2>2. QED  BY <1>1, <1>5, <1>6, <2>1, DocumentsAssumption
  <1>8. Len(b.proof) \in Nat /\ Published \in Seq(ToSet(Published))
    BY <1>7 DEF IsList
  <1> DEFINE N == Len(Published)
  <1>9. Len(PublishedLeaves) = N /\ DOMAIN PublishedLeaves = 1..N /\ N \in Nat
    BY <1>8 DEF PublishedLeaves
  <1>10. N # 0
    <2> SUFFICES ASSUME N = 0 PROVE FALSE
      OBVIOUS
    <2>1. PublishedLeaves = <<>>
      BY <1>8 DEF PublishedLeaves
    <2>2. QED  BY <1>1, <1>7, <2>1 DEF TreeRoot
  <1>11. IsLevel(PublishedLeaves, N)
    BY <1>9, <1>10 DEF IsLevel
  <1>12. \A x \in StandsAt(PublishedLeaves) : \E i \in DOMAIN Published : x = LeafHash(Published[i])
    BY DEF StandsAt, PublishedLeaves
  <1>13. LeafHash(b.text) \in StandsAt(PublishedLeaves)
    BY <1>5, <1>7, <1>8, <1>11, <1>12, ProofIsOfALeaf
  <1>14. PICK i \in DOMAIN Published : LeafHash(b.text) = LeafHash(Published[i])
    BY <1>12, <1>13
  <1>15. b.text = Published[i]
    BY <1>14 DEF LeafHash
  <1>16. QED  BY <1>15 DEF ToSet

\* Rows that claim none of what has to be earned.
ClaimsNothing(rows) ==
    /\ <<"setup", "proved">> \notin rows /\ <<"choices", "need no signature">> \notin rows
    /\ <<"packed", "all files">> \notin rows
    /\ \A i \in DOMAIN lists : <<"withdrawn", "no", "none", i>> \notin rows

\* What does not change when a step is taken with file n.
StaysTheSame(n) ==
    /\ baked' = baked /\ lists' = lists /\ FileOf(n)' = FileOf(n)

LEMMA NothingClaimed ==
    ASSUME lists' = lists, said'.of # 0 => ClaimsNothing(said'.rows) PROVE RowsAreEarned'
  BY DEF RowsAreEarned, ClaimsNothing

LEMMA PaintIsEarned ==
    ASSUME NEW n \in DOMAIN dropped, Paint(n), baked \in {"ours", "none"}, StaysTheSame(n),
           dropped[n].name \in DOMAIN Droppable, ItsPlan(n)' = ItsPlan(n)
    PROVE  RowsAreEarned'
  <1>1. said' = [of |-> n, rows |-> OfflineRows(FileOf(n), ItsPlan(n)), doc |-> Nothing]
    BY DEF Paint, Says
  <1> DEFINE f == FileOf(n)
             plan == ItsPlan(n)
  <1>2. said'.of = n /\ said'.rows = OfflineRows(f, plan)
    BY <1>1
  <1>3. ASSUME <<"setup", "proved">> \in OfflineRows(f, plan) \/ <<"choices", "need no signature">> \in OfflineRows(f, plan),
               NEW b \in ToSet(f.plan.targets), b.files # {} \/ b.runs
        PROVE  b.text \in ToSet(Published)
    <2>1. f.plan # Nothing /\ SetupRow(f.plan) = "proved"
      <3>1. CASE <<"setup", "proved">> \in OfflineRows(f, plan)
        BY <3>1 DEF OfflineRows
      <3>2. CASE <<"choices", "need no signature">> \in OfflineRows(f, plan)
        <4>1. ChoicesRow(f) = "need no signature"
          BY <3>2 DEF OfflineRows
        <4>2. QED  BY <4>1 DEF ChoicesRow
      <3>3. QED  BY <1>3, <3>1, <3>2
    <2>2. f = Droppable[dropped[n].name]
      BY DEF FileOf, Files
    <2> HIDE DEF f
    <2>3. QED  BY <1>3, <2>1, <2>2, ProvedIsPublished
  <1>4. ASSUME <<"packed", "all files">> \in OfflineRows(f, plan), NEW b \in ToSet(plan.targets)
        PROVE  b.files \subseteq f.pack
    <2>1. PackedRow(f, plan) = "all files"
      BY <1>4 DEF OfflineRows
    <2>2. DownloadsOf(plan) \subseteq f.pack
      BY <2>1 DEF PackedRow
    <2>3. QED  BY <1>4, <2>2 DEF DownloadsOf
  <1>5. ASSUME NEW i PROVE <<"withdrawn", "no", "none", i>> \notin OfflineRows(f, plan)
    BY DEF OfflineRows
  <1>6. QED  BY <1>2, <1>3, <1>4, <1>5 DEF RowsAreEarned, StaysTheSame

\* What a file is asked about is its own record, or for want of one a signed one.
AsksAbout(n) ==
    IF OwnHash(FileOf(n)) # Nothing THEN dropped[n].about = OwnHash(FileOf(n))
    ELSE dropped[n].about \in SignedRecords \cup {Nothing}

LEMMA WithdrawnIsEarned ==
    ASSUME NEW n \in DOMAIN dropped, AskWithdrawn(n), baked \in {"ours", "none"}, StaysTheSame(n),
           ItsPlan(n)' = ItsPlan(n), dropped'[n].about = dropped[n].about, AsksAbout(n)
    PROVE  RowsAreEarned'
  <1>1. \/ \E doc \in ListDocs : said' = [of |-> n, rows |-> ListRows(dropped[n].about, Names(n), doc), doc |-> Nothing]
        \/ said' = [of |-> n, rows |-> {<<"withdrawn", "could not be checked", "none", 0>>}, doc |-> Nothing]
    BY DEF AskWithdrawn, Says
  <1>2. CASE said' = [of |-> n, rows |-> {<<"withdrawn", "could not be checked", "none", 0>>}, doc |-> Nothing]
    BY <1>2, NothingClaimed DEF ClaimsNothing, StaysTheSame
  <1>3. CASE \E doc \in ListDocs : said' = [of |-> n, rows |-> ListRows(dropped[n].about, Names(n), doc), doc |-> Nothing]
    <2>1. PICK doc \in ListDocs : said' = [of |-> n, rows |-> ListRows(dropped[n].about, Names(n), doc), doc |-> Nothing]
      BY <1>3
    <2>2. said'.of = n /\ said'.rows = {<<"withdrawn", WithdrawnRow(dropped[n].about, Names(n), doc), ListCaveat(doc), doc.issued>>}
      BY <2>1 DEF ListRows
    <2>3. ASSUME NEW i \in DOMAIN lists, <<"withdrawn", "no", "none", i>> \in said'.rows, baked # "none"
          PROVE  Names(n) \cap lists[i] = {} /\ dropped[n].about # Nothing
      <3>1. WithdrawnRow(dropped[n].about, Names(n), doc) = "no" /\ ListCaveat(doc) = "none" /\ doc.issued = i
        BY <2>2, <2>3
      <3>2. doc.by = "ours" /\ doc.intact
        BY <2>3, <3>1 DEF ListCaveat, Checks
      <3>3. doc.entries = lists[i]
        <4>1. CASE \E j \in DOMAIN lists : doc = [by |-> "ours", intact |-> TRUE, issued |-> j, entries |-> lists[j]]
          BY <3>1, <4>1
        <4>2. ASSUME NEW by, NEW j, doc = [by |-> by, intact |-> by # "ours", issued |-> j, entries |-> {}] PROVE FALSE
          <5>1. doc.by = by /\ doc.intact = (by # "ours")
            BY <4>2
          <5>2. by # "ours"
            BY <3>2, <5>1
          <5>3. QED  BY <3>2, <5>1, <5>2
        <4>3. QED  BY <4>1, <4>2 DEF ListDocs
      <3>4. QED  BY <3>1, <3>3 DEF WithdrawnRow
    <2>4. /\ dropped[n].about # Nothing => dropped[n].about \in Names(n)
          /\ FileOf(n).record # Nothing => FileOf(n).record.source \in Names(n)
          /\ \A b \in ToSet(ItsPlan(n).targets) : b.files \subseteq Names(n)
      BY DEF Names, NamesOf, DownloadsOf
    <2>5. /\ <<"setup", "proved">> \notin said'.rows /\ <<"choices", "need no signature">> \notin said'.rows
          /\ <<"packed", "all files">> \notin said'.rows
      BY <2>2
    <2>6. ASSUME NEW i \in DOMAIN lists, <<"withdrawn", "no", "none", i>> \in said'.rows, baked # "none"
          PROVE  /\ IF OwnHash(FileOf(n)) # Nothing THEN OwnHash(FileOf(n)) \notin lists[i]
                    ELSE dropped[n].about \in SignedRecords \ lists[i]
                 /\ FileOf(n).record # Nothing => FileOf(n).record.source \notin lists[i]
                 /\ \A b \in ToSet(ItsPlan(n).targets) : b.files \cap lists[i] = {}
      BY <2>3, <2>4, <2>6 DEF AsksAbout
    <2>7. QED  BY <2>2, <2>5, <2>6 DEF RowsAreEarned, StaysTheSame
  <1>4. QED  BY <1>1, <1>2, <1>3

\* The other answers claim nothing of the kind.
LEMMA AnswersClaimNothing ==
    ASSUME NEW n \in DOMAIN dropped, Releases(n) \/ AskRecord(n) \/ AskByName(n) \/ AskFresh(n)
    PROVE  lists' = lists /\ ClaimsNothing(said'.rows)
  <1>1. CASE Releases(n)
    <2>1. PICK rows : said'.rows = rows /\ (rows = {} \/ \E doc : rows = LedgerRows(FileOf(n), doc))
      BY <1>1 DEF Releases, Says
    <2>2. ClaimsNothing(rows)
      BY <2>1 DEF LedgerRows, ClaimsNothing
    <2>3. QED  BY <1>1, <2>1, <2>2 DEF Releases
  <1>2. CASE AskRecord(n) \/ AskByName(n)
    <2>1. PICK hash, row : About(n, hash, row)
      BY <1>2 DEF AskRecord, AskByName, NotAnswered
    <2>2. said'.rows = {<<"known", row>>} /\ lists' = lists
      BY <2>1 DEF About, Says
    <2>3. QED  BY <2>2 DEF ClaimsNothing
  <1>3. CASE AskFresh(n)
    <2>1. PICK rows : Answered(n, "revoked", rows) /\ ((\E doc : rows = FreshRows(FileOf(n), doc)) \/ (\E row : rows = {<<"same", row>>}))
      BY <1>3 DEF AskFresh
    <2>2. said'.rows = rows /\ lists' = lists
      BY <2>1 DEF Answered, Says
    <2>3. ClaimsNothing(rows)
      BY <2>1 DEF FreshRows, ClaimsNothing
    <2>4. QED  BY <2>2, <2>3
  <1>4. QED  BY <1>1, <1>2, <1>3

(***************************************************************************)
(* Every step                                                              *)
(***************************************************************************)
\* Going on leaves a file what it is and what is asked about it.
LEMMA MovingKeepsTheFile ==
    ASSUME PageInv, NEW n \in DOMAIN dropped, NEW where, dropped' = Moved(n, where)
    PROVE  /\ FileOf(n)' = FileOf(n) /\ ItsPlan(n)' = ItsPlan(n) /\ dropped'[n].about = dropped[n].about
           /\ dropped[n].name \in DOMAIN Droppable
  <1>1. FileShape(dropped[n])
    BY DEF PageInv, DroppedOK
  <1>2. dropped'[n] = [dropped[n] EXCEPT !.pc = where]
    BY DEF Moved
  <1>3. /\ dropped'[n].name = dropped[n].name /\ dropped'[n].derived = dropped[n].derived
        /\ dropped'[n].about = dropped[n].about
    BY <1>1, <1>2 DEF FileShape
  <1>4. QED  BY <1>1, <1>3 DEF FileShape, FileOf, ItsPlan

\* What is asked of each file whose questions are under way.
AsksOK == \A n \in DOMAIN dropped : At(n, "fresh") \/ At(n, "revoked") => AsksAbout(n)

LEMMA DropIs ==
    ASSUME PageInv, NEW f \in DOMAIN Files, Drop(f)
    PROVE  \A n \in DOMAIN dropped' :
              \/ dropped'[n].pc = "read"
              \/ /\ n \in DOMAIN dropped
                 /\ dropped'[n].name = dropped[n].name /\ dropped'[n].pc = dropped[n].pc
                 /\ dropped'[n].about = dropped[n].about
  <1> DEFINE k == Len(dropped) + 1
             g == [n \in DOMAIN dropped |-> IF Going(n) THEN [dropped[n] EXCEPT !.crossed = TRUE] ELSE dropped[n]]
             any == \E n \in DOMAIN dropped : Going(n)
             new == [name |-> f, pc |-> "read", derived |-> FALSE, about |-> Nothing, crossed |-> any]
  <1>1. PICK S : dropped \in Seq(S)
    BY DEF PageInv, DroppedOK
  <1>2. dropped' = Append(g, new)
    BY DEF Drop
  <1>3. new.pc = "read"
    OBVIOUS
  <1>4. ASSUME NEW n \in DOMAIN dropped
        PROVE  g[n].name = dropped[n].name /\ g[n].pc = dropped[n].pc /\ g[n].about = dropped[n].about
    <2>1. FileShape(dropped[n])
      BY DEF PageInv, DroppedOK
    <2>2. g[n] = dropped[n] \/ g[n] = [dropped[n] EXCEPT !.crossed = TRUE]
      OBVIOUS
    <2> HIDE DEF g
    <2>3. QED  BY <2>1, <2>2 DEF FileShape
  <1>5. g \in Seq({g[n] : n \in DOMAIN dropped}) /\ Len(g) = Len(dropped) /\ DOMAIN g = DOMAIN dropped
    BY <1>1
  <1> HIDE DEF any, new, g
  <1>6. /\ DOMAIN dropped' = DOMAIN dropped \cup {k} /\ dropped'[k] = new
        /\ \A n \in DOMAIN dropped : dropped'[n] = g[n]
    <2>1. PICK T : g \in Seq(T) /\ new \in T
      <3>1. g \in Seq({g[n] : n \in DOMAIN dropped} \cup {new})
        BY <1>5
      <3>2. QED  BY <3>1
    <2>2. QED  BY <1>1, <1>2, <1>5, <2>1
  <1>7. QED  BY <1>3, <1>4, <1>6

LEMMA AsksMove ==
    ASSUME PageInv, AsksOK, NEW n \in DOMAIN dropped, NEW where, dropped' = Moved(n, where),
           where \in {"fresh", "revoked"} => At(n, "fresh") \/ At(n, "revoked")
    PROVE  AsksOK'
  <1>1. FileOf(n)' = FileOf(n) /\ dropped'[n].about = dropped[n].about
    BY MovingKeepsTheFile
  <1>2. DOMAIN dropped' = DOMAIN dropped /\ \A m \in DOMAIN dropped \ {n} : dropped'[m] = dropped[m]
    BY DEF Moved
  <1>3. dropped'[n].pc = where
    <2>1. FileShape(dropped[n]) /\ dropped'[n] = [dropped[n] EXCEPT !.pc = where]
      BY DEF PageInv, DroppedOK, Moved
    <2>2. QED  BY <2>1 DEF FileShape
  <1>4. QED  BY <1>1, <1>2, <1>3 DEF AsksOK, AsksAbout, At, FileOf

LEMMA AsksOfRecord ==
    ASSUME PageInv, AsksOK, NEW n \in DOMAIN dropped, NEW hash, NEW row, About(n, hash, row),
           IF OwnHash(FileOf(n)) # Nothing THEN hash = OwnHash(FileOf(n)) ELSE hash \in SignedRecords \cup {Nothing}
    PROVE  AsksOK'
  <1>1. PICK where : dropped' = [Moved(n, where) EXCEPT ![n].about = hash]
    BY DEF About
  <1>2. DOMAIN dropped' = DOMAIN dropped /\ \A m \in DOMAIN dropped \ {n} : dropped'[m] = dropped[m]
    BY <1>1 DEF Moved
  <1>3. dropped'[n].name = dropped[n].name /\ dropped'[n].about = hash
    <2>1. FileShape(dropped[n]) /\ dropped'[n] = [[dropped[n] EXCEPT !.pc = where] EXCEPT !.about = hash]
      BY <1>1 DEF PageInv, DroppedOK, Moved
    <2>2. QED  BY <2>1 DEF FileShape
  <1>4. QED  BY <1>2, <1>3 DEF AsksOK, AsksAbout, At, FileOf

LEMMA AsksStep == PageInv /\ AsksOK /\ [NextVerify]_verifyVars => AsksOK'
  <1> SUFFICES ASSUME PageInv, AsksOK, [NextVerify]_verifyVars PROVE AsksOK'
    OBVIOUS
  <1>1. ASSUME NEW f \in DOMAIN Files, Drop(f) PROVE AsksOK'
    BY <1>1, DropIs DEF AsksOK, AsksAbout, At, FileOf
  <1>2. CASE WithdrawMore \/ CatalogueChanges \/ UNCHANGED verifyVars
    BY <1>2 DEF WithdrawMore, CatalogueChanges, verifyVars, AsksOK, AsksAbout, At, FileOf
  <1>3. ASSUME NEW n \in DOMAIN dropped, Unreadable(n) \/ ReadPage(n) \/ ReadInstaller(n) \/ Paint(n)
        PROVE  AsksOK'
    <2>1. PICK where \in {"ended", "releases", "derive", "paint", "known"} : dropped' = Moved(n, where)
      BY <1>3 DEF Unreadable, ReadPage, ReadInstaller, Paint
    <2>2. QED  BY <2>1, AsksMove
  <1>4. ASSUME NEW n \in DOMAIN dropped, Derive(n) PROVE AsksOK'
    <2>1. PICK d \in BOOLEAN : dropped' = [Moved(n, "paint") EXCEPT ![n].derived = d]
      BY <1>4 DEF Derive
    <2>2. DOMAIN dropped' = DOMAIN dropped /\ \A m \in DOMAIN dropped \ {n} : dropped'[m] = dropped[m]
      BY <2>1 DEF Moved
    <2>3. dropped'[n].pc = "paint"
      <3>1. FileShape(dropped[n]) /\ dropped'[n] = [[dropped[n] EXCEPT !.pc = "paint"] EXCEPT !.derived = d]
        BY <2>1 DEF PageInv, DroppedOK, Moved
      <3>2. QED  BY <3>1 DEF FileShape
    <2>4. QED  BY <2>2, <2>3 DEF AsksOK, AsksAbout, At, FileOf
  <1>5. ASSUME NEW n \in DOMAIN dropped, Releases(n) \/ AskWithdrawn(n) PROVE AsksOK'
    <2>1. dropped' = Moved(n, "ended")
      BY <1>5 DEF Releases, AskWithdrawn
    <2>2. QED  BY <2>1, AsksMove
  <1>6. ASSUME NEW n \in DOMAIN dropped, AskFresh(n) PROVE AsksOK'
    <2>1. dropped' = Moved(n, "revoked") /\ At(n, "fresh")
      BY <1>6 DEF AskFresh, Answered
    <2>2. QED  BY <2>1, AsksMove
  <1>7. ASSUME NEW n \in DOMAIN dropped, AskRecord(n) \/ AskByName(n) PROVE AsksOK'
    <2>1. PICK hash, row : /\ About(n, hash, row)
                           /\ IF OwnHash(FileOf(n)) # Nothing THEN hash = OwnHash(FileOf(n))
                              ELSE hash \in SignedRecords \cup {Nothing}
      <3>1. CASE AskRecord(n)
        BY <3>1 DEF AskRecord, NotAnswered
      <3>2. CASE AskByName(n)
        BY <3>2 DEF AskByName
      <3>3. QED  BY <1>7, <3>1, <3>2
    <2>2. QED  BY <2>1, AsksOfRecord
  <1>8. QED  BY <1>1, <1>2, <1>3, <1>4, <1>5, <1>6, <1>7 DEF NextVerify

LEMMA ReadingSaysNothing ==
    ASSUME NEW n \in DOMAIN dropped, Unreadable(n) \/ ReadPage(n) \/ ReadInstaller(n) \/ Derive(n)
    PROVE  said' = NoRows
  BY DEF Unreadable, ReadPage, ReadInstaller, Derive, SaysNothing

LEMMA OthersQuoteNoLedger ==
    ASSUME NEW n \in DOMAIN dropped, Paint(n) \/ AskRecord(n) \/ AskByName(n) \/ AskFresh(n) \/ AskWithdrawn(n)
    PROVE  said'.doc = Nothing
  <1>1. \E rows : Says(n, rows)
    BY DEF Paint, AskRecord, AskByName, NotAnswered, About, AskFresh, Answered, AskWithdrawn
  <1>2. QED  BY <1>1 DEF Says

LEMMA SilenceIsSafe == ASSUME said' = NoRows PROVE RowsAreEarned' /\ RewriteIsSeen'
  <1>1. said'.of = 0 /\ said'.doc = Nothing
    BY DEF NoRows
  <1>2. QED  BY <1>1 DEF RowsAreEarned, RewriteIsSeen

LEMMA RewriteStep == PageInv /\ RewriteIsSeen /\ [NextVerify]_verifyVars => RewriteIsSeen'
  <1> SUFFICES ASSUME PageInv, RewriteIsSeen, [NextVerify]_verifyVars PROVE RewriteIsSeen'
    OBVIOUS
  <1>1. CASE (\E f \in DOMAIN Files : Drop(f)) \/ WithdrawMore \/ CatalogueChanges
    <2>1. said' = NoRows
      BY <1>1 DEF Drop, WithdrawMore, CatalogueChanges, SaysNothing
    <2>2. QED  BY <2>1, SilenceIsSafe
  <1>2. ASSUME NEW n \in DOMAIN dropped, Releases(n) PROVE RewriteIsSeen'
    <2>1. dropped' = Moved(n, "ended")
      BY <1>2 DEF Releases
    <2>2. FileOf(n)' = FileOf(n)
      BY <2>1, MovingKeepsTheFile
    <2>3. QED  BY <1>2, <2>2, ReleasesAreSeen
  <1>3. ASSUME NEW n \in DOMAIN dropped, Unreadable(n) \/ ReadPage(n) \/ ReadInstaller(n) \/ Derive(n)
        PROVE  RewriteIsSeen'
    BY <1>3, ReadingSaysNothing, SilenceIsSafe
  <1>4. ASSUME NEW n \in DOMAIN dropped, Paint(n) \/ AskRecord(n) \/ AskByName(n) \/ AskFresh(n) \/ AskWithdrawn(n)
        PROVE  RewriteIsSeen'
    <2>1. said'.doc = Nothing
      BY <1>4, OthersQuoteNoLedger
    <2>2. QED  BY <2>1 DEF RewriteIsSeen
  <1>5. CASE UNCHANGED verifyVars
    BY <1>5 DEF verifyVars, RewriteIsSeen, Checks, FileOf
  <1>6. QED  BY <1>1, <1>2, <1>3, <1>4, <1>5 DEF NextVerify

BakedOK == baked \in {"ours", "none"}

LEMMA EarnedStep == PageInv /\ AsksOK /\ BakedOK /\ RowsAreEarned /\ [NextVerify]_verifyVars => BakedOK' /\ RowsAreEarned'
  <1> SUFFICES ASSUME PageInv, AsksOK, BakedOK, RowsAreEarned, [NextVerify]_verifyVars PROVE BakedOK' /\ RowsAreEarned'
    OBVIOUS
  <1>1. baked' = baked
    BY DEF NextVerify, Drop, Unreadable, ReadPage, ReadInstaller, Derive, Paint, Releases, AskRecord, AskByName,
           NotAnswered, About, AskFresh, Answered, AskWithdrawn, WithdrawMore, CatalogueChanges, verifyVars
  <1>2. CASE (\E f \in DOMAIN Files : Drop(f)) \/ WithdrawMore \/ CatalogueChanges
    <2>1. said' = NoRows
      BY <1>2 DEF Drop, WithdrawMore, CatalogueChanges, SaysNothing
    <2>2. QED  BY <1>1, <2>1, SilenceIsSafe DEF BakedOK
  <1>3. ASSUME NEW n \in DOMAIN dropped, Unreadable(n) \/ ReadPage(n) \/ ReadInstaller(n) \/ Derive(n)
        PROVE  RowsAreEarned'
    BY <1>3, ReadingSaysNothing, SilenceIsSafe
  <1>4. ASSUME NEW n \in DOMAIN dropped, Paint(n) PROVE RowsAreEarned'
    <2>1. PICK where : dropped' = Moved(n, where)
      BY <1>4 DEF Paint
    <2>2. FileOf(n)' = FileOf(n) /\ ItsPlan(n)' = ItsPlan(n) /\ dropped[n].name \in DOMAIN Droppable
      BY <2>1, MovingKeepsTheFile
    <2>3. StaysTheSame(n)
      BY <1>1, <1>4, <2>2 DEF Paint, StaysTheSame
    <2>4. QED  BY <1>4, <2>2, <2>3, PaintIsEarned DEF BakedOK
  <1>5. ASSUME NEW n \in DOMAIN dropped, AskWithdrawn(n) PROVE RowsAreEarned'
    <2>1. dropped' = Moved(n, "ended")
      BY <1>5 DEF AskWithdrawn
    <2>2. FileOf(n)' = FileOf(n) /\ ItsPlan(n)' = ItsPlan(n) /\ dropped'[n].about = dropped[n].about
      BY <2>1, MovingKeepsTheFile
    <2>3. StaysTheSame(n)
      BY <1>1, <1>5, <2>2 DEF AskWithdrawn, StaysTheSame
    <2>4. AsksAbout(n)
      BY <1>5 DEF AskWithdrawn, AsksOK
    <2>5. QED  BY <1>5, <2>2, <2>3, <2>4, WithdrawnIsEarned DEF BakedOK
  <1>6. ASSUME NEW n \in DOMAIN dropped, Releases(n) \/ AskRecord(n) \/ AskByName(n) \/ AskFresh(n) PROVE RowsAreEarned'
    BY <1>6, AnswersClaimNothing, NothingClaimed
  <1>7. CASE UNCHANGED verifyVars
    BY <1>7 DEF verifyVars, BakedOK, RowsAreEarned, FileOf, ItsPlan
  <1>8. RowsAreEarned'
    BY <1>2, <1>3, <1>4, <1>5, <1>6, <1>7 DEF NextVerify
  <1>9. QED  BY <1>1, <1>8 DEF BakedOK

(***************************************************************************)
(* A ledger a server answers with is called unchanged just when it         *)
(* continues the one this copy of the page was built after, whatever the   *)
(* lengths of the two: a chain's root names every entry before it          *)
(* (paintPage in verify.js, ledger.js).                                    *)
(***************************************************************************)
THEOREM RewriteIsNoticed == SpecVerify => []RewriteIsSeen
  <1>1. InitVerify => RewriteIsSeen
    BY DEF InitVerify, NoRows, RewriteIsSeen
  <1>2. QED  BY <1>1, RewriteStep, PageInvariant, PTL DEF SpecVerify

(***************************************************************************)
(* What the page reassures of has been earned: the steps of an installer   *)
(* are called proved only if each is one of the published blocks, as no    *)
(* proof but one of a leaf leads to a tree's root; "all files" and "not    *)
(* withdrawn" are said of every download of every machine, the latter of   *)
(* the file's own record too, whatever the list was asked about; a file    *)
(* with only its name has none, and a record some plan of our key names    *)
(* stands in (rtScriptRows, merkle.js, paint and serverChecks, verify.js). *)
(***************************************************************************)
THEOREM ReassuringRowsAreEarned == SpecVerify => []RowsAreEarned
  <1>1. InitVerify => AsksOK /\ BakedOK /\ RowsAreEarned
    BY DEF InitVerify, NoRows, AsksOK, RowsAreEarned, BakedOK
  <1>2. QED  BY <1>1, AsksStep, EarnedStep, PageInvariant, PTL DEF SpecVerify

(***************************************************************************)
(* PageCatalogue. The catalogues a page holds and what is stored           *)
(***************************************************************************)
USE CatalogueAssumption

----------------------------------------------------------------------------
(* What is stored *)

FetchRecord == [at : {"idle", "archive", "swap"}, issue : 0..MaxIssue, late : BOOLEAN]

\* A download that nothing overtook is of a catalogue no older than what is
\* stored.
NotOlder(t) ==
    fetch[t].at = "archive" /\ ~fetch[t].late /\ stored \in Ours => stored <= fetch[t].issue

StoreInv ==
    /\ stored \in 0..MaxIssue
    /\ fetch \in [Tabs \cup Elsewhere -> FetchRecord]
    /\ found \in [Tabs -> 0..MaxIssue]
    /\ \A t \in Tabs \cup Elsewhere : NotOlder(t)

LEMMA Issued == Ours \subseteq 1..MaxIssue /\ None \notin Ours /\ Issues \ Ours \subseteq 0..MaxIssue
  BY DEF Issues, None

LEMMA InitStore == Init => StoreInv
  BY DEF Init, StoreInv, NotOlder, NoFetch, FetchRecord, None

\* A step that stores nothing, or nothing of this key, and begins no download.
LEMMA StoreKept ==
    ASSUME StoreInv, stored' \in 0..MaxIssue, stored' = stored \/ stored' \notin Ours,
           fetch' \in [Tabs \cup Elsewhere -> FetchRecord],
           found' \in [Tabs -> 0..MaxIssue],
           \A t \in Tabs \cup Elsewhere : fetch'[t].at = "archive" => fetch'[t] = fetch[t]
    PROVE  StoreInv'
  BY DEF StoreInv, NotOlder

LEMMA LookStep == ASSUME StoreInv, NEW t \in Tabs \cup Elsewhere, Look(t)  PROVE StoreInv'
<1>1. PICK i \in Issues : Believes(i) /\ i >= Floor(t)
                          /\ fetch' = [fetch EXCEPT ![t].at = "archive", ![t].issue = i]
  BY DEF Look
<1>2. stored \in Ours => stored <= i
  BY <1>1 DEF Floor, Believes, Issues, StoreInv
<1>3. \A u \in Tabs \cup Elsewhere : NotOlder(u)'
  BY <1>1, <1>2 DEF StoreInv, NotOlder, FetchRecord, Look
<1>4. QED  BY <1>1, <1>3 DEF StoreInv, FetchRecord, Issues, Look, loadVars

LEMMA StoreStep == ASSUME StoreInv, NEW t \in Tabs \cup Elsewhere, Store(t)  PROVE StoreInv'
<1>1. \A u \in Tabs \cup Elsewhere : fetch'[u].at = "archive" => fetch'[u].late
  BY DEF Store, StoreInv, FetchRecord, NoFetch
<1>2. ASSUME NEW u \in Tabs \cup Elsewhere  PROVE fetch'[u] \in FetchRecord
  <2> DEFINE f == fetch[u]
  <2>1. f \in FetchRecord /\ u \in DOMAIN fetch  BY DEF StoreInv
  <2>2. NoFetch \in FetchRecord  BY DEF NoFetch, FetchRecord, None, StoreInv
  <2>3. [f EXCEPT !.at = "swap"] \in FetchRecord  BY <2>1 DEF FetchRecord
  <2>4. [f EXCEPT !.late = @ \/ f.at = "archive"] \in FetchRecord
    <3>1. (f.late \/ f.at = "archive") \in BOOLEAN  BY <2>1 DEF FetchRecord
    <3>2. QED  BY <2>1, <3>1 DEF FetchRecord
  <2>5. QED  BY <2>1, <2>2, <2>3, <2>4 DEF Store
<1>3. stored' \in 0..MaxIssue /\ found' = found  BY DEF Store, StoreInv, FetchRecord, loadVars
<1>4. fetch' \in [Tabs \cup Elsewhere -> FetchRecord]  BY <1>2 DEF Store, StoreInv
<1>5. QED  BY <1>1, <1>3, <1>4 DEF StoreInv, NotOlder

LEMMA NextStore == StoreInv /\ [Next]_vars => StoreInv'
<1> SUFFICES ASSUME StoreInv, [Next]_vars  PROVE StoreInv'
  OBVIOUS
<1> USE Issued
<1>1. CASE UNCHANGED vars
  BY <1>1 DEF vars, StoreInv, NotOlder, formVars, loadVars
<1>2. ASSUME NEW t \in Tabs, OpenPage(t) \/ ClosePage(t) \/ OverlayChanged(t) \/ OpenEditor(t)
      PROVE  StoreInv'
  <2>1. CASE OpenPage(t) \/ OverlayChanged(t) \/ OpenEditor(t)
    BY <2>1, StoreKept DEF StoreInv, OpenPage, OverlayChanged, OpenEditor, formVars, loadVars
  <2>2. CASE ClosePage(t)
    BY <2>2, StoreKept DEF StoreInv, ClosePage, FetchRecord, NoFetch, None
  <2>3. QED  BY <1>2, <2>1, <2>2
<1>3. ASSUME NEW t \in Tabs, Loading(t)  PROVE StoreInv'
  BY <1>3, StoreKept DEF StoreInv, Loading, ReadRefreshed, ClearStored, Adopt, LoadChanges, formVars, loadVars, None
<1>4. ASSUME NEW t \in Tabs, Building(t)  PROVE StoreInv'
  BY <1>4, StoreKept DEF StoreInv, Building, AskBuild, Unpack, Apply, StartBuild, FinishBuild, formVars, loadVars
<1>5. ASSUME NEW t \in Tabs, Replacing(t)  PROVE StoreInv'
  <2>1. CASE StoreFails(t)
    BY <2>1, StoreKept DEF StoreInv, StoreFails, loadVars, FetchRecord
  <2>2. CASE SwapIn(t)
    BY <2>2, StoreKept DEF StoreInv, SwapIn, loadVars, FetchRecord, NoFetch, None
  <2>3. CASE GoBack(t)
    BY <2>3, StoreKept DEF StoreInv, GoBack, loadVars, None
  <2>4. CASE SwapBack(t)
    BY <2>4, StoreKept DEF StoreInv, SwapBack, loadVars
  <2>5. QED  BY <1>5, <2>1, <2>2, <2>3, <2>4 DEF Replacing
<1>6. ASSUME NEW t \in Tabs \cup Elsewhere, DownloadFails(t)  PROVE StoreInv'
  BY <1>6, StoreKept DEF StoreInv, DownloadFails, formVars, loadVars, FetchRecord, NoFetch, None
<1>7. CASE StoreOfOthers
  BY <1>7, StoreKept DEF StoreInv, StoreOfOthers, formVars, loadVars
<1>8. QED  BY <1>1, <1>2, <1>3, <1>4, <1>5, <1>6, <1>7, LookStep, StoreStep DEF Next, Fetching

\* Whatever the tabs of a browser do, what it has accepted is undone only by
\* a refresh that had looked before another tab stored something newer
\* (catalog-refresh.js, the floor).
THEOREM NewerIsKept == Spec => OlderOnlyIfOvertaken
<1> DEFINE OlderSo ==
      {stored, stored'} \subseteq Ours /\ stored' < stored =>
          \E t \in Tabs \cup Elsewhere : fetch[t].late /\ fetch'[t] # fetch[t]
<1>1. StoreInv /\ [Next]_vars => [OlderSo]_vars
  <2> SUFFICES ASSUME StoreInv, Next, {stored, stored'} \subseteq Ours, stored' < stored
               PROVE  \E t \in Tabs \cup Elsewhere : fetch[t].late /\ fetch'[t] # fetch[t]
    OBVIOUS
  <2>1. ~(stored' = stored \/ stored' \notin Ours)
    BY Issued DEF StoreInv
  <2>2. ~StoreOfOthers  BY <2>1 DEF StoreOfOthers
  <2>3. ASSUME NEW t \in Tabs
        PROVE  ~(OpenPage(t) \/ ClosePage(t) \/ OverlayChanged(t) \/ OpenEditor(t)
                 \/ Loading(t) \/ Building(t) \/ Replacing(t))
    BY <2>1, Issued DEF OpenPage, ClosePage, OverlayChanged, OpenEditor,
       Loading, ReadRefreshed, ClearStored, Adopt, LoadChanges, Building, AskBuild, Unpack, Apply, StartBuild, FinishBuild,
       Replacing, StoreFails, SwapIn, GoBack, SwapBack, None
  <2>4. PICK t \in Tabs \cup Elsewhere : Store(t)
    BY <2>1, <2>2, <2>3 DEF Next, Fetching, Look, DownloadFails
  <2>5. fetch[t].late
    BY <2>4, Issued DEF StoreInv, NotOlder, Store, FetchRecord
  <2>6. fetch'[t].at # "archive"
    BY <2>4 DEF Store, StoreInv, NoFetch, FetchRecord
  <2>7. QED  BY <2>4, <2>5, <2>6 DEF Store
<1>2. QED  BY InitStore, NextStore, <1>1, PTL DEF Spec, OlderOnlyIfOvertaken

----------------------------------------------------------------------------
(* What a build is made of *)

EffRecord == [at : {"none", "overlay", "folders", "done"}, base : Gens, waits : Gens,
              changed : SUBSET Folders, applied : SUBSET Folders]
BuildRecord == [at : {"none", "env", "folder", "built", "failed"}, asked : Gens, eff : EffRecord,
                folder : Folders \cup {None}, from : Gens]

Types ==
    /\ open \subseteq Tabs
    /\ gen \in [Tabs -> Gens]
    /\ has \in [Tabs -> [Gens -> SUBSET Folders]]
    /\ loaded \in [Tabs -> SUBSET Folders]
    /\ unpacking \in [Tabs -> SUBSET (Folders \X Gens)]
    /\ load \in [Tabs -> {"none", "read", "clear", "split", "changes", "loaded"}]
    /\ touched \in [Tabs -> SUBSET Folders]
    /\ cache \in [Tabs -> EffRecord]
    /\ build \in [Tabs -> BuildRecord]
    /\ back \in [Tabs -> BOOLEAN]
    /\ DOMAIN editor = Tabs

\* A folder that is there in the page's present generation, or on its way.
OnItsWay(t, f) == f \in loaded[t] \/ <<f, gen[t]>> \in unpacking[t]

\* An effective catalogue of the present generation: it is worked out on the
\* files in use, and with every changed folder.
EffOK(t, e) ==
    /\ e.base = gen[t] /\ e.at # "none"
    /\ e.at = "folders" => e.waits = gen[t] /\ \A f \in e.changed : OnItsWay(t, f)
    /\ e.at = "done" => e.changed \subseteq loaded[t] /\ e.applied = e.changed

\* A build that the page has not replaced its catalogue under.
BuildOK(t, b) ==
    b.at \in {"env", "folder"} =>
        /\ b.asked <= gen[t]
        /\ b.folder \in Folders
        /\ b.asked = gen[t] => /\ EffOK(t, b.eff)
                               /\ b.at = "folder" => /\ b.eff.at = "done" /\ b.from = gen[t]
                                                     /\ OnItsWay(t, b.folder)

TabOK(t) ==
    /\ gen[t] + Coming(t) <= MaxSwaps
    /\ t \notin open => /\ gen[t] = 0 /\ load[t] = "none" /\ fetch[t] = NoFetch /\ ~back[t]
                        /\ cache[t] = NoEff /\ build[t] = NoBuild /\ editor[t] = NotShown
    /\ loaded[t] \subseteq has[t][gen[t]]
    /\ cache[t] = NoEff \/ EffOK(t, cache[t])
    /\ BuildOK(t, build[t])

IInv == StoreInv /\ Types /\ \A t \in Tabs : TabOK(t)

\* What TabOK(t) reads.
tabVars(t) == <<t \in open, gen[t], has[t], loaded[t], unpacking[t], load[t], cache[t], build[t],
                fetch[t] = NoFetch, back[t], editor[t]>>

LEMMA SameTab == ASSUME NEW t, TabOK(t), UNCHANGED tabVars(t)  PROVE TabOK(t)'
  BY DEF TabOK, tabVars, Coming, One, EffOK, BuildOK, OnItsWay

LEMMA NoEffType == NoEff \in EffRecord /\ NoBuild \in BuildRecord
  BY DEF NoEff, EffRecord, NoBuild, BuildRecord, Gens, None

LEMMA EndedType ==
    ASSUME NEW ok
    PROVE  Ended(ok) \in BuildRecord /\ Ended(ok).at = (IF ok THEN "built" ELSE "failed")
<1>1. CASE ok   BY <1>1, NoEffType DEF Ended, NoBuild, BuildRecord
<1>2. CASE ~ok  BY <1>2, NoEffType DEF Ended, NoBuild, BuildRecord
<1>3. QED  BY <1>1, <1>2

LEMMA InitBuild == Init => IInv
<1> SUFFICES ASSUME Init  PROVE Types /\ \A t \in Tabs : TabOK(t)
  BY InitStore DEF IInv
<1>1. Types  BY NoEffType DEF Init, Types, Gens
<1>2. ASSUME NEW t \in Tabs  PROVE TabOK(t)
  BY DEF Init, TabOK, Coming, One, EffOK, BuildOK, NoEff, NoBuild, Gens
<1>3. QED  BY <1>1, <1>2

\* A step of one tab: its own state must be shown right, that of others stays.
TabStep(t) == /\ Types'
              /\ TabOK(t)'
              /\ \A u \in Tabs \ {t} : UNCHANGED tabVars(u)

LEMMA EffectiveOK ==
    ASSUME IInv, NEW t \in Tabs
    PROVE  /\ Effective(t) \in EffRecord
           /\ Asks(t) \in SUBSET (Folders \X Gens) /\ unpacking[t] \subseteq Asks(t)
           /\ Effective(t).base = gen[t] /\ Effective(t).at # "none"
           /\ Effective(t).at = "folders" =>
                 /\ Effective(t).waits = gen[t]
                 /\ \A f \in Effective(t).changed : f \in loaded[t] \/ <<f, gen[t]>> \in Asks(t)
           /\ Effective(t).at = "done" => /\ Effective(t).changed \subseteq loaded[t]
                                          /\ Effective(t).applied = Effective(t).changed
<1>1. gen[t] \in Gens /\ touched[t] \subseteq Folders /\ loaded[t] \subseteq Folders
      /\ cache[t] \in EffRecord /\ unpacking[t] \subseteq Folders \X Gens
  BY DEF IInv, Types
<1>2. CASE cache[t] # NoEff
  BY <1>1, <1>2 DEF IInv, Effective, Asks, TabOK, EffOK, OnItsWay
<1>3. CASE cache[t] = NoEff /\ load[t] = "loaded"
  <2>1. Effective(t) = [at |-> "folders", base |-> gen[t], waits |-> gen[t],
                        changed |-> touched[t], applied |-> {}]
    BY <1>3 DEF Effective, Resumed, NoEff
  <2>2. Asks(t) = unpacking[t] \cup {<<f, gen[t]>> : f \in touched[t] \ loaded[t]}
    BY <1>3 DEF Asks, Unpacking
  <2>3. Effective(t) \in EffRecord  BY <1>1, <2>1 DEF EffRecord
  <2>4. Asks(t) \in SUBSET (Folders \X Gens)  BY <1>1, <2>2
  <2>5. \A f \in touched[t] : f \in loaded[t] \/ <<f, gen[t]>> \in Asks(t)  BY <2>2
  <2>6. QED  BY <2>1, <2>2, <2>3, <2>4, <2>5
<1>4. CASE cache[t] = NoEff /\ load[t] # "loaded"
  BY <1>1, <1>4 DEF Effective, Asks, NoEff, EffRecord, Gens
<1>5. QED  BY <1>2, <1>3, <1>4

LEMMA OpenPageStep == ASSUME IInv, NEW t \in Tabs, OpenPage(t)  PROVE TabStep(t)
<1>1. cache[t] = NoEff /\ load[t] = "none" /\ gen[t] = 0 /\ build[t] = NoBuild /\ fetch[t] = NoFetch
      /\ ~back[t] /\ loaded[t] \subseteq has[t][gen[t]]
  BY DEF IInv, TabOK, OpenPage
<1>2. Types'
  BY EffectiveOK DEF IInv, Types, OpenPage, formVars
<1>3. TabOK(t)'
  <2>1. (gen[t] + Coming(t) <= MaxSwaps)'
    BY <1>1 DEF OpenPage, Coming, One, formVars, IInv, Types
  <2>2. (cache[t] = NoEff \/ EffOK(t, cache[t]))'
    <3>1. cache'[t] = [NoEff EXCEPT !.at = "overlay", !.base = gen[t]]
      BY <1>1 DEF OpenPage, Effective, IInv, Types
    <3>2. gen' = gen /\ cache'[t].at = "overlay" /\ cache'[t].base = gen[t]
      BY <3>1 DEF OpenPage, NoEff
    <3>3. QED  BY <3>2 DEF EffOK
  <2>3. BuildOK(t, build[t])'
    BY <1>1 DEF OpenPage, BuildOK, NoBuild
  <2>4. QED  BY <1>1, <2>1, <2>2, <2>3 DEF OpenPage, TabOK
<1>4. \A u \in Tabs \ {t} : UNCHANGED tabVars(u)
  BY DEF OpenPage, tabVars, formVars, IInv, Types
<1>5. QED  BY <1>2, <1>3, <1>4 DEF TabStep

LEMMA ClosePageStep == ASSUME IInv, NEW t \in Tabs, ClosePage(t)  PROVE TabStep(t)
<1>1. Types'
  BY NoEffType DEF IInv, Types, ClosePage, Gens
<1>2. TabOK(t)'
  BY DEF IInv, Types, StoreInv, ClosePage, TabOK, Coming, One, EffOK, BuildOK, NoBuild, Gens
<1>3. \A u \in Tabs \ {t} : UNCHANGED tabVars(u)
  BY DEF ClosePage, tabVars, IInv, Types, StoreInv
<1>4. QED  BY <1>1, <1>2, <1>3 DEF TabStep

LEMMA ReadStep ==
    ASSUME IInv, NEW t \in Tabs, OverlayChanged(t) \/ ReadRefreshed(t) \/ ClearStored(t)
    PROVE  TabStep(t)
<1>1. Types'
  BY DEF IInv, Types, OverlayChanged, ReadRefreshed, ClearStored, effVars, formVars, useVars
<1>2. TabOK(t)'
  <2>1. (gen[t] + Coming(t) <= MaxSwaps)'
    BY DEF IInv, Types, OverlayChanged, ReadRefreshed, ClearStored, TabOK, Coming, One, MaySwap, Gens, formVars, useVars
  <2>2. t \in open
    BY DEF IInv, TabOK, OverlayChanged, ReadRefreshed, ClearStored
  <2>3. QED
    BY <2>1, <2>2 DEF IInv, OverlayChanged, ReadRefreshed, ClearStored, TabOK, EffOK, BuildOK, OnItsWay, effVars, useVars
<1>3. \A u \in Tabs \ {t} : UNCHANGED tabVars(u)
  BY DEF OverlayChanged, ReadRefreshed, ClearStored, tabVars, IInv, Types, effVars, formVars, useVars
<1>4. QED  BY <1>1, <1>2, <1>3 DEF TabStep

\* The replacing of a catalogue, from whichever step it is owed.
LEMMA SwapStep ==
    ASSUME IInv, NEW t \in Tabs, Adopt(t) \/ SwapIn(t) \/ SwapBack(t)
    PROVE  TabStep(t)
<1>0. /\ gen' = [gen EXCEPT ![t] = @ + 1] /\ loaded' = [loaded EXCEPT ![t] = {}]
      /\ cache' = [cache EXCEPT ![t] = NoEff]
      /\ UNCHANGED <<open, has, unpacking, touched, build, editor>>
  BY DEF Adopt, SwapIn, SwapBack, Swap, loadVars
<1>1. /\ load' \in [Tabs -> {"none", "read", "clear", "split", "changes", "loaded"}]
      /\ back' \in [Tabs -> BOOLEAN]
      /\ \A u \in Tabs \ {t} : UNCHANGED <<load[u], fetch[u], back[u]>>
      /\ Coming(t) \in Nat /\ Coming(t)' \in Nat /\ Coming(t)' < Coming(t)
      /\ t \in open
  <2>1. CASE Adopt(t)
    BY <2>1 DEF IInv, Types, TabOK, Adopt, Coming, One, formVars
  <2>2. CASE SwapIn(t)
    <3>1. fetch[t] # NoFetch /\ fetch'[t] = NoFetch
      BY <2>2 DEF IInv, StoreInv, SwapIn, NoFetch
    <3>2. QED  BY <2>2, <3>1 DEF IInv, StoreInv, Types, TabOK, SwapIn, Coming, One, loadVars
  <2>3. CASE SwapBack(t)
    BY <2>3 DEF IInv, Types, TabOK, SwapBack, Coming, One, loadVars
  <2>4. QED  BY <2>1, <2>2, <2>3
<1>2. gen'[t] = gen[t] + 1 /\ gen[t] \in Nat /\ gen'[t] + Coming(t)' <= MaxSwaps
  BY <1>0, <1>1 DEF IInv, Types, TabOK, Gens
<1>3. gen'[t] \in Gens
  BY <1>1, <1>2 DEF Gens
<1>4. Types'
  <2>1. gen' \in [Tabs -> Gens]  BY <1>0, <1>3 DEF IInv, Types
  <2>2. loaded' \in [Tabs -> SUBSET Folders] /\ cache' \in [Tabs -> EffRecord]
    BY <1>0, NoEffType DEF IInv, Types
  <2>3. QED  BY <1>0, <1>1, <2>1, <2>2 DEF IInv, Types
<1>5. TabOK(t)'
  <2>1. cache'[t] = NoEff /\ loaded'[t] = {}  BY <1>0 DEF IInv, Types
  <2>2. BuildOK(t, build[t])'
    <3>1. (build[t].asked <= gen[t] /\ build[t].folder \in Folders) \/ build[t].at \notin {"env", "folder"}
      BY DEF IInv, TabOK, BuildOK
    <3>2. build[t].asked \in Nat  BY DEF IInv, Types, BuildRecord, Gens
    <3>3. QED  BY <1>0, <1>2, <3>1, <3>2 DEF BuildOK
  <2>3. QED  BY <1>0, <1>1, <1>2, <2>1, <2>2 DEF TabOK
<1>6. \A u \in Tabs \ {t} : UNCHANGED tabVars(u)
  BY <1>0, <1>1 DEF tabVars, IInv, Types
<1>7. QED  BY <1>4, <1>5, <1>6 DEF TabStep

LEMMA UnpackStep == ASSUME IInv, NEW t \in Tabs, Unpack(t)  PROVE TabStep(t)
<1>1. PICK u \in unpacking[t] :
          /\ unpacking' = [unpacking EXCEPT ![t] = @ \ {u}]
          /\ IF u[2] = gen[t]
               THEN /\ has' = [has EXCEPT ![t][u[2]] = @ \cup {u[1]}]
                    /\ loaded' = [loaded EXCEPT ![t] = @ \cup {u[1]}]
               ELSE UNCHANGED <<has, loaded>>
  BY DEF Unpack
<1>2. PICK f \in Folders, g \in Gens : u = <<f, g>>
  BY DEF IInv, Types
<1>3. Types'
  <2>1. loaded' \in [Tabs -> SUBSET Folders]
    <3>1. loaded[t] \cup {u[1]} \in SUBSET Folders  BY <1>2 DEF IInv, Types
    <3>2. loaded' = loaded \/ loaded' = [loaded EXCEPT ![t] = loaded[t] \cup {u[1]}]  BY <1>1
    <3>3. QED  BY <3>1, <3>2 DEF IInv, Types
  <2>4. unpacking' \in [Tabs -> SUBSET (Folders \X Gens)]
    <3>1. unpacking[t] \ {u} \in SUBSET (Folders \X Gens)  BY DEF IInv, Types
    <3>2. QED  BY <1>1, <3>1 DEF IInv, Types
  <2>2. has' \in [Tabs -> [Gens -> SUBSET Folders]]
    <3>1. has[t] \in [Gens -> SUBSET Folders]  BY DEF IInv, Types
    <3>2. PICK h : h = [has[t] EXCEPT ![g] = @ \cup {f}]  OBVIOUS
    <3>3. h \in [Gens -> SUBSET Folders]  BY <1>2, <3>1, <3>2
    <3>4. has' = has \/ has' = [has EXCEPT ![t] = h]
      BY <1>1, <1>2, <3>2 DEF IInv, Types
    <3>5. QED  BY <3>3, <3>4 DEF IInv, Types
  <2>3. QED  BY <2>1, <2>2, <2>4 DEF IInv, Types, Unpack, loadVars, effVars, formVars
<1>4. \A x : OnItsWay(t, x) => OnItsWay(t, x)'
  BY <1>1, <1>2 DEF OnItsWay, Unpack, IInv, Types
<1>5. loaded[t] \subseteq loaded'[t] /\ loaded'[t] \subseteq has'[t][gen'[t]]
  BY <1>1, <1>2 DEF Unpack, IInv, Types, TabOK
<1>6. \A e : EffOK(t, e) => EffOK(t, e)'
  BY <1>4, <1>5 DEF EffOK, Unpack
<1>7. TabOK(t)'
  BY <1>4, <1>5, <1>6 DEF IInv, TabOK, Unpack, BuildOK, Coming, One, loadVars, effVars, formVars
<1>8. \A x \in Tabs \ {t} : UNCHANGED tabVars(x)
  BY <1>1 DEF Unpack, tabVars, IInv, Types, loadVars, effVars, formVars
<1>9. QED  BY <1>3, <1>7, <1>8 DEF TabStep

\* More folders on their way disturb nothing.
LEMMA MoreUnpacking ==
    ASSUME NEW t, NEW e, EffOK(t, e), UNCHANGED <<gen[t], loaded[t]>>,
           unpacking[t] \subseteq unpacking'[t]
    PROVE  EffOK(t, e)'
  BY DEF EffOK, OnItsWay

LEMMA AskStep == ASSUME IInv, NEW t \in Tabs, AskBuild(t)  PROVE TabStep(t)
<1>0. PICK e, g : e = Effective(t) /\ g = gen[t]
  OBVIOUS
<1>1. PICK f \in Folders :
        build' = [build EXCEPT ![t] = [at |-> "env", asked |-> gen[t], eff |-> Effective(t),
                                       folder |-> f, from |-> 0]]
  BY DEF AskBuild
<1> DEFINE b == [at |-> "env", asked |-> g, eff |-> e, folder |-> f, from |-> 0]
<1>2. build' = [build EXCEPT ![t] = b]
  BY <1>0, <1>1
<1>3. /\ cache' = [cache EXCEPT ![t] = e] /\ unpacking' = [unpacking EXCEPT ![t] = Asks(t)]
      /\ UNCHANGED <<open, gen, has, loaded, load, touched, fetch, back, editor>> /\ t \in open
  BY <1>0 DEF AskBuild, useVars, loadVars, formVars
<1>4. e \in EffRecord /\ Asks(t) \in SUBSET (Folders \X Gens)
  BY <1>0, EffectiveOK
<1>5. b \in BuildRecord
  BY <1>0, <1>4 DEF BuildRecord, IInv, Types, Gens
<1>6. Types'
  <2> HIDE DEF b
  <2>1. build' \in [Tabs -> BuildRecord] /\ cache' \in [Tabs -> EffRecord]
        /\ unpacking' \in [Tabs -> SUBSET (Folders \X Gens)]
    BY <1>2, <1>3, <1>4, <1>5 DEF IInv, Types
  <2>2. QED  BY <1>3, <2>1 DEF IInv, Types
<1>7. EffOK(t, e)'
  <2>1. unpacking'[t] = Asks(t) /\ gen'[t] = gen[t] /\ loaded'[t] = loaded[t]
    BY <1>3 DEF IInv, Types
  <2>2. QED  BY <1>0, <2>1, EffectiveOK DEF EffOK, OnItsWay
<1>8. TabOK(t)'
  <2>1. cache'[t] = e /\ build'[t] = b  BY <1>2, <1>3 DEF IInv, Types
  <2>2. BuildOK(t, build[t])'
    BY <1>0, <1>3, <1>7, <2>1 DEF IInv, Types, BuildOK, Gens
  <2>3. QED  BY <1>3, <1>7, <2>1, <2>2 DEF IInv, TabOK, Coming, One
<1>9. \A u \in Tabs \ {t} : UNCHANGED tabVars(u)
  BY <1>2, <1>3 DEF tabVars, IInv, Types
<1>10. QED  BY <1>6, <1>8, <1>9 DEF TabStep

\* What loading the changes makes of an effective catalogue that waits for it.
LEMMA ResumedOK ==
    ASSUME IInv, NEW t \in Tabs, NEW F \in SUBSET Folders, NEW e \in EffRecord
    PROVE  /\ Resumed(t, e, F) \in EffRecord
           /\ e.at # "overlay" => Resumed(t, e, F) = e
           /\ e.at = "overlay" => Resumed(t, e, F) = [at |-> "folders", base |-> e.base, waits |-> gen[t],
                                                     changed |-> F, applied |-> e.applied]
  BY DEF IInv, Types, Resumed, EffRecord

LEMMA LoadStep == ASSUME IInv, NEW t \in Tabs, LoadChanges(t)  PROVE TabStep(t)
<1>1. PICK F \in SUBSET Folders :
          /\ touched' = [touched EXCEPT ![t] = F]
          /\ build' = [build EXCEPT ![t].eff = Resumed(t, @, F)]
          /\ unpacking' = [unpacking EXCEPT ![t] =
                IF "overlay" \in {cache[t].at, build[t].eff.at} THEN Unpacking(t, F) ELSE @]
  BY DEF LoadChanges
<1>0. PICK b, e : b = build[t] /\ e = Resumed(t, b.eff, F)
  OBVIOUS
<1>2. /\ cache' = [cache EXCEPT ![t] = NoEff] /\ load' = [load EXCEPT ![t] = "loaded"]
      /\ UNCHANGED <<open, gen, has, loaded, fetch, back, editor>> /\ load[t] = "changes"
  BY DEF LoadChanges, useVars, formVars
<1>3. b \in BuildRecord /\ b.eff \in EffRecord
  BY <1>0 DEF IInv, Types, BuildRecord
<1>4. e \in EffRecord /\ (b.eff.at # "overlay" => e = b.eff)
  BY <1>0, <1>3, ResumedOK
<1>5. build' = [build EXCEPT ![t] = [b EXCEPT !.eff = e]] /\ [b EXCEPT !.eff = e] \in BuildRecord
  BY <1>0, <1>1, <1>3, <1>4 DEF IInv, Types, BuildRecord
<1>6. /\ unpacking[t] \subseteq unpacking'[t] /\ unpacking'[t] \in SUBSET (Folders \X Gens)
      /\ b.eff.at = "overlay" => unpacking'[t] = unpacking[t] \cup {<<f, gen[t]>> : f \in F \ loaded[t]}
  BY <1>0, <1>1 DEF IInv, Types, Unpacking
<1>7. Types'
  <2>1. unpacking' \in [Tabs -> SUBSET (Folders \X Gens)]
    BY <1>1, <1>6 DEF IInv, Types
  <2>2. touched' \in [Tabs -> SUBSET Folders] /\ cache' \in [Tabs -> EffRecord]
    BY <1>1, <1>2, NoEffType DEF IInv, Types
  <2>3. build' \in [Tabs -> BuildRecord]
    BY <1>5 DEF IInv, Types
  <2>4. QED  BY <1>2, <2>1, <2>2, <2>3 DEF IInv, Types
<1>8. EffOK(t, b.eff) => EffOK(t, e)'
  <2>1. CASE b.eff.at # "overlay"
    BY <1>2, <1>4, <1>6, <2>1, MoreUnpacking DEF EffOK, OnItsWay
  <2>2. CASE b.eff.at = "overlay"
    <3>1. e = [at |-> "folders", base |-> b.eff.base, waits |-> gen[t], changed |-> F,
               applied |-> b.eff.applied]
      BY <1>0, <1>3, <2>2, ResumedOK
    <3>2. \A f \in F : f \in loaded[t] \/ <<f, gen[t]>> \in unpacking'[t]
      BY <1>6, <2>2
    <3>3. QED  BY <1>2, <3>1, <3>2 DEF EffOK, OnItsWay
  <2>3. QED  BY <2>1, <2>2
<1>9. TabOK(t)'
  <2>1. cache'[t] = NoEff /\ build'[t] = [b EXCEPT !.eff = e] /\ load'[t] = "loaded" /\ t \in open
    BY <1>2, <1>5 DEF IInv, Types, TabOK
  <2>2. BuildOK(t, build[t])'
    <3>1. BuildOK(t, b)  BY <1>0 DEF IInv, TabOK
    <3>2. /\ build'[t].at = b.at /\ build'[t].asked = b.asked /\ build'[t].folder = b.folder
          /\ build'[t].from = b.from /\ build'[t].eff = e
      BY <1>3, <2>1 DEF BuildRecord
    <3>3. OnItsWay(t, b.folder) => OnItsWay(t, b.folder)'
      BY <1>2, <1>6 DEF OnItsWay
    <3>4. QED  BY <1>2, <1>4, <1>8, <3>1, <3>2, <3>3 DEF BuildOK
  <2>3. QED  BY <1>2, <2>1, <2>2 DEF IInv, TabOK, Coming, One
<1>10. \A u \in Tabs \ {t} : UNCHANGED tabVars(u)
  BY <1>1, <1>2, <1>5 DEF tabVars, IInv, Types
<1>11. QED  BY <1>7, <1>9, <1>10 DEF TabStep

\* A folder that an ensureFolders of the present generation has waited for.
LEMMA NowLoaded ==
    ASSUME NEW t, NEW f, OnItsWay(t, f), Unpacked(t, gen[t], {f})
    PROVE  f \in loaded[t]
  BY DEF OnItsWay, Unpacked

LEMMA ApplyStep == ASSUME IInv, NEW t \in Tabs, Apply(t)  PROVE TabStep(t)
<1>1. PICK e \in {cache[t], build[t].eff} :
        /\ e.at = "folders" /\ Unpacked(t, e.waits, e.changed)
        /\ LET done == [e EXCEPT !.at = "done", !.applied = e.changed \cap has[t][e.base]]
           IN /\ cache' = [cache EXCEPT ![t] = IF @ = e THEN done ELSE @]
              /\ build' = [build EXCEPT ![t].eff = IF @ = e THEN done ELSE @]
  BY DEF Apply
<1>0. PICK b, c, F : b = build[t] /\ c = cache[t] /\ F = e.changed \cap has[t][e.base]
  OBVIOUS
<1> DEFINE done == [at |-> "done", base |-> e.base, waits |-> e.waits, changed |-> e.changed, applied |-> F]
           After(x) == IF x = e THEN done ELSE x
<1>2. b \in BuildRecord /\ b.eff \in EffRecord /\ c \in EffRecord /\ e \in EffRecord /\ F \in SUBSET Folders
  BY <1>0, <1>1 DEF IInv, Types, BuildRecord, EffRecord
<1>3. done = [e EXCEPT !.at = "done", !.applied = e.changed \cap has[t][e.base]] /\ done \in EffRecord
  <2>1. done \in EffRecord  BY <1>2 DEF EffRecord
  <2>2. done = [e EXCEPT !.at = "done", !.applied = F]
    <3>1. PICK m : m = [e EXCEPT !.at = "done"]  OBVIOUS
    <3>2. m \in EffRecord /\ m.at = "done" /\ m.base = e.base /\ m.waits = e.waits /\ m.changed = e.changed
      BY <1>2, <3>1 DEF EffRecord
    <3>3. [m EXCEPT !.applied = F] = done  BY <1>2, <3>2 DEF EffRecord
    <3>4. QED  BY <3>1, <3>3
  <2>3. QED  BY <1>0, <2>1, <2>2
<1>4. /\ cache' = [cache EXCEPT ![t] = After(c)]
      /\ build' = [build EXCEPT ![t] = [b EXCEPT !.eff = After(b.eff)]]
  <2> HIDE DEF done
  <2>1. build' = [build EXCEPT ![t].eff = IF @ = e THEN done ELSE @]  BY <1>1, <1>3
  <2>2. QED  BY <1>0, <1>1, <1>3, <2>1
<1>5. After(c) \in EffRecord /\ After(b.eff) \in EffRecord /\ [b EXCEPT !.eff = After(b.eff)] \in BuildRecord
  <2> HIDE DEF done
  <2>1. After(c) \in EffRecord /\ After(b.eff) \in EffRecord  BY <1>2, <1>3
  <2> HIDE DEF After
  <2>2. QED  BY <1>2, <2>1 DEF BuildRecord
<1>6. UNCHANGED <<open, gen, has, loaded, unpacking, load, touched, fetch, back, editor>>
  BY DEF Apply, useVars, loadVars, formVars
<1>7. EffOK(t, e) => EffOK(t, done)'
  <2> SUFFICES ASSUME EffOK(t, e)  PROVE EffOK(t, done)'
    OBVIOUS
  <2>1. e.base = gen[t] /\ e.waits = gen[t]  BY <1>1 DEF EffOK
  <2>2. e.changed \subseteq loaded[t]  BY <1>1, <2>1 DEF EffOK, OnItsWay, Unpacked
  <2>3. F = e.changed  BY <1>0, <2>1, <2>2 DEF IInv, TabOK
  <2>4. QED  BY <1>6, <2>1, <2>2, <2>3 DEF EffOK
<1>8. \A x \in EffRecord : EffOK(t, x) => EffOK(t, After(x))'
  <2> HIDE DEF done
  <2>1. ASSUME NEW x \in EffRecord, EffOK(t, x)  PROVE EffOK(t, x)'
    BY <1>6, <2>1 DEF EffOK, OnItsWay
  <2>2. QED  BY <1>7, <2>1
<1> HIDE DEF After
<1>9. Types'
  <2>1. cache' \in [Tabs -> EffRecord] /\ build' \in [Tabs -> BuildRecord]
    BY <1>4, <1>5 DEF IInv, Types
  <2>2. QED  BY <1>6, <2>1 DEF IInv, Types
<1>10. TabOK(t)'
  <2>1. cache'[t] = After(c) /\ build'[t] = [b EXCEPT !.eff = After(b.eff)]
    BY <1>4 DEF IInv, Types
  <2>2. t \in open
    BY <1>1 DEF IInv, TabOK, NoEff, NoBuild
  <2>3. c = NoEff => After(c) = NoEff
    BY <1>1 DEF NoEff, After
  <2>4. BuildOK(t, build[t])'
    <3>1. BuildOK(t, b)  BY <1>0 DEF IInv, TabOK
    <3>2. /\ build'[t].at = b.at /\ build'[t].asked = b.asked /\ build'[t].folder = b.folder
          /\ build'[t].from = b.from /\ build'[t].eff = After(b.eff)
      BY <1>2, <2>1 DEF BuildRecord
    <3>3. b.eff.at = "done" => After(b.eff) = b.eff  BY <1>1 DEF After
    <3>4. OnItsWay(t, b.folder) => OnItsWay(t, b.folder)'  BY <1>6 DEF OnItsWay
    <3>5. QED  BY <1>2, <1>6, <1>8, <3>1, <3>2, <3>3, <3>4 DEF BuildOK
  <2>5. QED  BY <1>0, <1>2, <1>6, <1>8, <2>1, <2>2, <2>3, <2>4 DEF IInv, TabOK, Coming, One
<1>11. \A u \in Tabs \ {t} : UNCHANGED tabVars(u)
  BY <1>4, <1>6 DEF tabVars, IInv, Types
<1>12. QED  BY <1>9, <1>10, <1>11 DEF TabStep

LEMMA StartStep == ASSUME IInv, NEW t \in Tabs, StartBuild(t)  PROVE TabStep(t)
<1>0. PICK b, g : b = build[t] /\ g = gen[t]
  OBVIOUS
<1>1. /\ b.at = "env" /\ b.eff.at = "done" /\ b \in BuildRecord /\ g \in Gens /\ b.folder \in Folders
      /\ UNCHANGED <<open, gen, has, loaded, load, touched, cache, fetch, back, editor>>
  BY <1>0 DEF IInv, Types, TabOK, BuildOK, StartBuild, useVars, loadVars, formVars
<1>2. t \in open
  BY <1>0, <1>1 DEF IInv, TabOK, NoBuild
<1>3. CASE b.folder \in b.eff.changed
  <2>0. PICK ended : ended = Ended(b.folder \in has[t][b.eff.base])  OBVIOUS
  <2>1. build' = [build EXCEPT ![t] = ended]
    BY <1>0, <1>3, <2>0 DEF StartBuild
  <2>2. unpacking' = unpacking  BY <1>0, <1>3 DEF StartBuild
  <2>3. ended \in BuildRecord /\ ended.at \notin {"env", "folder"}  BY <2>0, EndedType
  <2>4. Types'  BY <1>1, <2>1, <2>2, <2>3 DEF IInv, Types
  <2>5. build'[t] = ended  BY <2>1 DEF IInv, Types
  <2>6. TabOK(t)'
    BY <1>1, <1>2, <2>2, <2>3, <2>5 DEF IInv, TabOK, Coming, One, BuildOK, EffOK, OnItsWay
  <2>7. \A u \in Tabs \ {t} : UNCHANGED tabVars(u)
    BY <1>1, <2>1, <2>2 DEF tabVars, IInv, Types
  <2>8. QED  BY <2>4, <2>6, <2>7 DEF TabStep
<1>4. CASE b.folder \notin b.eff.changed
  <2> DEFINE n == [at |-> "folder", asked |-> b.asked, eff |-> b.eff, folder |-> b.folder, from |-> g]
  <2>1. build' = [build EXCEPT ![t] = n] /\ n \in BuildRecord
    <3>1. build' = [build EXCEPT ![t].from = g, ![t].at = "folder"]  BY <1>0, <1>4 DEF StartBuild
    <3>2. build' = [build EXCEPT ![t] = [[b EXCEPT !.from = g] EXCEPT !.at = "folder"]]
      BY <1>0, <3>1 DEF IInv, Types
    <3>3. [[b EXCEPT !.from = g] EXCEPT !.at = "folder"] = n
      <4>1. PICK m : m = [b EXCEPT !.from = g]  OBVIOUS
      <4>2. m \in BuildRecord /\ m.from = g /\ m.asked = b.asked /\ m.eff = b.eff /\ m.folder = b.folder
        BY <1>1, <4>1 DEF BuildRecord
      <4>3. [m EXCEPT !.at = "folder"] = n  BY <4>2 DEF BuildRecord
      <4>4. QED  BY <4>1, <4>3
    <3>4. n \in BuildRecord  BY <1>1 DEF BuildRecord
    <3> HIDE DEF n
    <3>5. QED  BY <3>2, <3>3, <3>4
  <2>2. /\ unpacking' = [unpacking EXCEPT ![t] = Unpacking(t, {b.folder})]
        /\ Unpacking(t, {b.folder}) \in SUBSET (Folders \X Gens)
        /\ unpacking[t] \subseteq Unpacking(t, {b.folder})
        /\ b.folder \in loaded[t] \/ <<b.folder, g>> \in Unpacking(t, {b.folder})
    BY <1>0, <1>1, <1>4 DEF StartBuild, Unpacking, IInv, Types
  <2>3. Types'
    <3> HIDE DEF n
    <3>1. build' \in [Tabs -> BuildRecord]  BY <2>1 DEF IInv, Types
    <3>2. unpacking' \in [Tabs -> SUBSET (Folders \X Gens)]  BY <2>2 DEF IInv, Types
    <3>3. QED  BY <1>1, <3>1, <3>2 DEF IInv, Types
  <2>4. \A e : EffOK(t, e) => EffOK(t, e)'
    BY <1>1, <2>2, MoreUnpacking DEF IInv, Types
  <2>5. OnItsWay(t, b.folder)'
    BY <1>0, <1>1, <2>2 DEF OnItsWay, IInv, Types
  <2>6. TabOK(t)'
    <3>1. build'[t] = n  BY <2>1 DEF IInv, Types
    <3>2. BuildOK(t, n)'
      BY <1>0, <1>1, <2>4, <2>5 DEF IInv, TabOK, BuildOK
    <3>3. BuildOK(t, build[t])'  BY <3>1, <3>2
    <3>4. QED  BY <1>1, <1>2, <2>4, <3>3 DEF IInv, TabOK, Coming, One
  <2>7. \A u \in Tabs \ {t} : UNCHANGED tabVars(u)
    BY <1>1, <2>1, <2>2 DEF tabVars, IInv, Types
  <2>8. QED  BY <2>3, <2>6, <2>7 DEF TabStep
<1>5. QED  BY <1>3, <1>4

LEMMA FinishStep == ASSUME IInv, NEW t \in Tabs, FinishBuild(t)  PROVE TabStep(t)
<1>0. PICK ended : ended = Ended(build[t].folder \in has[t][build[t].from])  OBVIOUS
<1>1. build' = [build EXCEPT ![t] = ended]
  BY <1>0 DEF FinishBuild, IInv, Types
<1>2. UNCHANGED <<open, gen, has, loaded, unpacking, load, touched, cache, fetch, back, editor>>
  BY DEF FinishBuild, useVars, loadVars, formVars
<1>3. ended \in BuildRecord /\ ended.at \notin {"env", "folder"}  BY <1>0, EndedType
<1>4. Types'  BY <1>1, <1>2, <1>3 DEF IInv, Types
<1>5. build'[t] = ended /\ t \in open
  BY <1>1 DEF IInv, Types, TabOK, FinishBuild, NoBuild
<1>6. TabOK(t)'
  BY <1>2, <1>3, <1>5 DEF IInv, TabOK, Coming, One, BuildOK, EffOK, OnItsWay
<1>7. \A u \in Tabs \ {t} : UNCHANGED tabVars(u)
  BY <1>1, <1>2 DEF tabVars, IInv, Types
<1>8. QED  BY <1>4, <1>6, <1>7 DEF TabStep

\* The steps of the form, and of the tabs elsewhere, that replace nothing yet.
LEMMA FormStep ==
    ASSUME IInv, NEW t \in Tabs, OpenEditor(t) \/ GoBack(t) \/ StoreFails(t)
    PROVE  TabStep(t)
<1>1. UNCHANGED <<open, gen, has, loaded, unpacking, load, touched, cache, build>> /\ t \in open
  BY DEF IInv, TabOK, OpenEditor, GoBack, StoreFails, useVars, loadVars, effVars, formVars, NoFetch
<1>2. Types'
  BY <1>1 DEF IInv, Types, OpenEditor, GoBack, StoreFails, formVars
<1>3. gen[t] + Coming(t)' <= MaxSwaps
  <2>1. CASE OpenEditor(t)
    BY <2>1 DEF IInv, TabOK, OpenEditor, Coming, One, loadVars, formVars
  <2>2. CASE GoBack(t)
    BY <2>2 DEF IInv, Types, Gens, GoBack, MaySwap, Coming, One, loadVars
  <2>3. CASE StoreFails(t)
    <3>1. fetch[t] # NoFetch /\ fetch'[t] # NoFetch
      BY <2>3 DEF StoreFails, NoFetch, IInv, StoreInv
    <3>2. QED  BY <2>3, <3>1 DEF IInv, TabOK, StoreFails, Coming, One, loadVars
  <2>4. QED  BY <2>1, <2>2, <2>3
<1>4. TabOK(t)'
  BY <1>1, <1>3 DEF IInv, TabOK, BuildOK, EffOK, OnItsWay
<1>5. \A u \in Tabs \ {t} : UNCHANGED tabVars(u)
  BY <1>1 DEF IInv, Types, StoreInv, tabVars, OpenEditor, GoBack, StoreFails, formVars
<1>6. QED  BY <1>2, <1>4, <1>5 DEF TabStep

LEMMA FetchStep ==
    ASSUME IInv, NEW t \in Tabs \cup Elsewhere, Look(t) \/ DownloadFails(t) \/ Store(t)
    PROVE  Types' /\ \A u \in Tabs : TabOK(u)'
<1>1. UNCHANGED <<open, gen, has, loaded, unpacking, load, touched, cache, build, back, editor>>
  BY DEF Look, DownloadFails, Store, useVars, loadVars, effVars, formVars
<1>2. Types'
  BY <1>1 DEF IInv, Types
<1>3. ASSUME NEW u \in Tabs  PROVE \/ fetch'[u] = NoFetch
                                   \/ fetch[u] # NoFetch
                                   \/ MaySwap(u) /\ u \in open
  <2>1. fetch \in [Tabs \cup Elsewhere -> FetchRecord]  BY DEF IInv, StoreInv
  <2>2. CASE Look(t)
    BY <2>1, <2>2 DEF Look, IInv, TabOK
  <2>3. CASE DownloadFails(t)
    BY <2>1, <2>3 DEF DownloadFails
  <2>4. CASE Store(t) /\ u = t
    BY <2>1, <2>4 DEF Store, NoFetch
  <2>5. CASE Store(t) /\ u # t /\ fetch[u] = NoFetch
    <3>1. fetch[u].at = "idle" /\ fetch[u].issue = None /\ ~fetch[u].late  BY <2>5 DEF NoFetch
    <3>2. fetch'[u] = [fetch[u] EXCEPT !.late = @ \/ fetch[u].at = "archive"]
      BY <2>1, <2>5 DEF Store
    <3>3. PICK l : l = (fetch[u].late \/ fetch[u].at = "archive")  BY Zenon
    <3>4. l = FALSE  BY <3>1, <3>3
    <3>5. fetch'[u] = [fetch[u] EXCEPT !.late = FALSE]  BY <3>2, <3>3, <3>4
    <3>6. QED  BY <2>1, <3>1, <3>5 DEF FetchRecord, NoFetch
  <2>6. QED  BY <2>2, <2>3, <2>4, <2>5
<1>4. ASSUME NEW u \in Tabs  PROVE TabOK(u)'
  <2>1. gen[u] + Coming(u)' <= MaxSwaps
    <3>1. CASE fetch'[u] = NoFetch \/ fetch[u] # NoFetch
      <4>1. Coming(u)' <= Coming(u) /\ Coming(u)' \in Nat /\ Coming(u) \in Nat
        BY <1>1, <3>1 DEF Coming, One
      <4>2. QED  BY <4>1 DEF IInv, Types, Gens, TabOK
    <3>2. CASE MaySwap(u)
      <4>1. Coming(u)' <= Coming(u) + 1 /\ Coming(u)' \in Nat /\ Coming(u) \in Nat
        BY <1>1 DEF Coming, One
      <4>2. QED  BY <3>2, <4>1 DEF IInv, Types, Gens, MaySwap
    <3>3. QED  BY <1>3, <3>1, <3>2
  <2>2. u \notin open => fetch'[u] = NoFetch
    BY <1>3 DEF IInv, TabOK
  <2>3. QED  BY <1>1, <2>1, <2>2 DEF IInv, TabOK, BuildOK, EffOK, OnItsWay
<1>5. QED  BY <1>2, <1>4

LEMMA NextBuild == IInv /\ [Next]_vars => IInv'
<1> SUFFICES ASSUME IInv, [Next]_vars  PROVE Types' /\ \A u \in Tabs : TabOK(u)'
  BY NextStore DEF IInv
<1>1. CASE UNCHANGED vars
  <2>1. Types'  BY <1>1 DEF IInv, Types, vars, useVars, loadVars, effVars, formVars
  <2>2. ASSUME NEW u \in Tabs  PROVE TabOK(u)'
    BY <1>1, SameTab DEF IInv, vars, useVars, loadVars, effVars, formVars, tabVars
  <2>3. QED  BY <2>1, <2>2
<1>2. ASSUME NEW t \in Tabs, TabStep(t)  PROVE Types' /\ \A u \in Tabs : TabOK(u)'
  BY <1>2, SameTab DEF TabStep, IInv
<1>3. ASSUME NEW t \in Tabs, \/ OpenPage(t) \/ ClosePage(t) \/ OverlayChanged(t) \/ OpenEditor(t)
                              \/ Loading(t) \/ Building(t) \/ Replacing(t)
      PROVE  TabStep(t)
  BY <1>3, OpenPageStep, ClosePageStep, ReadStep, FormStep, LoadStep, SwapStep, AskStep, UnpackStep,
     ApplyStep, StartStep, FinishStep DEF Loading, Building, Replacing
<1>4. ASSUME NEW t \in Tabs \cup Elsewhere, Fetching(t)  PROVE Types' /\ \A u \in Tabs : TabOK(u)'
  BY <1>4, FetchStep DEF Fetching
<1>5. CASE StoreOfOthers
  <2>1. Types'  BY <1>5 DEF IInv, Types, StoreOfOthers, useVars, loadVars, effVars, formVars
  <2>2. ASSUME NEW u \in Tabs  PROVE TabOK(u)'
    BY <1>5, SameTab DEF IInv, StoreOfOthers, useVars, loadVars, effVars, formVars, tabVars
  <2>3. QED  BY <2>1, <2>2
<1>6. QED  BY <1>1, <1>2, <1>3, <1>4, <1>5 DEF Next

\* What goes wrong with a build.
Spoilt(t) ==
    LET b == build[t] IN
      \/ b.at = "folder" /\ build'[t].at = "built" /\ b.from # b.eff.base
      \/ build'[t].at = "failed" /\ b.at # "failed"
      \/ build'[t].at = "built" /\ b.at # "built" /\ b.eff.applied # b.eff.changed

\* The steps that leave `at' of a build, or make it something else than an end.
LEMMA NotAnEnd ==
    ASSUME IInv, Next, NEW t \in Tabs, ~StartBuild(t), ~FinishBuild(t)
    PROVE  build'[t].at = build[t].at \/ build'[t].at \notin {"built", "failed"}
<1>1. build \in [Tabs -> BuildRecord]  BY DEF IInv, Types
<1>2. ASSUME NEW u \in Tabs \cup Elsewhere, Fetching(u)  PROVE build' = build
  BY <1>2 DEF Fetching, Look, DownloadFails, Store, effVars
<1>3. StoreOfOthers => build' = build  BY DEF StoreOfOthers, effVars
<1>4. ASSUME NEW u \in Tabs,
             \/ OpenPage(u) \/ OverlayChanged(u) \/ OpenEditor(u) \/ ReadRefreshed(u) \/ ClearStored(u)
             \/ Adopt(u) \/ Unpack(u) \/ Replacing(u)
      PROVE  build' = build
  BY <1>4 DEF OpenPage, OverlayChanged, OpenEditor, ReadRefreshed, ClearStored, Adopt, Unpack, Replacing, StoreFails,
     SwapIn, GoBack, SwapBack, effVars
<1>5. ASSUME NEW u \in Tabs, ClosePage(u) \/ AskBuild(u)
      PROVE  build'[t].at = build[t].at \/ build'[t].at \notin {"built", "failed"}
  BY <1>1, <1>5 DEF ClosePage, AskBuild, NoBuild
<1>6. ASSUME NEW u \in Tabs, LoadChanges(u) \/ Apply(u)  PROVE build'[t].at = build[t].at
  BY <1>1, <1>6 DEF LoadChanges, Apply, BuildRecord
<1>7. ASSUME NEW u \in Tabs, u # t, StartBuild(u) \/ FinishBuild(u)  PROVE build'[t] = build[t]
  BY <1>1, <1>7 DEF StartBuild, FinishBuild
<1>8. QED  BY <1>2, <1>3, <1>4, <1>5, <1>6, <1>7 DEF Next, Loading, Building

\* A build is a mixture of two catalogues, misses a change or fails only if the
\* page replaced its catalogue after the build was asked for (local-api.js
\* submit: `the job is built with the catalogue as it is now').
THEOREM BuildsAreWhole == Spec => BuildIsWholeUnlessSwapped
<1> DEFINE Whole == \A t \in Tabs : Spoilt(t) => gen[t] > build[t].asked
<1>1. IInv /\ [Next]_vars => [Whole]_vars
  <2> SUFFICES ASSUME IInv, Next, NEW t \in Tabs, Spoilt(t)  PROVE gen[t] > build[t].asked
    OBVIOUS
  <2>1. BuildOK(t, build[t]) /\ loaded[t] \subseteq has[t][gen[t]] /\ gen[t] \in Nat /\ build[t].asked \in Nat
    BY DEF IInv, TabOK, Types, Gens, BuildRecord
  <2>2. CASE StartBuild(t)
    <3>1. build[t].at = "env" /\ build[t].eff.at = "done"  BY <2>2 DEF StartBuild
    <3>2. SUFFICES ASSUME build[t].asked = gen[t]  PROVE FALSE
      BY <2>1, <3>1 DEF BuildOK
    <3>3. EffOK(t, build[t].eff)  BY <2>1, <3>1, <3>2 DEF BuildOK
    <3>4. build[t].eff.applied = build[t].eff.changed /\ build[t].eff.changed \subseteq has[t][build[t].eff.base]
      BY <2>1, <3>1, <3>3 DEF EffOK
    <3>5. CASE build[t].folder \in build[t].eff.changed
      <4>1. PICK ended : ended = Ended(build[t].folder \in has[t][build[t].eff.base])  OBVIOUS
      <4>2. build'[t] = ended  BY <2>2, <3>5, <4>1 DEF StartBuild, IInv, Types
      <4>3. ended.at = "built"  BY <3>4, <3>5, <4>1, EndedType
      <4>4. QED  BY <3>1, <3>4, <4>2, <4>3 DEF Spoilt
    <3>6. CASE build[t].folder \notin build[t].eff.changed
      <4>1. build'[t].at = "folder"  BY <2>2, <3>6 DEF StartBuild, IInv, Types, BuildRecord
      <4>2. QED  BY <3>1, <4>1 DEF Spoilt
    <3>7. QED  BY <3>5, <3>6
  <2>3. CASE FinishBuild(t)
    <3>1. build[t].at = "folder" /\ Unpacked(t, build[t].from, {build[t].folder})  BY <2>3 DEF FinishBuild
    <3>2. SUFFICES ASSUME build[t].asked = gen[t]  PROVE FALSE
      BY <2>1, <3>1 DEF BuildOK
    <3>3. /\ EffOK(t, build[t].eff) /\ build[t].eff.at = "done" /\ build[t].from = gen[t]
          /\ OnItsWay(t, build[t].folder)
      BY <2>1, <3>1, <3>2 DEF BuildOK
    <3>4. build[t].folder \in has[t][build[t].from]
      BY <2>1, <3>1, <3>3, NowLoaded
    <3>5. PICK ended : ended = Ended(build[t].folder \in has[t][build[t].from])  OBVIOUS
    <3>6. build'[t] = ended /\ ended.at = "built"
      BY <2>3, <3>4, <3>5, EndedType DEF FinishBuild, IInv, Types
    <3>7. build[t].eff.applied = build[t].eff.changed /\ build[t].from = build[t].eff.base
      BY <3>3 DEF EffOK
    <3>8. QED  BY <3>6, <3>7 DEF Spoilt
  <2>4. CASE ~StartBuild(t) /\ ~FinishBuild(t)
    <3>1. CASE build'[t].at = build[t].at  BY <3>1 DEF Spoilt
    <3>2. CASE build'[t].at \notin {"built", "failed"}  BY <3>2 DEF Spoilt
    <3>3. QED  BY <2>4, <3>1, <3>2, NotAnEnd
  <2>5. QED  BY <2>2, <2>3, <2>4
<1>2. QED  BY InitBuild, NextBuild, <1>1, PTL DEF Spec, BuildIsWholeUnlessSwapped, Spoilt
=============================================================================
