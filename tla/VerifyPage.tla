------------------------------ MODULE VerifyPage ------------------------------
(***************************************************************************)
(* The verify page (verify.js): it reads a dropped file without running    *)
(* it, and says row by row what it found in it, what the key built into    *)
(* the page, the Merkle proofs of a plan (merkle.js, rtscript.js) and the  *)
(* release ledger (ledger.js) prove, and what a server answers about it.   *)
(*                                                                         *)
(* A hash is an injective constructor. A signed document is [by, intact,   *)
(* ...]: whose signature its last line is ("none": no well formed one for  *)
(* this kind of document), and whether what it covers was changed since.   *)
(***************************************************************************)
EXTENDS Integers, Sequences, FiniteSets, ListOps

CONSTANTS
    Nothing,     \* what is not there
    Droppable,   \* files there are to drop, by name
    Published,   \* the published blocks, in the order of the signed tree
    BuiltAfter,  \* the releases this page's own copy was built after
    LedgerDocs,  \* ledgers a server may answer
    MaxDropped,  \* bound: how many files are dropped
    MaxWorld     \* bound: withdrawals and new catalogues

ASSUME VerifyAssumption == MaxDropped \in Nat /\ MaxWorld \in Nat

VARIABLES
    baked,     \* the key built into this page: "ours" or "none"
    server,    \* a server is set
    lists,     \* the lists of what is withdrawn, as they were issued
    catalogue, \* how often the server's catalogue changed
    dropped,   \* the files dropped: [name, pc, derived, about, crossed]
    said,      \* the rows the last step added: of which file, from which ledger
    page       \* which file each part of the page is about, 0 is hidden

verifyVars == <<baked, server, lists, catalogue, dropped, said, page>>

Checks(doc) == baked # "none" /\ doc.by = baked /\ doc.intact

(***************************************************************************)
(* Merkle trees: an odd node at a level goes up as it is.                  *)
(***************************************************************************)
LeafHash(text) == <<text>>
NodeHash(l, r) == <<l, r>>

LevelAbove(level) ==
    [i \in 1..((Len(level) + 1) \div 2) |->
        IF 2 * i <= Len(level) THEN NodeHash(level[2 * i - 1], level[2 * i]) ELSE level[2 * i - 1]]
\* The levels from the leaves up; one of a single node stays as it is.
BuildLevels(leaves) ==
    LET level[n \in 0..Len(leaves)] == IF n = 0 THEN leaves ELSE LevelAbove(level[n - 1])
    IN  level
TreeRoot(leaves) == IF leaves = <<>> THEN Nothing ELSE BuildLevels(leaves)[Len(leaves)][1]

\* The sibling at each level and its side; what goes up as it is has none.
SiblingAt(level, i) ==
    LET pair == IF i % 2 = 1 THEN i + 1 ELSE i - 1
    IN  IF pair \in DOMAIN level THEN <<[right |-> pair > i, hash |-> level[pair]]>> ELSE <<>>
ProofFor(leaves, i) ==
    FoldLeft(LAMBDA p, level : [at |-> (p.at + 1) \div 2, steps |-> p.steps \o SiblingAt(level, p.at)],
             [at |-> i, steps |-> <<>>], [n \in 1..Len(leaves) |-> BuildLevels(leaves)[n - 1]]).steps

\* The hashes on the way up a proof, from that of the leaf.
WayUp(leaf, proof) ==
    LET hash[n \in 0..Len(proof)] ==
            IF n = 0 THEN leaf
            ELSE IF proof[n].right THEN NodeHash(hash[n - 1], proof[n].hash) ELSE NodeHash(proof[n].hash, hash[n - 1])
    IN  hash
RootFromProof(leaf, proof) == WayUp(leaf, proof)[Len(proof)]

PublishedLeaves == [i \in DOMAIN Published |-> LeafHash(Published[i])]
(***************************************************************************)
(* A plan's proofs (rtScriptRows)                                          *)
(***************************************************************************)
\* Mutant: a block without a download needs no proof.
ActsByFiles(b) == b.files # {}

\* A block has a download or `runs' commands to install by: its install, step and
\* npkg lines. `text' is all of it but how the app is started (run and nrun lines)
\* and the proof itself.
Acts(b) == b.files # {} \/ b.runs

BlockState(b, root) ==
    IF b.proof = Nothing THEN "missing"
    ELSE IF RootFromProof(LeafHash(b.text), b.proof) = root THEN "proved" ELSE "wrong"

OfBlocks(states) ==
    CASE states = {} -> "none"
      [] "wrong" \in states -> "wrong"
      [] states = {"proved"} -> "proved"
      [] OTHER -> "partly"

SetupRow(plan) ==
    IF plan.roots = Nothing THEN "none"
    ELSE IF ~plan.roots.readable THEN "unreadable"
    ELSE IF ~Checks(plan.roots) THEN (IF baked = "none" THEN "no key" ELSE "bad")
    ELSE IF plan.roots.root = Nothing THEN "no root"
    ELSE OfBlocks({BlockState(b, plan.roots.root) : b \in {c \in ToSet(plan.targets) : Acts(c)}})

(***************************************************************************)
(* The rows that need no server (paint)                                    *)
(***************************************************************************)
DownloadsOf(plan) == UNION {b.files : b \in ToSet(plan.targets)}

PackedRow(f, plan) ==
    IF f.pack = {} THEN "none"
    ELSE IF plan = Nothing THEN "some files"
    ELSE IF DownloadsOf(plan) = {} THEN "some files"
    ELSE IF DownloadsOf(plan) \subseteq f.pack THEN "all files" ELSE "not all files"

ChoicesRow(f) ==
    IF f.footerBad THEN "could not be read"
    ELSE IF f.plan = Nothing THEN "written when it runs"
    ELSE IF f.plan.by = "none" THEN (IF SetupRow(f.plan) = "proved" THEN "need no signature" ELSE "not signed")
    ELSE IF baked = "none" THEN "signed, no key"
    ELSE IF Checks(f.plan) THEN "signed by us" ELSE "bad signature"

OriginRow(f) ==
    IF f.record = Nothing THEN "none"
    ELSE IF f.record.backend = Nothing THEN "nowhere"
    ELSE IF f.plan # Nothing /\ f.plan.by # "none" THEN "signed for" ELSE "a claim"

OfflineRows(f, plan) ==
    {<<"packed", PackedRow(f, plan)>>, <<"choices", ChoicesRow(f)>>, <<"origin", OriginRow(f)>>}
    \cup (IF f.plan = Nothing THEN {} ELSE {<<"setup", SetupRow(f.plan)>>})

(***************************************************************************)
(* The release ledger                                                      *)
(***************************************************************************)
ZeroRoot == <<>>
\* Mutant: a list, not a chain.
ListRoot(entries) == IF entries = <<>> THEN ZeroRoot ELSE <<ZeroRoot, Last(entries)>>

\* An entry's line: its number, the page it is about.
ChainRoots(entries) ==
    LET root[n \in 0..Len(entries)] == IF n = 0 THEN ZeroRoot ELSE <<root[n - 1], entries[n]>>
    IN  root
ChainRoot(entries) == ChainRoots(entries)[Len(entries)]

\* What is read has lists where lists belong; and the key has signed no tree
\* but the one of the published blocks.
ASSUME DocumentsAssumption ==
    /\ IsList(Published) /\ IsList(BuiltAfter)
    /\ \A doc \in LedgerDocs : IsList(doc.entries) /\ \A e \in ToSet(doc.entries) : e = [seq |-> e.seq, page |-> e.page]
    /\ \A f \in DOMAIN Droppable : \A plan \in {Droppable[f].plan, Droppable[f].today} \ {Nothing} :
          /\ \A b \in ToSet(plan.targets) : b.proof # Nothing => IsList(b.proof)
          /\ plan.roots # Nothing /\ plan.roots.by = "ours" /\ plan.roots.intact =>
                plan.roots.root \in {Nothing, TreeRoot(PublishedLeaves)}

NumberedFrom1(entries) == \A i \in DOMAIN entries : entries[i].seq = i
ChainHolds(doc) ==
    /\ NumberedFrom1(doc.entries)
    /\ doc.stated \in {Nothing, ChainRoot(doc.entries)}

\* The root the ledger had when this page's copy was built.
Witness == ChainRoot(BuiltAfter)
RootAt(entries, seq) == ChainRoot(SubSeq(entries, 1, seq))
RewrittenRow(entries) ==
    IF BuiltAfter = <<>> THEN "not asked"
    ELSE IF Len(entries) < Len(BuiltAfter) THEN "cannot be told"
    ELSE IF RootAt(entries, Len(BuiltAfter)) = Witness THEN "no" ELSE "yes"

InLedger(f, doc) == \E e \in ToSet(doc.entries) : e.page = f.bytes

\* What the note below the rows says of the whole.
LedgerNote(f, doc) ==
    IF RewrittenRow(doc.entries) = "yes" THEN "unresolved"
    ELSE IF InLedger(f, doc) /\ Checks(doc) /\ ChainHolds(doc) THEN "published by us" ELSE "proves nothing"

LedgerRows(f, doc) ==
    {<<"ledger", IF Checks(doc) THEN "signed by us" ELSE "not signed">>,
     <<"chain", IF ~Checks(doc) THEN "not checked" ELSE IF ChainHolds(doc) THEN "holds" ELSE "broken">>,
     <<"bytes", IF ~Checks(doc) THEN "not checked" ELSE IF InLedger(f, doc) THEN "published" ELSE "not in it">>,
     <<"rewritten", RewrittenRow(doc.entries)>>, <<"note", LedgerNote(f, doc)>>}

(***************************************************************************)
(* Reading a file                                                          *)
(***************************************************************************)
NoRows == [of |-> 0, rows |-> {}, doc |-> Nothing]
InitVerify ==
    /\ baked \in {"ours", "none"} /\ server \in BOOLEAN
    /\ lists = <<{}>> /\ catalogue = 0
    /\ dropped = <<>> /\ said = NoRows
    /\ page = [facts |-> 0, ledger |-> 0, server |-> 0]

Files == Droppable
Ledgers == LedgerDocs
FileOf(n) == Files[dropped[n].name]
ItsPlan(n) == IF dropped[n].derived THEN FileOf(n).today ELSE FileOf(n).plan

At(n, where) == dropped[n].pc = where
Going(n) == dropped[n].pc # "ended"
Moved(n, where) == [dropped EXCEPT ![n].pc = where]
SaysNothing == said' = NoRows
Says(n, rows) == said' = [of |-> n, rows |-> rows, doc |-> Nothing]

\* What the page showed is hidden while the file is read; what was being
\* read or asked goes on.
Drop(f) ==
    /\ Len(dropped) < MaxDropped
    /\ dropped' = Append([n \in DOMAIN dropped |-> IF Going(n) THEN [dropped[n] EXCEPT !.crossed = TRUE] ELSE dropped[n]],
                         [name |-> f, pc |-> "read", derived |-> FALSE, about |-> Nothing,
                          crossed |-> \E n \in DOMAIN dropped : Going(n)])
    /\ page' = [page EXCEPT !.facts = 0, !.ledger = 0]
    /\ SaysNothing /\ UNCHANGED <<baked, server, lists, catalogue>>

\* Hashed and read: a copy of this page, an installer, or neither.
Unreadable(n) ==
    /\ At(n, "read") /\ FileOf(n).is = "other"
    /\ dropped' = Moved(n, "ended")
    /\ SaysNothing /\ UNCHANGED <<baked, server, lists, catalogue, page>>

ReadPage(n) ==
    /\ At(n, "read") /\ FileOf(n).is = "page"
    /\ dropped' = Moved(n, IF server THEN "releases" ELSE "ended")
    /\ page' = [page EXCEPT !.ledger = n]
    /\ SaysNothing /\ UNCHANGED <<baked, server, lists, catalogue>>

ReadInstaller(n) ==
    /\ At(n, "read") /\ FileOf(n).is = "installer"
    /\ dropped' = Moved(n, IF ItsPlan(n) = Nothing /\ ~FileOf(n).footerBad THEN "derive" ELSE "paint")
    /\ SaysNothing /\ UNCHANGED <<baked, server, lists, catalogue, page>>

\* The plan the record asks for, or else the name, by this page's catalogue.
Derive(n) ==
    /\ At(n, "derive")
    /\ \E derived \in BOOLEAN : dropped' = [Moved(n, "paint") EXCEPT ![n].derived = derived]
    /\ SaysNothing /\ UNCHANGED <<baked, server, lists, catalogue, page>>

\* Mutant: the rows of the server stay.
PaintOver(n) ==
    /\ At(n, "paint")
    /\ dropped' = Moved(n, IF server /\ ItsPlan(n) # Nothing THEN "known" ELSE "ended")
    /\ Says(n, OfflineRows(FileOf(n), ItsPlan(n)))
    /\ page' = [page EXCEPT !.facts = n]
    /\ UNCHANGED <<baked, server, lists, catalogue>>

Paint(n) ==
    /\ At(n, "paint")
    /\ dropped' = Moved(n, IF server /\ ItsPlan(n) # Nothing THEN "known" ELSE "ended")
    /\ Says(n, OfflineRows(FileOf(n), ItsPlan(n)))
    /\ page' = [page EXCEPT !.facts = n, !.server = 0]
    /\ UNCHANGED <<baked, server, lists, catalogue>>

(***************************************************************************)
(* Asking a server                                                         *)
(***************************************************************************)
Answered(n, where, rows) ==
    /\ dropped' = Moved(n, where) /\ Says(n, rows)
    /\ UNCHANGED <<baked, server, lists, catalogue, page>>

Releases(n) ==
    /\ At(n, "releases")
    /\ dropped' = Moved(n, "ended")
    /\ \/ \E doc \in Ledgers : said' = [of |-> n, rows |-> LedgerRows(FileOf(n), doc), doc |-> doc]
       \/ Says(n, {})
    /\ page' = IF page.ledger = 0 THEN page ELSE [page EXCEPT !.ledger = n]
    /\ UNCHANGED <<baked, server, lists, catalogue>>

\* What the questions are about: the record in the file, or the one a
\* signed answer for its name is of.
OwnHash(f) ==
    IF f.record # Nothing THEN f.record.id ELSE IF f.plan # Nothing THEN f.plan.of ELSE Nothing

About(n, hash, row) ==
    /\ dropped' = [Moved(n, IF hash # Nothing /\ FileOf(n).plan # Nothing THEN "fresh" ELSE "revoked")
                      EXCEPT ![n].about = hash]
    /\ Says(n, {<<"known", row>>})
    /\ UNCHANGED <<baked, server, lists, catalogue, page>>

NotAnswered(n) == About(n, OwnHash(FileOf(n)), "could not be asked")

AskRecord(n) ==
    /\ At(n, "known") /\ OwnHash(FileOf(n)) # Nothing
    /\ \/ \E row \in {"the same", "something else", "no"} : About(n, OwnHash(FileOf(n)), row)
       \/ NotAnswered(n)

\* The records there are plans of with our signature, which anybody may have kept.
SignedRecords ==
    ({Files[f].named : f \in DOMAIN Files} \ {Nothing})
    \cup {Files[f].plan.of : f \in {g \in DOMAIN Files : LET plan == Files[g].plan IN
                                       plan # Nothing /\ plan.by = "ours" /\ plan.intact}}

\* A plan for the name: signed by our key it is believed, whichever record it is of.
AskByName(n) ==
    /\ At(n, "known") /\ OwnHash(FileOf(n)) = Nothing
    /\ \/ /\ FileOf(n).named # Nothing
          /\ \E by \in {"ours", "other", "none"}, record \in SignedRecords :
                IF Checks([by |-> by, intact |-> TRUE])
                THEN About(n, record, "by name")
                ELSE About(n, Nothing, "could not be asked")
       \/ /\ FileOf(n).named = Nothing
          /\ About(n, Nothing, "nothing to ask")

\* The plan the server makes today, for a number made up just now: signed
\* with the moment it was made and the number among its lines.
FreshPlan(f) == [by |-> "ours", intact |-> TRUE, number |-> "new", at |-> "today",
                 body |-> IF catalogue = 0 /\ f.plan # Nothing THEN f.plan.body ELSE "newer"]

\* Lines of a plan, but for the `request nonce' line.
Bare(plan) == <<plan.body, plan.at, IF plan.by = "none" THEN Nothing ELSE <<plan.by, plan.number, plan.at, plan.body>> >>

LiveRow(doc) ==
    IF doc.by = "none" THEN "no signature"
    ELSE IF baked = "none" THEN "cannot be told"
    ELSE IF ~Checks(doc) THEN "bad signature"
    ELSE IF doc.number = "new" THEN "yes" ELSE "not proved"

SameRow(f, doc) == IF Bare(doc) = Bare(f.plan) THEN "yes" ELSE "no"

FreshRows(f, doc) == {<<"live", LiveRow(doc)>>, <<"same", SameRow(f, doc)>>}

\* From the server, from a recording of it, or from somebody else.
FreshAnswers(f) ==
    {FreshPlan(f), [FreshPlan(f) EXCEPT !.number = "old"], [FreshPlan(f) EXCEPT !.by = "other"],
     [FreshPlan(f) EXCEPT !.intact = FALSE], [FreshPlan(f) EXCEPT !.by = "none"]}

AskFresh(n) ==
    /\ At(n, "fresh")
    /\ \/ \E doc \in FreshAnswers(FileOf(n)) : Answered(n, "revoked", FreshRows(FileOf(n), doc))
       \/ \E row \in {"withdrawn", "could not be compared"} : Answered(n, "revoked", {<<"same", row>>})

\* All of an installer that a list may name.
NamesOf(about, f, plan) ==
    ({about} \ {Nothing}) \cup (IF f.record = Nothing THEN {} ELSE {f.record.source}) \cup DownloadsOf(plan)

WithdrawnRow(about, names, doc) ==
    IF names \cap doc.entries # {} THEN "yes"
    ELSE IF about = Nothing THEN "cannot be told" ELSE "no"

ListCaveat(doc) ==
    IF doc.by = "none" THEN "not signed"
    ELSE IF baked # "none" /\ ~Checks(doc) THEN "bad signature" ELSE "none"

ListRows(about, names, doc) == {<<"withdrawn", WithdrawnRow(about, names, doc), ListCaveat(doc), doc.issued>>}

\* A list as it was issued once, or one that says it was.
ListDocs ==
    {[by |-> "ours", intact |-> TRUE, issued |-> i, entries |-> lists[i]] : i \in DOMAIN lists}
    \cup {[by |-> by, intact |-> by # "ours", issued |-> i, entries |-> {}] : by \in {"ours", "other", "none"}, i \in DOMAIN lists}

Names(n) == NamesOf(dropped[n].about, FileOf(n), ItsPlan(n))

\* The last answer; only now are the rows of the server painted.
AskWithdrawn(n) ==
    /\ At(n, "revoked")
    /\ dropped' = Moved(n, "ended")
    /\ \/ \E doc \in ListDocs : Says(n, ListRows(dropped[n].about, Names(n), doc))
       \/ Says(n, {<<"withdrawn", "could not be checked", "none", 0>>})
    /\ page' = [page EXCEPT !.server = n]
    /\ UNCHANGED <<baked, server, lists, catalogue>>

(***************************************************************************)
(* Meanwhile                                                               *)
(***************************************************************************)
Withdrawable == UNION {Names(n) : n \in {m \in DOMAIN dropped : ItsPlan(m) # Nothing}}

World == server /\ Len(lists) + catalogue <= MaxWorld
WithdrawMore ==
    /\ World
    /\ \E x \in Withdrawable \ Last(lists) : lists' = Append(lists, Last(lists) \cup {x})
    /\ SaysNothing /\ UNCHANGED <<baked, server, catalogue, dropped, page>>

CatalogueChanges ==
    /\ World
    /\ catalogue' = catalogue + 1
    /\ SaysNothing /\ UNCHANGED <<baked, server, lists, dropped, page>>

NextVerify ==
    \/ \E f \in DOMAIN Files : Drop(f)
    \/ \E n \in DOMAIN dropped :
          \/ Unreadable(n) \/ ReadPage(n) \/ ReadInstaller(n) \/ Derive(n) \/ Paint(n) \/ Releases(n)
          \/ AskRecord(n) \/ AskByName(n) \/ AskFresh(n) \/ AskWithdrawn(n)
    \/ WithdrawMore \/ CatalogueChanges

SpecVerify == InitVerify /\ [][NextVerify]_verifyVars

(***************************************************************************)
(* Properties                                                              *)
(***************************************************************************)
\* "Proved" is said only if each block that installs or runs something is one
\* of the published ones; an installer is called self-sufficient only if
\* every download of every machine is packed; and "not withdrawn" without a
\* caveat, by a page with a key, only if that list really named neither the
\* record of the file, nor the source it was built from, nor any download. A
\* file that has only its name is asked about by a record some plan of our own
\* names, which a kept plan of another record does as well: of its record the
\* row is no proof, of its downloads it is (rtScriptRows, merkle.js, paint,
\* serverChecks).
RowsAreEarned ==
    said.of # 0 =>
        LET f == FileOf(said.of)  about == dropped[said.of].about IN
        /\ <<"setup", "proved">> \in said.rows \/ <<"choices", "need no signature">> \in said.rows =>
              \A b \in ToSet(f.plan.targets) : b.files # {} \/ b.runs => b.text \in ToSet(Published)
        /\ <<"packed", "all files">> \in said.rows =>
              \A b \in ToSet(ItsPlan(said.of).targets) : b.files \subseteq f.pack
        /\ \A i \in DOMAIN lists : <<"withdrawn", "no", "none", i>> \in said.rows /\ baked # "none" =>
              /\ IF OwnHash(f) # Nothing THEN OwnHash(f) \notin lists[i]
                 ELSE about \in SignedRecords \ lists[i]
              /\ f.record # Nothing => f.record.source \notin lists[i]
              /\ \A b \in ToSet(ItsPlan(said.of).targets) : b.files \cap lists[i] = {}

\* A ledger is called unchanged just when it continues the one this copy was
\* built after; one that does not is never quoted without a warning, and a
\* page is called published only by a signed ledger that names it and holds
\* together (paintPage, ledger.js).
RewriteIsSeen ==
    said.doc # Nothing =>
        LET entries == said.doc.entries
            continues == IsPrefix(BuiltAfter, entries)
        IN  /\ <<"rewritten", "no">> \in said.rows => continues
            /\ <<"rewritten", "yes">> \in said.rows => ~continues
            /\ <<"note", "published by us">> \in said.rows =>
                  /\ continues \/ Len(entries) < Len(BuiltAfter)
                  /\ Checks(said.doc)
                  /\ \E i \in DOMAIN entries : entries[i] = [seq |-> i, page |-> FileOf(said.of).bytes]

\* What the page shows of one file is not below the facts of another, unless
\* that one was dropped while the first was being read or asked about.
MixedOnlyWhenCrossed ==
    /\ page.facts # 0 /\ page.server \notin {0, page.facts} => dropped[page.server].crossed
    /\ page.facts # 0 /\ page.ledger # 0 => dropped[page.facts].crossed

\* An installer just as our server made it is not called changed while
\* today's plan is the same.
GenuineIsSame ==
    {<<"same", "no">>, <<"live", "yes">>} \subseteq said.rows =>
        catalogue > 0 \/ FileOf(said.of).plan.by # "ours" \/ ~FileOf(said.of).plan.intact
=============================================================================
