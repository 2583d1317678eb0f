---------------------------- MODULE ChangeEditor ----------------------------
(***************************************************************************)
(* The changes a person makes to the catalogue of a page, as a list of     *)
(* small changes to the catalogue built into it, and the Runtimes page     *)
(* that makes them (overlay.js, catalog-editor.js, change-list.js): forms  *)
(* for one item, the list of changes, files that are imported, and what    *)
(* builds get out of it. Where the list is kept is OverlayStore's.         *)
(***************************************************************************)
EXTENDS FiniteSets, ListOps

CONSTANTS
    Contents,   \* catalogues: [release, recipe, rule: sequences, policy, oses, methods]
    Typed,      \* by kind: what a person may type
    Documents,  \* overlays that are imported: sequences of changes
    Ids,        \* of added items
    MaxEdits,   \* bound: how often the list is changed
    MaxReloads  \* bound: how often the page is opened again

Kinds == {"release", "recipe", "rule"}

ASSUME ChangeEditorAssumption ==
    /\ \A b \in Contents, kind \in Kinds : IsList(b[kind])
    /\ \A document \in Documents : IsList(document)
    /\ MaxEdits \in Nat /\ MaxReloads \in Nat

VARIABLES
    base,     \* the catalogue built into the page
    list,     \* the changes in use
    shown,    \* the changes the Runtimes page knows
    form,     \* the item it has open
    review,   \* changes of an imported file that may be taken
    awaited,  \* what goes on when the list is stored
    edits, reloads

editorVars == <<base, list, shown, form, review, awaited, edits, reloads>>

NoValue == [none |-> TRUE]
NoForm == [kind |-> "none"]
NoReview == <<>>

(***************************************************************************)
(* What a change points at                                                 *)
(*                                                                         *)
(* A path's last part is a set of fields and what is in them: a release is *)
(* named by some of its own, a recipe and a rule by their index.           *)
(***************************************************************************)
Nowhere == {}
AtIndex(i) == {<<"index", i>>}
ThePolicy == {<<"field", "policy">>}
ReleaseSelector(r) == {<<"url", r.url>>, <<"variant", r.variant>>}

PathFor(b, kind, i) ==
    IF i = 0 THEN Nowhere ELSE IF kind = "release" THEN ReleaseSelector(b.release[i]) ELSE AtIndex(i)

SelMatch(b, kind, i, at) ==
    IF kind = "release" THEN \A p \in at : b.release[i][p[1]] = p[2] ELSE at = AtIndex(i)

\* The index of the item, 0 if it is not there or not the only one.
Locate(b, c) ==
    LET found == {i \in DOMAIN b[c.kind] : SelMatch(b, c.kind, i, c.at)}
    IN  IF Cardinality(found) = 1 THEN CHOOSE i \in found : TRUE ELSE 0

BaseValue(b, c) ==
    IF c.kind = "policy" THEN b.policy
    ELSE IF Locate(b, c) = 0 THEN NoValue ELSE b[c.kind][Locate(b, c)]

(***************************************************************************)
(* Values                                                                  *)
(***************************************************************************)
CheckRelease(r) ==
    (IF r.url = "ftp" \/ r.sha = "short" THEN {"error"} ELSE {}) \cup (IF r.sha = "" THEN {"warning"} ELSE {})
CheckRecipe(r, b) ==
    (IF r.steps = "two in one" THEN {"error"} ELSE {})
    \cup (IF r.method \notin b.methods \/ r.steps = "none" THEN {"warning"} ELSE {})
CheckRule(r, b) ==
    IF r.min = "none" THEN {"warning"} ELSE IF r.min \notin b.oses THEN {"error"} ELSE {}
CheckPolicy(p) == IF p.versions = "no spec" THEN {"error"} ELSE {}

CheckValue(b, kind, v) ==
    CASE kind = "release" -> CheckRelease(v)
      [] kind = "recipe" -> CheckRecipe(v, b)
      [] kind = "rule" -> CheckRule(v, b)
      [] OTHER -> CheckPolicy(v)

(***************************************************************************)
(* Changes                                                                 *)
(***************************************************************************)
Change(op, kind, at, id, value, was) ==
    [op |-> op, kind |-> kind, at |-> at, id |-> id, value |-> value, was |-> was]

ChangeKey(c) == IF c.op = "add" /\ c.id # "" THEN <<c.kind, "add", c.id>> ELSE <<c.kind, "at", c.at>>

\* The shapes the editor makes, and a release that is named by fewer of its
\* fields.
CheckChange(c) ==
    /\ c.op \in {"add", "replace", "remove"} /\ c.kind \in Kinds \cup {"policy"}
    /\ c.kind = "policy" => c.at = ThePolicy /\ c.op # "remove"
    /\ c.op = "add" => c.kind = "policy" \/ (c.at = Nowhere /\ c.id # "")
    /\ c.op # "add" => c.at # Nowhere /\ (c.kind = "release" => \E p \in c.at : p[1] = "url")
    /\ c.op # "remove" => c.value # NoValue

\* Only what its kind of change has is kept of it.
CleanCopy(c) ==
    Change(c.op, c.kind, c.at, IF c.op = "add" /\ c.kind # "policy" THEN c.id ELSE "",
           IF c.op # "remove" THEN c.value ELSE NoValue, IF c.op # "add" THEN c.was ELSE NoValue)

\* For an item that was changed before, the later change takes its place.
PutChange(cs, c) ==
    LET same == {i \in DOMAIN cs : ChangeKey(cs[i]) = ChangeKey(c)}
    IN  IF same = {} THEN Append(cs, c) ELSE [i \in DOMAIN cs |-> IF i \in same THEN c ELSE cs[i]]

PutUpTo(cs, puts) ==
    LET put[k \in 0..Len(puts)] == IF k = 0 THEN cs ELSE PutChange(put[k - 1], CleanCopy(puts[k]))
    IN  put
PutAll(cs, puts) == PutUpTo(cs, puts)[Len(puts)]

EditChanges(cs, puts, reverts) == PutAll(Where(cs, {k \in DOMAIN cs : ChangeKey(cs[k]) \notin reverts}), puts)

ParseOverlay(document) == PutAll(<<>>, Where(document, {k \in DOMAIN document : CheckChange(document[k])}))

ChangeStatus(b, c) ==
    LET stale == \/ c.kind # "policy" /\ c.op # "add" /\ Locate(b, c) = 0
                 \/ c.kind = "policy" /\ c.op = "add" /\ b.policy # NoValue
                 \/ c.op # "add" /\ BaseValue(b, c) # c.was
        invalid == c.op # "remove" /\ "error" \in CheckValue(b, c.kind, c.value)
    IN  IF stale THEN "stale" ELSE IF invalid THEN "invalid" ELSE "ok"

InUse(b, cs) == {k \in DOMAIN cs : ChangeStatus(b, cs[k]) = "ok"}
Applied(b, cs) == Where(cs, InUse(b, cs))

\* Mutant: each change is applied to what the ones before it left.
ApplyOverlayInTurn(b, cs) ==
    LET Step(f, c) ==
            IF c.kind = "policy" THEN [f EXCEPT !.policy = c.value]
            ELSE LET i == Locate(f, c) IN
                 [f EXCEPT ![c.kind] =
                     CASE c.op = "add" -> Append(@, c.value)
                       [] i = 0 -> @
                       [] c.op = "remove" -> RemoveAt(@, i)
                       [] OTHER -> ReplaceAt(@, i, c.value)]
    IN  FoldLeft(Step, b, Applied(b, cs))

\* Replacements and removals are of the catalogue as built in, so one does
\* not shift another; what is added comes last.
ApplyOverlay(b, cs) ==
    LET used == InUse(b, cs)
        To(kind, op, i) == {k \in used : cs[k].kind = kind /\ cs[k].op = op /\ Locate(b, cs[k]) = i}
        Item(kind, i) == IF To(kind, "replace", i) = {} THEN b[kind][i] ELSE cs[Max(To(kind, "replace", i))].value
        Arr(kind) ==
            Where([i \in DOMAIN b[kind] |-> Item(kind, i)], {i \in DOMAIN b[kind] : To(kind, "remove", i) = {}})
            \o Where([k \in DOMAIN cs |-> cs[k].value], {k \in used : cs[k].kind = kind /\ cs[k].op = "add"})
        policy == {k \in used : cs[k].kind = "policy"}
    IN  [release |-> Arr("release"), recipe |-> Arr("recipe"), rule |-> Arr("rule"),
         policy |-> IF policy = {} THEN b.policy ELSE cs[Max(policy)].value,
         oses |-> b.oses, methods |-> b.methods]

(***************************************************************************)
(* What the Runtimes page shows                                            *)
(***************************************************************************)
Row(i, id, v, st, key) == [i |-> i, id |-> id, v |-> v, st |-> st, key |-> key]

\* The items built in with the last change to each, then the added ones.
BuiltRow(b, cs, kind, i) ==
    LET to == {k \in DOMAIN cs : cs[k].kind = kind /\ cs[k].op # "add" /\ Locate(b, cs[k]) = i}
        c == cs[Max(to)]
    IN  CASE to = {} -> Row(i, "", b[kind][i], "", <<>>)
          [] to # {} /\ ChangeStatus(b, c) # "ok" -> Row(i, "", b[kind][i], "stale", ChangeKey(c))
          [] to # {} /\ ChangeStatus(b, c) = "ok" /\ c.op = "remove" -> Row(i, "", b[kind][i], "removed", ChangeKey(c))
          [] OTHER -> Row(i, "", c.value, "changed", ChangeKey(c))

AddedRow(b, c) == Row(0, c.id, c.value, IF ChangeStatus(b, c) = "ok" THEN "added" ELSE "stale", ChangeKey(c))

ItemRows(b, cs, kind) ==
    [i \in DOMAIN b[kind] |-> BuiltRow(b, cs, kind, i)]
    \o Where([k \in DOMAIN cs |-> AddedRow(b, cs[k])], {k \in DOMAIN cs : cs[k].kind = kind /\ cs[k].op = "add"})

CurrentRow(cs, kind, i, id) ==
    LET rows == ItemRows(base, cs, kind) IN Where(rows, {k \in DOMAIN rows : rows[k].i = i /\ rows[k].id = id})

PolicyValue(b, cs) ==
    LET of == {k \in DOMAIN cs : cs[k].kind = "policy"} IN
    IF of # {} /\ ChangeStatus(b, cs[Min(of)]) = "ok" THEN cs[Min(of)].value ELSE b.policy

(***************************************************************************)
(* The list is changed and stored                                          *)
(***************************************************************************)
Then(does, kind, i, id) == [does |-> does, kind |-> kind, i |-> i, id |-> id]

\* The list is another at once; the rest waits for the storage.
EditList(cs, then) ==
    /\ edits < MaxEdits /\ edits' = edits + 1
    /\ list' = cs
    /\ awaited' = awaited \cup {then}
    /\ UNCHANGED <<base, shown, review, reloads>>

Drafted(v, dirty) ==
    [kind |-> form.kind, i |-> form.i, id |-> form.id, new |-> form.new, draft |-> v, dirty |-> dirty]

\* A form after a save: of the row as it was before, since the page hears
\* of the new list only afterwards.
AfterSave(t) ==
    LET row == CurrentRow(shown, t.kind, t.i, t.id) IN
    IF row = <<>> THEN NoForm
    ELSE [kind |-> t.kind, i |-> t.i, id |-> t.id, new |-> FALSE, draft |-> row[1].v, dirty |-> FALSE]

\* After a revert: what is built in at that index, in the form that is open
\* by now.
AfterRevert(t) ==
    IF form = NoForm \/ t.i = 0 \/ t.i \notin DOMAIN base[form.kind] THEN NoForm
    ELSE Drafted(base[form.kind][t.i], FALSE)

ListStored(t) ==
    /\ awaited' = awaited \ {t}
    /\ form' = CASE t.does = "save" -> AfterSave(t)
                 [] t.does = "revert" -> AfterRevert(t)
                 [] t.does = "close" -> NoForm
                 [] OTHER -> form
    /\ shown' = list
    /\ UNCHANGED <<base, list, review, edits, reloads>>

(***************************************************************************)
(* The form of one item                                                    *)
(***************************************************************************)
FormOf(kind, row) == [kind |-> kind, i |-> row.i, id |-> row.id, new |-> FALSE, draft |-> row.v, dirty |-> FALSE]

OpenItem(kind, row) ==
    /\ form' = FormOf(kind, row)
    /\ UNCHANGED <<base, list, shown, review, awaited, edits, reloads>>

\* A template, or a copy of the item that is open, under an id of its own.
AddItem(kind, id, v) ==
    /\ \A k \in DOMAIN list : list[k].id # id
    /\ form' = [kind |-> kind, i |-> 0, id |-> id, new |-> TRUE, draft |-> v, dirty |-> TRUE]
    /\ UNCHANGED <<base, list, shown, review, awaited, edits, reloads>>

Type(v) ==
    /\ form # NoForm
    /\ form' = Drafted(v, TRUE)
    /\ UNCHANGED <<base, list, shown, review, awaited, edits, reloads>>

Undo ==
    /\ form # NoForm /\ form.dirty
    /\ LET row == CurrentRow(shown, form.kind, form.i, form.id) IN
       form' = IF form.new \/ row = <<>> THEN NoForm ELSE FormOf(form.kind, row[1])
    /\ UNCHANGED <<base, list, shown, review, awaited, edits, reloads>>

ShownRow == CurrentRow(shown, form.kind, form.i, form.id)

DraftChange ==
    LET at == PathFor(base, form.kind, form.i) IN
    IF form.i = 0 THEN [puts |-> <<Change("add", form.kind, at, form.id, form.draft, NoValue)>>, reverts |-> {}]
    ELSE IF base[form.kind][form.i] = form.draft
      THEN [puts |-> <<>>, reverts |-> {ChangeKey(Change("replace", form.kind, at, "", NoValue, NoValue))}]
      ELSE [puts |-> <<Change("replace", form.kind, at, "", form.draft, base[form.kind][form.i])>>, reverts |-> {}]

SaveItem ==
    /\ form # NoForm
    /\ form.new \/ (ShownRow # <<>> /\ ShownRow[1].st # "removed")
    /\ "error" \notin CheckValue(base, form.kind, form.draft)
    /\ EditList(EditChanges(list, DraftChange.puts, DraftChange.reverts), Then("save", form.kind, form.i, form.id))
    /\ UNCHANGED form

RevertItem ==
    /\ form # NoForm /\ ~form.new /\ form.i # 0
    /\ ShownRow # <<>> /\ ShownRow[1].st \in {"changed", "stale", "removed"}
    /\ EditList(EditChanges(list, <<>>, {ShownRow[1].key}), Then("revert", form.kind, form.i, form.id))
    /\ UNCHANGED form

RemoveItem ==
    /\ form # NoForm /\ ~form.new
    /\ ShownRow # <<>> /\ ShownRow[1].st # "removed"
    /\ LET i == form.i IN
       IF i = 0 THEN EditList(EditChanges(list, <<>>, {ShownRow[1].key}), Then("close", form.kind, i, form.id))
       ELSE EditList(EditChanges(list, <<Change("remove", form.kind, PathFor(base, form.kind, i), "", NoValue, base[form.kind][i])>>, {}),
                 Then("paint", form.kind, i, form.id))
    /\ UNCHANGED form

(***************************************************************************)
(* Policy                                                                  *)
(***************************************************************************)
PolicyChanges(v) ==
    IF v = base.policy THEN [puts |-> <<>>, reverts |-> {<<"policy", "at", ThePolicy>>}]
    ELSE IF base.policy = NoValue
      THEN [puts |-> <<Change("add", "policy", ThePolicy, "", v, NoValue)>>, reverts |-> {}]
      ELSE [puts |-> <<Change("replace", "policy", ThePolicy, "", v, base.policy)>>, reverts |-> {}]

SavePolicy(v) ==
    /\ v # base.policy => "error" \notin CheckPolicy(v)
    /\ EditList(EditChanges(list, PolicyChanges(v).puts, PolicyChanges(v).reverts), Then("paint", "policy", 0, ""))
    /\ UNCHANGED form

(***************************************************************************)
(* The list as a whole                                                     *)
(***************************************************************************)
RevertListed(c) ==
    /\ EditList(EditChanges(list, <<>>, {ChangeKey(c)}), Then("close", c.kind, 0, c.id))
    /\ UNCHANGED form

ResetAll ==
    /\ shown # <<>>
    /\ EditList(<<>>, Then("close", "all", 0, ""))
    /\ UNCHANGED form

\* What a file has that applies here is kept until the person says so.
Import(document) ==
    /\ review' = Applied(base, ParseOverlay(document))
    /\ UNCHANGED <<base, list, shown, form, awaited, edits, reloads>>

ApplyImport(replace) ==
    /\ review # NoReview
    /\ edits < MaxEdits /\ edits' = edits + 1
    /\ list' = IF replace THEN review ELSE EditChanges(list, review, {})
    /\ awaited' = awaited \cup {Then("close", "all", 0, "")}
    /\ review' = NoReview
    /\ UNCHANGED <<base, shown, form, reloads>>

\* The page is opened again, perhaps a newer one with another catalogue.
Reopen(b) ==
    /\ reloads < MaxReloads /\ reloads' = reloads + 1
    /\ base' = b /\ list' = ParseOverlay(list) /\ shown' = list'
    /\ form' = NoForm /\ review' = NoReview /\ awaited' = {}
    /\ UNCHANGED edits

InitEditor ==
    /\ base \in Contents
    /\ list = <<>> /\ shown = <<>> /\ form = NoForm /\ review = NoReview /\ awaited = {}
    /\ edits = 0 /\ reloads = 0

NextEditor ==
    \/ \E kind \in Kinds :
          \/ \E row \in ToSet(ItemRows(base, shown, kind)) : OpenItem(kind, row)
          \/ \E id \in Ids, v \in Typed[kind] : AddItem(kind, id, v)
    \/ form # NoForm /\ \E v \in Typed[form.kind] : Type(v)
    \/ Undo \/ SaveItem \/ RevertItem \/ RemoveItem
    \/ \E v \in Typed.policy : SavePolicy(v)
    \/ \E k \in DOMAIN shown : RevertListed(shown[k])
    \/ ResetAll
    \/ \E document \in Documents : Import(document)
    \/ \E replace \in BOOLEAN : ApplyImport(replace)
    \/ \E t \in awaited : ListStored(t)
    \/ \E b \in Contents : Reopen(b)

SpecEditor == InitEditor /\ [][NextEditor]_editorVars

(***************************************************************************)
(* Properties                                                              *)
(***************************************************************************)
\* Only a file that names a release by fewer of its fields can have two
\* changes for one item.
TwiceNamed ==
    \E j, k \in DOMAIN list :
        /\ j # k /\ list[j].kind = list[k].kind /\ list[j].kind # "policy"
        /\ list[j].op # "add" /\ list[k].op # "add"
        /\ Locate(base, list[j]) # 0 /\ Locate(base, list[j]) = Locate(base, list[k])

InUseRow(row) == row.st # "removed" /\ (row.i # 0 \/ row.st = "added")
ValuesInUse(rows) ==
    LET used == Where(rows, {k \in DOMAIN rows : InUseRow(rows[k])}) IN [k \in DOMAIN used |-> used[k].v]

\* What the Runtimes page shows as in use, row by row, is what builds get:
\* the page and the builds put the changes together in two places, each of
\* its own, and must agree for every list of edits, imports and removals
\* and for a catalogue that changed under the list
\* (itemRows and policyValue against applyOverlay).
RowsAreWhatBuildsUse ==
    shown = list /\ ~TwiceNamed =>
        LET built == ApplyOverlay(base, list)
        IN  /\ \A kind \in Kinds : built[kind] = ValuesInUse(ItemRows(base, shown, kind))
            /\ built.policy = PolicyValue(base, shown)

=============================================================================
