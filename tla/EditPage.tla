------------------------------- MODULE EditPage -------------------------------
(***************************************************************************)
(* The edit page (edit.js): it opens an installer, edits its record, plan, *)
(* packed files and icon, and saves it. Every step that waits (reading a   *)
(* file, making an icon, hashing a plan's record, writing a zip) leaves    *)
(* the page free to open another installer in between.                     *)
(*                                                                         *)
(* A base, a record, a plan and packed files are known by the opening they *)
(* came from: the installer opened n-th is n, 0 is none.                   *)
(***************************************************************************)
EXTENDS Integers, Sequences, FiniteSets

CONSTANTS
    Openable,   \* installers there are to open: [kind, signed, plan (has a signed one)]
    MaxOpened,  \* bound: how many are opened
    MaxGestures \* bound: how often the user changes, adds, ticks or saves something

ASSUME EditAssumption == \A f \in Openable : f.signed \in BOOLEAN /\ f.plan \in BOOLEAN

VARIABLES
    insts,      \* what was opened: [file, base, signed, mixed]
    current,    \* the installer on the page
    reading,    \* files picked, and being read
    recordText, \* the record's text: [of, edited]
    planText,   \* the plan's text: [of, edited]
    packs,      \* the packed files: [of, late]
    ack,        \* "saving removes the signature" is ticked
    icon,       \* the icon being made, at most one (bound)
    adding,     \* the file being read to be packed, at most one (bound)
    saving,     \* the save at work, at most one (bound)
    saved,      \* what was saved last
    gestures    \* how much of MaxGestures is spent

editVars == <<insts, current, reading, recordText, planText, packs, ack, icon, adding, saving, saved, gestures>>

Gesture == current # 0 /\ gestures < MaxGestures /\ gestures' = gestures + 1

No == [of |-> 0]
Idle == [pc |-> "idle"]
KindOf(n) == insts[n].file.kind

InitEdit ==
    /\ insts = <<>> /\ current = 0 /\ reading = {}
    /\ recordText = [of |-> 0, edited |-> FALSE] /\ planText = recordText
    /\ packs = {} /\ ack = FALSE
    /\ icon = Idle /\ adding = 0 /\ saving = Idle /\ saved = No /\ gestures = 0

(***************************************************************************)
(* Opening                                                                 *)
(***************************************************************************)
Pick(f) ==
    /\ Len(insts) + Cardinality(reading) < MaxOpened
    /\ reading' = reading \cup {f}
    /\ UNCHANGED <<insts, current, recordText, planText, packs, ack, icon, adding, saving, saved, gestures>>

\* Mutant: the packed files of the last one stay.
OpenedPacksKept(n) == packs \cup {[of |-> n, late |-> FALSE]}

OpenedPacks(n) == {[of |-> n, late |-> FALSE]}

\* The last file read, not the last one picked, is the one on the page.
Load(f) ==
    LET n == Len(insts) + 1
    IN  /\ f \in reading /\ reading' = reading \ {f}
        /\ insts' = Append(insts, [file |-> f, base |-> [of |-> n, icon |-> FALSE], signed |-> f.signed, mixed |-> FALSE])
        /\ current' = n
        /\ recordText' = [of |-> n, edited |-> FALSE]
        /\ planText' = [of |-> IF f.plan THEN n ELSE 0, edited |-> FALSE]
        /\ packs' = OpenedPacks(n) /\ ack' = FALSE
        /\ icon' = IF icon.pc = "pack" THEN [icon EXCEPT !.listed = FALSE, !.named = FALSE] ELSE icon
        /\ saving' = IF saving.pc = "idle" THEN saving ELSE [saving EXCEPT !.overlap = TRUE]
        /\ UNCHANGED <<adding, saved, gestures>>

ReadFails(f) ==
    /\ f \in reading /\ reading' = reading \ {f}
    /\ UNCHANGED <<insts, current, recordText, planText, packs, ack, icon, adding, saving, saved, gestures>>

(***************************************************************************)
(* Editing                                                                 *)
(***************************************************************************)
EditRecord ==
    /\ Gesture
    /\ recordText' = [recordText EXCEPT !.edited = TRUE]
    /\ UNCHANGED <<insts, current, reading, planText, packs, ack, icon, adding, saving, saved>>

\* The text box makes a new list of lines; a field changes the one there is.
EditRaw ==
    /\ Gesture
    /\ recordText' = [recordText EXCEPT !.edited = TRUE]
    /\ icon' = IF icon.pc = "pack" THEN [icon EXCEPT !.named = FALSE] ELSE icon
    /\ UNCHANGED <<insts, current, reading, planText, packs, ack, adding, saving, saved>>

EditPlan ==
    /\ Gesture
    /\ planText' = [of |-> current, edited |-> TRUE]
    /\ UNCHANGED <<insts, current, reading, recordText, packs, ack, icon, adding, saving, saved>>

Acknowledge ==
    /\ Gesture /\ insts[current].signed /\ ack' = ~ack
    /\ UNCHANGED <<insts, current, reading, recordText, planText, packs, icon, adding, saving, saved>>

AddFile ==
    /\ Gesture /\ adding = 0 /\ adding' = current
    /\ UNCHANGED <<insts, current, reading, recordText, planText, packs, ack, icon, saving, saved>>
FileAdded ==
    /\ adding # 0 /\ adding' = 0
    /\ packs' = packs \cup {[of |-> adding, late |-> adding # current]}
    /\ UNCHANGED <<insts, current, reading, recordText, planText, ack, icon, saving, saved, gestures>>
RemovePacked ==
    /\ Gesture
    /\ \E m \in packs : packs' = packs \ {m}
    /\ UNCHANGED <<insts, current, reading, recordText, planText, ack, icon, adding, saving, saved>>

(***************************************************************************)
(* The icon                                                                *)
(***************************************************************************)
PickIcon ==
    /\ Gesture /\ icon = Idle
    /\ icon' = [pc |-> "raster", by |-> current]
    /\ UNCHANGED <<insts, current, reading, recordText, planText, packs, ack, adding, saving, saved>>

\* What the icon is made for is the installer on the page by now.
IconRastered ==
    /\ icon.pc = "raster"
    /\ icon' = IF KindOf(current) = "run"
               THEN [pc |-> "pack", by |-> icon.by, listed |-> TRUE, named |-> TRUE]
               ELSE [pc |-> "build", by |-> icon.by, kind |-> KindOf(current)]
    /\ UNCHANGED <<insts, current, reading, recordText, planText, packs, ack, adding, saving, saved, gestures>>

IconBuilt ==
    /\ icon.pc = "build"
    /\ icon' = IF KindOf(current) # icon.kind THEN Idle
               ELSE [pc |-> "write", by |-> icon.by, kind |-> icon.kind, on |-> current,
                     base |-> [insts[current].base EXCEPT !.icon = TRUE]]
    /\ UNCHANGED <<insts, current, reading, recordText, planText, packs, ack, adding, saving, saved, gestures>>

\* An .exe's new base goes to whatever is on the page; a zip's entries are
\* changed where they are.
IconWritten ==
    /\ icon.pc = "write" /\ icon' = Idle
    /\ insts' = IF icon.kind = "exe"
                THEN [insts EXCEPT ![current] = [insts[current] EXCEPT !.base = icon.base, !.signed = FALSE,
                                                   !.mixed = insts[current].mixed \/ icon.by # current]]
                ELSE [insts EXCEPT ![icon.on].base = icon.base]
    /\ UNCHANGED <<current, reading, recordText, planText, packs, ack, adding, saving, saved, gestures>>

\* Linux: into the list of packed files and the record as they were when it
\* was begun; a list that has been replaced since is nobody's.
IconPacked ==
    /\ icon.pc = "pack" /\ icon' = Idle
    /\ packs' = IF icon.listed THEN packs \cup {[of |-> current, late |-> FALSE]} ELSE packs
    /\ recordText' = IF icon.named THEN [recordText EXCEPT !.edited = TRUE] ELSE recordText
    /\ UNCHANGED <<insts, current, reading, planText, ack, adding, saving, saved, gestures>>

(***************************************************************************)
(* Saving                                                                  *)
(***************************************************************************)
\* A plan is made to name the record. Its signature stays only if nothing of
\* it changed.
\* Mutant: a plan edited by hand keeps its signature.
BindPlanKeeps(p, r) ==
    IF p.of = 0 THEN No
    ELSE [of |-> p.of, names |-> r, sig |-> insts[p.of].file.plan /\ r = [of |-> p.of, edited |-> FALSE],
          edited |-> p.edited]

BindPlan(p, r) ==
    IF p.of = 0 THEN No
    ELSE [of |-> p.of, names |-> r, edited |-> p.edited,
          sig |-> insts[p.of].file.plan /\ ~p.edited /\ r = [of |-> p.of, edited |-> FALSE]]

Output(s) == [of |-> s.base.of, record |-> s.record, plan |-> s.plan, packs |-> s.packs,
              unasked |-> s.unasked, named |-> KindOf(current), overlap |-> s.overlap]

\* The base and the packed files are the page's once the plan is bound, and
\* the name once all is written: only a zip's writing waits.
Write(s) ==
    LET w == [pc |-> "write", record |-> s.record, plan |-> BindPlan(s.plan, s.record),
              base |-> insts[current].base, packs |-> packs,
              unasked |-> insts[current].signed /\ ~s.ack,
              overlap |-> s.overlap \/ insts[current].mixed \/ \E m \in packs : m.late]
    IN  IF KindOf(current) = "zip" THEN saving' = w /\ UNCHANGED saved
        ELSE saving' = Idle /\ saved' = Output(w)

\* Without a plan there is no hash to wait for.
Save ==
    /\ Gesture /\ saving = Idle
    /\ insts[current].signed => ack
    /\ LET s == [pc |-> "bind", record |-> recordText, plan |-> planText, ack |-> ack, overlap |-> FALSE]
       IN  IF planText.of = 0 THEN Write(s) ELSE saving' = s /\ UNCHANGED saved
    /\ UNCHANGED <<insts, current, reading, recordText, planText, packs, ack, icon, adding>>

Bound ==
    /\ saving.pc = "bind" /\ Write(saving)
    /\ UNCHANGED <<insts, current, reading, recordText, planText, packs, ack, icon, adding, gestures>>

Written ==
    /\ saving.pc = "write" /\ saving' = Idle /\ saved' = Output(saving)
    /\ UNCHANGED <<insts, current, reading, recordText, planText, packs, ack, icon, adding, gestures>>

NextEdit ==
    \/ \E f \in Openable : Pick(f) \/ Load(f) \/ ReadFails(f)
    \/ EditRecord \/ EditRaw \/ EditPlan \/ Acknowledge
    \/ AddFile \/ FileAdded \/ RemovePacked
    \/ PickIcon \/ IconRastered \/ IconBuilt \/ IconWritten \/ IconPacked
    \/ Save \/ Bound \/ Written

SpecEdit == InitEdit /\ [][NextEdit]_editVars

(***************************************************************************)
(* Properties                                                              *)
(***************************************************************************)
\* The record and, if there is one, the plan were opened with the base, the
\* files packed with it too, its name has the base's extension and its
\* signature is gone with the user's word.
OneInstaller(s) ==
    /\ s.record.of = s.of
    /\ s.plan.of \in {0, s.of}
    /\ \A m \in s.packs : m.of = s.of
    /\ s.named = KindOf(s.of)
    /\ ~s.unasked

\* What is saved is one installer, unless another was opened while it was being
\* saved or while an icon or a file for it was being read; its plan always
\* names its record, and carries a signature only if neither was touched
\* (edit.js buildOutput and load, tifile.js bindPlan).
SavedIsOneInstaller ==
    saved # No =>
        /\ OneInstaller(saved) \/ saved.overlap
        /\ saved.plan # No =>
              /\ saved.plan.names = saved.record
              /\ saved.plan.sig => ~saved.plan.edited /\ saved.record = [of |-> saved.plan.of, edited |-> FALSE]
=============================================================================
