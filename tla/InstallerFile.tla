--------------------------- MODULE InstallerFile ---------------------------
(***************************************************************************)
(* The bytes of an installer, from its first build through every edit,     *)
(* icon and signature: the block with the record, the plan and the packed  *)
(* files behind a program, what signing puts behind that, the files a mac  *)
(* app carries, and what the page and the engines read out of them again   *)
(* (tifile.js, files.js, icon.js, authenticode.js, base.nsi, ti-engine.sh).*)
(*                                                                         *)
(* A file is a sequence of cells. A header of the program (its sections,   *)
(* the entry of its certificate table, its checksum) is kept beside them;  *)
(* a checksum and a hash are the very things they are taken of.            *)
(***************************************************************************)
EXTENDS Integers, FiniteSets, ListOps

CONSTANTS
    TarBlock,   \* the unit of a tar
    Align,      \* where a certificate table may start
    Programs,   \* by name: [kind, secs, overlay], a base that is published
    Icons,      \* icons by name: the cells they take
    Records, Bodies, Members,   \* by name: the cells each takes
    MaxLived    \* bound: what happens to one file

Sizes(of) == \A name \in DOMAIN of : of[name] \in Nat

\* A base has no section of ours, and a packed file is named by its hash.
ASSUME InstallerFileAssumption ==
    /\ TarBlock \in Nat \ {0, 1} /\ Align \in Nat \ {0} /\ MaxLived \in Nat
    /\ \A program \in DOMAIN Programs :
          LET p == Programs[program] IN
          /\ p.kind \in {"exe", "run", "zip"} /\ p.overlay \in Nat
          /\ p.secs \in Seq([ours : {FALSE}, raw : Nat, size : Nat])
          /\ p.kind = "exe" => p.secs # <<>>
    /\ Sizes(Icons) /\ Sizes(Records) /\ Sizes(Bodies) /\ Sizes(Members)
    /\ IsFiniteSet(DOMAIN Members) /\ {"record.txt", "plan.txt"} \cap DOMAIN Members = {}

VARIABLES
    installer,    \* the installer
    madeOf,   \* what it was made of: [program, icon, record, plan, pack]
    lived

fileVars == <<installer, madeOf, lived>>

(***************************************************************************)
(* Cells                                                                   *)
(***************************************************************************)
Nul == [is |-> "nul"]
Nuls(n) == [i \in 1..n |-> Nul]
CellsOf(what, thing, n) == [i \in 1..n |-> [is |-> what, of |-> thing, at |-> i]]

\* What is missing to a multiple.
Short(n, unit) == (unit - (n % unit)) % unit

NoPlan == [body |-> "none", of |-> "none", signed |-> FALSE]
PlanCells(plan) ==
    IF plan = NoPlan THEN <<>> ELSE CellsOf("plan", plan, Bodies[plan.body] + IF plan.signed THEN 1 ELSE 0)
RecordCells(record) == CellsOf("record", record, Records[record])
Member(name) == [name |-> name, data |-> CellsOf("member", name, Members[name])]

(***************************************************************************)
(* The pack                                                                *)
(***************************************************************************)
UstarHeader(member) ==
    << [is |-> "header", name |-> member.name, size |-> Len(member.data)] >> \o Nuls(TarBlock - 1)

\* Mutant: a member that fills its last block gets one more.
TarMemberRounded(member) ==
    UstarHeader(member) \o member.data \o Nuls(TarBlock - (Len(member.data) % TarBlock))

TarMember(member) == UstarHeader(member) \o member.data \o Nuls(Short(Len(member.data), TarBlock))

\* The members from the i-th on, and two blocks of nothing.
TarFrom(pack) ==
    LET from[i \in 1..(Len(pack) + 1)] ==
            IF i > Len(pack) THEN Nuls(2 * TarBlock) ELSE TarMember(pack[i]) \o from[i + 1]
    IN  from
Tar(pack) == IF pack = <<>> THEN <<>> ELSE TarFrom(pack)[1]

\* Its length, before any member is read.
UpToBlock(n) == ((n + TarBlock - 1) \div TarBlock) * TarBlock
SizeFrom(pack) ==
    LET from[i \in 1..(Len(pack) + 1)] ==
            IF i > Len(pack) THEN 2 * TarBlock ELSE TarBlock + UpToBlock(Len(pack[i].data)) + from[i + 1]
    IN  from
PackTarSize(pack) == IF pack = <<>> THEN 0 ELSE SizeFrom(pack)[1]

Broken == << [name |-> "broken", data |-> <<>>] >>

ReadFrom(cells) ==
    LET from[o \in 0..Len(cells)] ==
            IF o + TarBlock > Len(cells) \/ SubSeq(cells, o + 1, o + TarBlock) = Nuls(TarBlock) THEN <<>>
            ELSE LET header == cells[o + 1]
                     next == o + TarBlock + header.size + Short(header.size, TarBlock)
                 IN  IF header.is # "header" \/ o + TarBlock + header.size > Len(cells) THEN Broken
                     ELSE << [name |-> header.name, data |-> SubSeq(cells, o + TarBlock + 1, o + TarBlock + header.size)] >>
                              \o IF next > Len(cells) THEN <<>> ELSE from[next]
    IN  from
TarRead(cells) == ReadFrom(cells)[0]

(***************************************************************************)
(* The block                                                               *)
(***************************************************************************)
Footer(record, plan, pack) == [is |-> "footer", record |-> record, plan |-> plan, pack |-> pack]

NoBlock == [start |-> 0]

\* A footer whose last cell is the end-th.
ParseFooter(cells, end) ==
    IF end < 1 \/ cells[end].is # "footer" THEN NoBlock
    ELSE LET f == cells[end]
             start == end - 1 - f.record - f.plan - f.pack
         IN  IF start < 0 THEN NoBlock
             ELSE [start |-> start, record |-> f.record, plan |-> f.plan, pack |-> f.pack]

Layout(base, record, plan, pack) ==
    base \o record \o plan \o Tar(pack) \o << Footer(Len(record), Len(plan), PackTarSize(pack)) >>

(***************************************************************************)
(* The header of a program                                                 *)
(***************************************************************************)
NoTable == [at |-> 0, size |-> 0]
NoSum == [is |-> "none"]
SumOf(secs, table, cells) == [is |-> "sum", secs |-> secs, table |-> table, cells |-> cells]

\* A checksum is kept up to date if there was one.
Renewed(sum, secs, table, cells) == IF sum = NoSum THEN NoSum ELSE SumOf(secs, table, cells)

Pe(secs, table, sum, cells) ==
    [kind |-> "exe", secs |-> secs, table |-> table, sum |-> sum, cells |-> cells]
Run(cells) == [kind |-> "run", cells |-> cells]

\* buildInstaller: the entry of a signature that is no longer there is
\* cleared.
WriteLayout(info, record, plan, pack) ==
    LET cells == Layout(info.base, record, plan, pack) IN
    IF info.kind = "run" THEN Run(cells)
    ELSE Pe(info.secs, NoTable, Renewed(info.sum, info.secs, NoTable, cells), cells)

\* The server's writer: not behind a block that is there already.
WriteInstallerFile(info, record, plan, pack) ==
    IF ParseFooter(info.base, Len(info.base)) # NoBlock THEN {}
    ELSE {WriteLayout(info, record, plan, pack)}

\* Cell by cell, to a file: a checksum could not be written.
StreamLayout(info, record, plan, pack) ==
    IF info.kind = "exe" /\ info.sum # NoSum THEN {}
    ELSE LET cells == Layout(info.base, record, plan, pack) IN
         {IF info.kind = "run" THEN Run(cells) ELSE Pe(info.secs, NoTable, NoSum, cells)}

(***************************************************************************)
(* The app of a mac                                                        *)
(***************************************************************************)
Entry_(folder, name, cells) == [folder |-> folder, name |-> name, cells |-> cells]
InFolder(entries, folder) == Where(entries, {k \in DOMAIN entries : entries[k].folder = folder})
Named(entries, name) ==
    LET places == {k \in DOMAIN entries : entries[k].name = name}
    IN  IF places = {} THEN <<>> ELSE entries[Max(places)].cells

\* The old block and the old seal go, the rest is copied as it is.
Copied(entries) == Where(entries, {k \in DOMAIN entries : entries[k].folder \notin {"ti", "seal"}})
Carried(record, plan, pack) ==
    << Entry_("ti", "record.txt", record) >>
    \o (IF plan = <<>> THEN <<>> ELSE << Entry_("ti", "plan.txt", plan) >>)
    \o [i \in DOMAIN pack |-> Entry_("ti", pack[i].name, pack[i].data)]
WriteMacZip(info, record, plan, pack) ==
    [kind |-> "zip", entries |-> Copied(info.entries) \o Carried(record, plan, pack)]

ReadMacZip(f) ==
    LET ti == InFolder(f.entries, "ti")
        packed == Where(ti, {k \in DOMAIN ti : ti[k].name \notin {"record.txt", "plan.txt"}})
    IN  [kind |-> "zip", entries |-> f.entries,
         record |-> Named(ti, "record.txt"), plan |-> Named(ti, "plan.txt"),
         pack |-> [i \in DOMAIN packed |-> [name |-> packed[i].name, data |-> packed[i].cells]]]

(***************************************************************************)
(* What reads it                                                           *)
(***************************************************************************)
\* The end of what is not signature.
Unsigned(f) == IF f.kind = "exe" /\ f.table # NoTable /\ f.table.at <= Len(f.cells) THEN f.table.at ELSE Len(f.cells)

\* The page: a footer behind at most so much padding.
FooterEnd(cells, end) ==
    LET padded == {k \in 0..(Align - 1) : end - k >= 1 /\ SubSeq(cells, end - k + 1, end) = Nuls(k)}
        ends == {end - k : k \in {k \in padded : ParseFooter(cells, end - k) # NoBlock}}
    IN  IF ends = {} THEN 0 ELSE CHOOSE e \in ends : \A x \in ends : x <= e

Blank == [record |-> <<>>, plan |-> <<>>, pack |-> <<>>]
BlockAt(cells, f) ==
    [record |-> SubSeq(cells, f.start + 1, f.start + f.record),
     plan |-> SubSeq(cells, f.start + f.record + 1, f.start + f.record + f.plan),
     pack |-> TarRead(SubSeq(cells, f.start + f.record + f.plan + 1, f.start + f.record + f.plan + f.pack))]

ReadBack(f) ==
    IF f.kind = "zip" THEN ReadMacZip(f)
    ELSE LET end == Unsigned(f)
             at == FooterEnd(f.cells, end)
             block == IF at = 0 THEN Blank ELSE BlockAt(f.cells, ParseFooter(f.cells, at))
             base == SubSeq(f.cells, 1, IF at = 0 THEN end ELSE ParseFooter(f.cells, at).start)
         IN  IF f.kind = "run"
               THEN [kind |-> "run", base |-> base, record |-> block.record, plan |-> block.plan, pack |-> block.pack]
               ELSE [kind |-> "exe", base |-> base, secs |-> f.secs, table |-> f.table, sum |-> f.sum,
                     record |-> block.record, plan |-> block.plan, pack |-> block.pack]

\* The installer on Windows takes off padding first, and then looks once.
FindBlock(f) ==
    LET end == Unsigned(f)
        k == CHOOSE k \in 0..(Align - 1) :
                 /\ SubSeq(f.cells, end - k + 1, end) = Nuls(k)
                 /\ k = Align - 1 \/ f.cells[end - k] # Nul
        found == ParseFooter(f.cells, end - k)
    IN  IF found = NoBlock THEN Blank ELSE BlockAt(f.cells, found)

\* The one on Linux looks at the very end, the one on a mac into the app.
FindMetadata(f) ==
    IF f.kind = "zip" THEN LET i == ReadMacZip(f) IN [record |-> i.record, plan |-> i.plan, pack |-> i.pack]
    ELSE LET found == ParseFooter(f.cells, Len(f.cells)) IN
         IF found = NoBlock THEN Blank ELSE BlockAt(f.cells, found)

(***************************************************************************)
(* Icons                                                                   *)
(***************************************************************************)
DataEnd(secs) == IF secs = <<>> THEN 0 ELSE Last(secs).raw + Last(secs).size

\* A section of its own behind the others, in the place of the one it put
\* there last time; what follows the sections moves along.
SetExeIcon(info, icon) ==
    LET reuse == Last(info.secs).ours
        kept == IF reuse THEN Front(info.secs) ELSE info.secs
        from == DataEnd(kept)
        secs == Append(kept, [ours |-> TRUE, raw |-> from, size |-> Icons[icon]])
        base == SubSeq(info.base, 1, from) \o CellsOf("icon", icon, Icons[icon])
                \o SubSeq(info.base, DataEnd(info.secs) + 1, Len(info.base))
    IN  [info EXCEPT !.base = base, !.secs = secs, !.table = NoTable, !.sum = SumOf(secs, NoTable, base)]

SetMacIcon(info, icon) ==
    LET others == {k \in DOMAIN info.entries : info.entries[k].name # "AppIcon.icns"}
    IN  [info EXCEPT !.entries = Append(Where(@, others),
                                        Entry_("Resources", "AppIcon.icns", CellsOf("icon", icon, Icons[icon])))]

\* On Linux an icon is a packed file that the record names.
SetIcon(info, icon) ==
    IF icon = "none" \/ info.kind = "run" THEN info
    ELSE IF info.kind = "exe" THEN SetExeIcon(info, icon) ELSE SetMacIcon(info, icon)

(***************************************************************************)
(* Signatures                                                              *)
(***************************************************************************)
UnsignedPE(f) ==
    LET end == Unsigned(f) IN SubSeq(f.cells, 1, end) \o Nuls(Short(end, Align))

\* The bytes a signature is for: all but the checksum, the table and its
\* entry.
PeHash(secs, cells) == SumOf(secs, NoTable, cells)

\* A service may sign with another key or something else, and a timestamp
\* may be refused, be of another signature or answer another request.
Signatures == [by : {"ours", "other"}, of : {"file", "other"}]
Stamps == [granted : BOOLEAN, of : {"signature", "other"}, nonce : {"asked", "other"}]
NoStamp == [granted |-> FALSE]

ParseTimestampResponse(stamp) == stamp.granted /\ stamp.of = "signature" /\ stamp.nonce = "asked"

\* The signature is checked against our certificates, then the table goes
\* behind the file.
FinishPE(f, cells, sig, stamp) ==
    LET cert == [is |-> "cert", of |-> PeHash(f.secs, cells), stamped |-> stamp # NoStamp]
        out == cells \o <<cert>> \o Nuls(Align - 1)
        table == [at |-> Len(cells), size |-> Align]
    IN  IF sig = [by |-> "ours", of |-> "file"] /\ (stamp = NoStamp \/ ParseTimestampResponse(stamp))
        THEN {Pe(f.secs, table, SumOf(f.secs, table, out), out)} ELSE {}

(***************************************************************************)
(* A life                                                                  *)
(***************************************************************************)
NoFile == [kind |-> "none"]

\* A mac app is sealed over all it is made of.
Sealed(entries) == Append(entries, Entry_("seal", "CodeResources", << [is |-> "seal", of |-> entries] >>))

InfoOf(program) ==
    LET p == Programs[program]
        cells == CellsOf("base", program, DataEnd(p.secs) + p.overlay)
    IN  IF p.kind = "exe" THEN [kind |-> "exe", base |-> cells, secs |-> p.secs, table |-> NoTable, sum |-> NoSum]
        ELSE IF p.kind = "run" THEN [kind |-> "run", base |-> cells]
        ELSE [kind |-> "zip", entries |-> Sealed(<< Entry_("MacOS", "program", cells) >>)]

WriteBy(writer, info, record, plan, pack) ==
    IF info.kind = "zip" THEN {WriteMacZip(info, record, plan, pack)}
    ELSE IF writer = "server" THEN WriteInstallerFile(info, record, plan, pack)
    ELSE IF writer = "stream" THEN StreamLayout(info, record, plan, pack)
    ELSE {WriteLayout(info, record, plan, pack)}

InitFile == installer = NoFile /\ madeOf = NoFile /\ lived = 0

Packs ==
    {[i \in DOMAIN names |-> Member(names[i])] : names \in {SetToSeq(some) : some \in SUBSET DOMAIN Members}}
PlansFor(record) == {NoPlan} \cup [body : DOMAIN Bodies, of : {record}, signed : BOOLEAN]

\* buildFile.
BuildFile(writer, program, icon, record, plan, pack) ==
    /\ installer' \in WriteBy(writer, SetIcon(InfoOf(program), icon), RecordCells(record), PlanCells(plan), pack)
    /\ madeOf' = [program |-> program, icon |-> icon, record |-> record, plan |-> plan, pack |-> pack]
    /\ UNCHANGED lived

\* An untouched plan for an untouched record keeps its bytes.
Rebind(plan, record, edited) ==
    IF plan = NoPlan \/ (plan.of = record /\ ~edited) THEN plan
    ELSE [plan EXCEPT !.of = record, !.signed = FALSE]

ThingIn(cells, none) == IF cells = <<>> THEN none ELSE Head(cells).of

\* What the edit page makes of what it has read.
SaveEdited(icon, record, body, pack) ==
    LET info == ReadBack(installer)
        old == ThingIn(info.plan, NoPlan)
        typed == IF body = old.body THEN old
                 ELSE IF body = "none" THEN NoPlan
                 ELSE [body |-> body, of |-> record, signed |-> old.signed]
        plan == Rebind(typed, record, typed # old)
    IN  /\ installer' \in WriteBy("page", SetIcon(info, icon), RecordCells(record), PlanCells(plan),
                           IF pack = "kept" THEN info.pack ELSE <<>>)
        /\ madeOf' = [madeOf EXCEPT !.icon = IF icon = "none" \/ info.kind = "run" THEN @ ELSE icon,
                                  !.record = record, !.plan = plan, !.pack = IF pack = "kept" THEN @ ELSE <<>>]

\* In the page, or by a tool that does the same.
Sign(sig, stamp) ==
    /\ installer.table = NoTable \/ installer.table.at + installer.table.size = Len(installer.cells)
    /\ installer' \in FinishPE(installer, UnsignedPE(installer), sig, stamp)
    /\ UNCHANGED madeOf

\* A tool that takes a signature off leaves the padding.
Strip ==
    /\ installer # NoFile /\ installer.kind = "exe" /\ installer.table # NoTable
    /\ LET cells == SubSeq(installer.cells, 1, installer.table.at) IN
       installer' = Pe(installer.secs, NoTable, Renewed(installer.sum, installer.secs, NoTable, cells), cells)
    /\ UNCHANGED madeOf

Seal ==
    /\ installer # NoFile /\ installer.kind = "zip" /\ InFolder(installer.entries, "seal") = <<>>
    /\ installer' = [installer EXCEPT !.entries = Sealed(@)]
    /\ UNCHANGED madeOf

Lived == lived < MaxLived /\ lived' = lived + 1

NextFile ==
    \/ /\ installer = NoFile
       /\ \E record \in DOMAIN Records :
             \E writer \in {"server", "page", "stream"}, program \in DOMAIN Programs, icon \in DOMAIN Icons \cup {"none"},
                plan \in PlansFor(record), pack \in Packs : BuildFile(writer, program, icon, record, plan, pack)
    \/ /\ Lived /\ installer # NoFile
       /\ \E icon \in DOMAIN Icons \cup {"none"}, record \in DOMAIN Records, body \in DOMAIN Bodies \cup {"none"},
             pack \in {"kept", "none"} : SaveEdited(icon, record, body, pack)
    \/ /\ Lived /\ installer # NoFile /\ installer.kind = "exe"
       /\ \E sig \in Signatures, stamp \in Stamps \cup {NoStamp} : Sign(sig, stamp)
    \/ Lived /\ (Strip \/ Seal)

SpecFile == InitFile /\ [][NextFile]_fileVars

(***************************************************************************)
(* Properties                                                              *)
(***************************************************************************)
ProgramOf(f) ==
    LET n == DataEnd(f.secs) - IF Last(f.secs).ours THEN Last(f.secs).size ELSE 0
        overlay == SubSeq(f.cells, DataEnd(f.secs) + 1, DataEnd(f.secs) + Programs[madeOf.program].overlay)
    IN  SubSeq(f.cells, 1, n) \o overlay

\* Whatever has been done to an installer, in whatever order, each of its
\* readers finds the record, the plan and the packed files that were put
\* into it last, behind the program it was made of with one icon at most;
\* its checksum is right if it has one, and a signature or a seal is of the
\* file as it is (writeInstallerLayout, readInstaller, setExeIcon, unsignedPE).
ReadsBackAsPut ==
    installer # NoFile =>
        LET put == [record |-> RecordCells(madeOf.record), plan |-> PlanCells(madeOf.plan), pack |-> madeOf.pack]
            read == ReadBack(installer)
        IN  /\ [record |-> read.record, plan |-> read.plan, pack |-> read.pack] = put
            /\ (IF installer.kind = "exe" THEN FindBlock(installer) ELSE FindMetadata(installer)) = put
            /\ installer.kind = "exe" =>
                  /\ ProgramOf(installer) = InfoOf(madeOf.program).base
                  /\ Len(installer.secs) = Len(Programs[madeOf.program].secs) + IF madeOf.icon = "none" THEN 0 ELSE 1
                  /\ installer.sum \in {NoSum, SumOf(installer.secs, installer.table, installer.cells)}
                  /\ installer.table # NoTable => installer.cells[installer.table.at + 1].of = PeHash(installer.secs, SubSeq(installer.cells, 1, installer.table.at))
            /\ installer.kind = "zip" /\ InFolder(installer.entries, "seal") # <<>> =>
                  LET under == Where(installer.entries, {k \in DOMAIN installer.entries : installer.entries[k].folder # "seal"})
                  IN  Named(installer.entries, "CodeResources") = << [is |-> "seal", of |-> under] >>
=============================================================================
