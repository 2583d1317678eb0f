----------------------------- MODULE MCInstaller -----------------------------
(***************************************************************************)
(* What a form is made into, what the edit page makes of an installer,     *)
(* what its sign panel and the signing services make of that, what the     *)
(* verify page says of it, and what the server's routes let through, for   *)
(* TLC: a behaviour is one of these, the others rest.                      *)
(*                                                                         *)
(* The catalogues have three runtimes: nim, with a companion on Windows    *)
(* and one on Linux, an extra file for its newer releases on Windows 10,   *)
(* and a floor each catalogue puts at another version or build; a C        *)
(* compiler in two variants; and zig, which stands in for it elsewhere.    *)
(***************************************************************************)
EXTENDS Plans, EditPage, SignPanel, VerifyPage, Admission,
        Outgoing, InstallerFile, SignServices

(***************************************************************************)
(* Catalogues                                                              *)
(***************************************************************************)

V(a, b) == [parts |-> <<a, b>>, pre |-> FALSE]
Spec_(op, a, b) == [op |-> op, t |-> V(a, b), prefix |-> FALSE]
OS(family, id, int, build) ==
    [family |-> family, id |-> id, int |-> int, build |-> build, arches |-> MachinesOf(family, id, int)]
File(sha) == [sha |-> sha, local |-> sha # "M1"]
Rel(n, v, os, arch, variant, sha) ==
    [n |-> n, v |-> v, os |-> os, arch |-> arch, kind |-> "binary", format |-> "zip", variant |-> variant,
     libc |-> "none", file |-> File(sha), parts |-> <<>>]
Rule(os, versions, min, minBuild) ==
    [os |-> os, arches |-> {}, variants |-> {}, formats |-> {}, kinds |-> {}, versions |-> versions,
     floor |-> TRUE, min |-> min, max |-> None, minBuild |-> minBuild]
Recipe(steps, tool, variants) ==
    [os |-> {}, kinds |-> {}, formats |-> {}, arches |-> {}, libcs |-> {}, variants |-> variants,
     versions |-> {}, tool |-> tool, method |-> "unpack", isolation |-> "full", steps |-> steps,
     projectInstall |-> "recipe's"]
Unpack == [uses |-> {}, ofRelease |-> TRUE]
Uses(x) == [uses |-> {x}, ofRelease |-> FALSE]
Each(x) == [f \in {"windows", "macos", "linux"} |-> x]
Runtime(id, releases, rules, recipes) ==
    [id |-> id, releases |-> releases, rules |-> rules, recipes |-> recipes,
     toolchains |-> <<>>, needs |-> {}, extraFiles |-> <<>>, kinds |-> {}, excluded |-> Each({}), only |-> FALSE,
     variants |-> <<>>, formats |-> Each(None), asyncio |-> <<>>, requires |-> Each({}), via |-> Each(id),
     package |-> None, installRules |-> <<>>, installFiles |-> {}, compiled |-> FALSE,
     installCommand |-> <<>>, unsupported |-> {}]

Nim(min, minBuild) ==
    [Runtime("nim",
        {Rel(1, V(1, 6), "windows", "x86", "", "N1"), Rel(2, V(2, 0), "windows", "amd64", "", "N2"),
         Rel(3, V(2, 0), "linux", "amd64", "", "N3"), Rel(4, V(1, 6), "macos", "universal", "", "N4")},
        {Rule("windows", {Spec_(">=", 2, 0)}, min, minBuild), Rule("windows", {Spec_("<", 2, 0)}, "8.1", 0),
         Rule("linux", {}, "glibc-2.17", 0), Rule("macos", {}, "11", 0)},
        <<Recipe(<<Unpack, Uses("dlls.zip")>>, {}, {}), Recipe(<<Unpack>>, {}, {})>>)
     EXCEPT !.requires = [@ EXCEPT !["windows"] = {[for |-> {}, runtime |-> "cc", variants |-> {}]},
                                   !["linux"] = {[for |-> {}, runtime |-> "zig", variants |-> {}]}],
            !.extraFiles = [x \in {"dlls.zip"} |->
                [for |-> {"install"}, sources |-> << [versions |-> {Spec_(">=", 2, 0)}, minOS |-> 1000, maxOS |-> 0,
                                              file |-> File("X1")] >>]],
            !.installRules = << [id |-> "main", files |-> {"main.nim"}, unsupported |-> FALSE,
                                 command |-> << [versions |-> {}, command |-> [windows |-> "build"]] >>] >>,
            !.compiled = TRUE,
            !.unsupported = {[for |-> {"install"}, os |-> {"macos"}, arches |-> {}, variants |-> {},
                              versions |-> {Spec_("<", 2, 0)}]}]
Cc == [Runtime("cc",
        {Rel(5, V(13, 0), "windows", "amd64", "msvcrt", "C1"), Rel(6, V(14, 0), "windows", "amd64", "ucrt", "C2"),
         Rel(7, V(13, 0), "windows", "x86", "msvcrt", "C3")},
        {[Rule("windows", {}, "8.1", 0) EXCEPT !.variants = {"msvcrt"}],
         [Rule("windows", {}, "10", 0) EXCEPT !.variants = {"ucrt"}]},
        <<Recipe(<<Unpack>>, {}, {})>>)
     EXCEPT !.via = [@ EXCEPT !["linux"] = "zig", !["macos"] = "zig"],
            !.variants = <<"ucrt", "msvcrt">>, !.formats = [@ EXCEPT !["windows"] = <<"msi", "zip">>],
            !.package = << [versions |-> {}, command |-> [windows |-> "get"]] >>,
            !.needs = {[for |-> {"install"}, variants |-> {"ucrt"}, versions |-> {}, minOS |-> 0, maxOS |-> 0,
                        ids |-> {"vc"}]}]
Zig == [Runtime("zig",
        {Rel(8, V(0, 13), "linux", "amd64", "", "Z1"), Rel(9, V(0, 12), "linux", "arm64", "", "Z2"),
         Rel(10, V(0, 12), "macos", "arm64", "", "M1"), Rel(11, V(0, 13), "linux", "amd64", "gnu", "Z3")},
        {[Rule("macos", {}, "11", 0) EXCEPT !.max = "14"]}, <<Recipe(<<Unpack>>, {}, {})>>)
     EXCEPT !.asyncio = [o \in {"glibc-2.17", "11"} |-> {Spec_("<", 0, 13)}]]

Catalogue(min, minBuild) ==
    [os |-> [windows |-> <<OS("windows", "11", 1000, 22000), OS("windows", "10", 1000, 0), OS("windows", "8.1", 603, 0)>>,
             macos |-> <<OS("macos", "14", 1400, 0), OS("macos", "11", 1100, 0), OS("macos", "10.14", 1014, 0)>>,
             linux |-> <<OS("linux", "glibc-2.28", 228, 0), OS("linux", "glibc-2.17", 217, 0),
                         OS("linux", "musl", 0, 0)>>],
     compMin |-> << [compiler |-> "zig", os |-> "linux", versions |-> {}, arches |-> {}, min |-> 0, static |-> TRUE] >>,
     unknownFloor |-> [windows |-> 1000, macos |-> 1100, linux |-> 228],
     prereqs |-> [x \in {"vc"} |-> [os |-> "windows", arches |-> {"amd64"}, file |-> File("P1")]],
     methodOrder |-> <<"unpack", "extract", "run">>, externalTmp |-> {"dlls.zip"},
     tools |-> <<>>,
     runtimes |-> [nim |-> Nim(min, minBuild), cc |-> Cc, zig |-> Zig]]

MCCatalogues == [c \in {<<"8.1", 0>>, <<"10", 17763>>, <<"10", 22000>>, <<"8.1", 22621>>} |-> Catalogue(c[1], c[2])]
MCLists == {{}, {"N2", "Z1"}, {"X1", "C2"}}
Form(runtime, source, mode, offline) ==
    [runtime |-> runtime, source |-> source, mode |-> mode, offline |-> offline,
     platforms |-> {"windows", "linux"}, picker |-> TRUE, ticked |-> {<<"win_1011", "amd64">>, <<"win_78", "amd64">>, <<"linux", "amd64">>},
     select |-> "newest", range |-> {}, tools |-> {}, names |-> {"main.nim"}, command |-> None, prereqs |-> {}]
MCForms == {Form("nim", "inline", "C", TRUE),
            [Form("nim", "github", "B", FALSE) EXCEPT !.names = {}, !.select = "range", !.range = {Spec_("<", 2, 0)}, !.platforms = {"windows", "macos"}],
            [Form("nim", "github", "B", TRUE) EXCEPT !.names = {}],
            [Form("nim", "upload", "C", TRUE) EXCEPT !.ticked = {<<"win_1011", "amd64">>}, !.platforms = {"windows"}],
            [Form("cc", "package", "C", TRUE) EXCEPT !.picker = FALSE],
            [Form("zig", "inline", "A", FALSE) EXCEPT !.platforms = {"linux", "macos"}, !.select = "asyncio"]}
Computer(family, int, build, arch) == [family |-> family, int |-> int, build |-> build, arch |-> arch]
MCComputers ==
    {Computer("windows", x[1], x[2], a) : x \in {<<1000, 22631>>, <<1000, 22000>>, <<1000, 19045>>, <<1000, 10240>>, <<603, 9600>>, <<602, 9200>>},
                                          a \in {"amd64", "x86", "arm64"}}
    \cup {Computer("linux", i, 0, a) : i \in {236, 228, 220, 217, 0}, a \in {"amd64", "arm64"}}
    \cup {Computer("macos", i, 0, a) : i \in {1500, 1400, 1200, 1014}, a \in {"amd64", "arm64"}}

(***************************************************************************)
(* Editing and signing                                                     *)
(***************************************************************************)
MCOpenable ==
    {[kind |-> "exe", signed |-> TRUE, plan |-> TRUE],
     [kind |-> "exe", signed |-> FALSE, plan |-> FALSE],
     [kind |-> "run", signed |-> FALSE, plan |-> TRUE],
     [kind |-> "zip", signed |-> TRUE, plan |-> FALSE]}

MCServices ==
    [csc |-> [where |-> "browser", calls |-> <<TRUE, TRUE>>],
     azure |-> [where |-> "server", calls |-> <<TRUE>>],
     keylocker |-> [where |-> "paste", calls |-> <<>>]]
MCPanelKinds == <<"exe", "run">>

(***************************************************************************)
(* Verifying                                                               *)
(***************************************************************************)
MCPublished == <<"win 10", "win 11", "linux", "arm", "old">>
TargetOf(text, i, files) ==
    [text |-> text, files |-> files, runs |-> TRUE,
     proof |-> ProofFor([j \in DOMAIN MCPublished |-> LeafHash(MCPublished[j])], i)]
SignedRoots == [by |-> "ours", intact |-> TRUE, readable |-> TRUE, root |-> TreeRoot([j \in DOMAIN MCPublished |-> LeafHash(MCPublished[j])])]
PlanDoc(by, body, targets) ==
    [by |-> by, intact |-> TRUE, of |-> "rec", number |-> "none", at |-> "then", body |-> body,
     roots |-> SignedRoots, targets |-> targets]
Proved == << TargetOf("win 11", 2, {"w"}), TargetOf("linux", 3, {"l"}), TargetOf("old", 5, {}) >>
Dropped_(plan, record) ==
    [is |-> "installer", bytes |-> "b", plan |-> plan, record |-> record, footerBad |-> FALSE, named |-> Nothing,
     pack |-> {"w", "l"}, today |-> [PlanDoc("none", "plan", Proved) EXCEPT !.roots = Nothing]]
BackendRecord == [id |-> "rec", source |-> "src", backend |-> "us"]
PageRecord == [id |-> "rec", source |-> "src", backend |-> Nothing]
MCDroppable ==
    [signed |-> Dropped_(PlanDoc("ours", "plan", Proved), BackendRecord),
     changed |-> Dropped_([PlanDoc("ours", "plan", Proved) EXCEPT !.intact = FALSE, !.roots.readable = FALSE], BackendRecord),
     proved |-> Dropped_(PlanDoc("none", "plan", Proved), PageRecord),
     oneMore |-> Dropped_(PlanDoc("none", "plan", Append(Proved, [TargetOf("edited", 1, {}) EXCEPT !.proof = Nothing])), PageRecord),
     edited |-> Dropped_(PlanDoc("none", "plan", << TargetOf("edited", 2, {"w"}), TargetOf("linux", 2, {"x"}) >>), PageRecord),
     rootless |-> Dropped_([PlanDoc("none", "plan", Proved) EXCEPT !.roots = [@ EXCEPT !.root = Nothing]], Nothing),
     broken |-> [Dropped_(Nothing, Nothing) EXCEPT !.footerBad = TRUE],
     named |-> [Dropped_(Nothing, Nothing) EXCEPT !.named = "rec2"],
     shared |-> Dropped_(Nothing, PageRecord),
     page |-> [Dropped_(Nothing, Nothing) EXCEPT !.is = "page", !.bytes = "p3"],
     other |-> [Dropped_(Nothing, Nothing) EXCEPT !.is = "other"]]
Entry(n, p) == [seq |-> n, page |-> p]
MCBuiltAfter == << Entry(1, "p1"), Entry(2, "p2") >>
LedgerEntries ==
    { <<>>, << Entry(1, "p1") >>, MCBuiltAfter, << Entry(1, "p3"), Entry(2, "p2") >>, << Entry(2, "p1"), Entry(2, "p2") >> }
    \cup {s \o << Entry(3, "p3") >> : s \in {MCBuiltAfter, << Entry(1, "p3"), Entry(2, "p2") >>, << Entry(1, "p1"), Entry(2, "p3") >>}}
MCLedgerDocs ==
    [by : {"ours", "other"}, intact : {TRUE}, entries : LedgerEntries,
     stated : {Nothing, ChainRoot(MCBuiltAfter \o << Entry(3, "p3") >>)}]

(***************************************************************************)
(* Serving                                                                 *)
(***************************************************************************)
MCCallers == {"198.51.100.1", "198.51.100.2"}
MCLimits == [build |-> 2, relay |-> 1, name |-> 1]
Public4 == <<93, 184, 216, 34>>
Public6 == <<32, 1, 13, 184, 0, 0, 0, 0, 0, 0, 0, 0, 0, 0, 0, 1>>
Short6(first, second, last) == [i \in 1..16 |-> CASE i = 1 -> first [] i = 2 -> second [] i = 16 -> last [] OTHER -> 0]
MappedLan == [i \in 1..16 |-> CASE i \in {11, 12} -> 255 [] i = 13 -> 10 [] i = 16 -> 1 [] OTHER -> 0]
MCInside ==
    {<<127, 0, 0, 1>>, <<0, 0, 0, 0>>, <<10, 0, 1, 76>>, <<172, 31, 0, 1>>, <<192, 168, 1, 1>>, <<100, 127, 0, 1>>, <<169, 254, 169, 254>>,
     MappedLan, Short6(0, 0, 1), Short6(0, 0, 0), Short6(253, 0, 1), Short6(254, 191, 1)}
Link(scheme, origin, answers, listed) == [scheme |-> scheme, origin |-> origin, answers |-> answers, listed |-> listed]
MCLinks ==
    [azure |-> Link("https", "azure", {<<Public4>>}, "sign"),
     azureOther |-> Link("https", "azure", {<<Public4>>}, "none"),
     azurePlain |-> Link("http", "azure:80", {<<Public4>>}, "none"),
     stamp |-> Link("http", "digicert", {<<Public6>>}, "tsa"),
     release |-> Link("https", "vendor", {<<Public4>>}, "relay"),
     turned |-> Link("https", "mirror", {<<x, Public4>> : x \in MCInside} \cup {<<x>> : x \in MCInside}, "none"),
     file |-> Link("ftp", "vendor", {<<Public4>>}, "none")]

(***************************************************************************)
(* The bytes of an installer                                               *)
(***************************************************************************)
MCPrograms == [win |-> [kind |-> "exe", secs |-> << [ours |-> FALSE, raw |-> 0, size |-> 2] >>, overlay |-> 2],
               linux |-> [kind |-> "run", secs |-> <<>>, overlay |-> 2],
               mac |-> [kind |-> "zip", secs |-> <<>>, overlay |-> 1]]
MCIcons == [a |-> 1, b |-> 2]
MCRecords == [r1 |-> 1, r2 |-> 2]
MCBodies == [p1 |-> 1, p2 |-> 3]
MCMembers == [m3 |-> 3, m4 |-> 4]

(***************************************************************************)
(* Signing services                                                        *)
(***************************************************************************)
Sslcom(password, credentialId, totp, keyType) ==
    [service |-> "sslcom", clientId |-> "id", username |-> "user", password |-> password,
     credentialId |-> credentialId, totp |-> totp, keyType |-> keyType, certificate |-> "none"]
Totp(reads, key, of) == [reads |-> reads, key |-> key, at |-> of]
Kms(name, key, region, alg, certificate) ==
    [service |-> name, key |-> key, secret |-> "right", region |-> region, alg |-> alg, certificate |-> certificate]
Azure(secret, alg, certificate) ==
    [service |-> "azurets", account |-> "a", region |-> "eus", secret |-> secret, alg |-> alg, certificate |-> certificate]
MCCertificates == {"its", "another", "none"}
Described(encoding, body, path, how, certPath) ==
    [service |-> "generic", url |-> "https", headers |-> "fine", body |-> body, encoding |-> encoding,
     path |-> path, signatureEncoding |-> how, certPath |-> certPath, certificate |-> "its"]
MCOrders ==
    {Sslcom(p, c, t, k) : p \in {"", "right"}, c \in {"", "c1", "c2"}, k \in {"rsa", "ec"},
                          t \in {Totp("both", "", 0), Totp("base32", "", 0), Totp("code", "of base32", 0), Totp("none", "", 0)}}
    \cup {Kms(n, k, r, a, c) : n \in {"gcpkms", "awskms"}, k \in {"", "k1"}, r \in {"us-east-1", "odd"}, a \in {"rsa", "ec"},
                               c \in MCCertificates}
    \cup {Azure(t, a, c) : t \in {"right", "old"}, a \in {"rsa", "ec"}, c \in MCCertificates}
    \cup {Described(e, b, p, h, c) : e \in {"base64", "hex", "raw"}, b \in {"empty", "template", "no place"},
                                 p \in {"", "signature"}, h \in {"base64", "hex"}, c \in {"", "chain", "other"}}
MCHolds ==
    [sslcom |-> [password |-> "right", credential |-> "c1", lists |-> <<{"c1"}, {}, {"c1", "c2"}>>, key |-> "of base32", keyType |-> "rsa"],
     gcpkms |-> [secret |-> "right", key |-> "k1", alg |-> "pss"],
     awskms |-> [secret |-> "right", key |-> "k1", algs |-> {"rsa", "pss"}, skewed |-> FALSE],
     azurets |-> [secret |-> "right", algs |-> {"rsa"}],
     generic |-> [takes |-> "hex", alg |-> "rsa", json |-> TRUE, path |-> "signature", how |-> "hex",
                 certPath |-> "chain"]]

(***************************************************************************)
(* The behaviours                                                          *)
(***************************************************************************)
VARIABLE part

mcVars == <<planVars, editVars, panelVars, verifyVars, admissionVars, outgoingVars, fileVars, servicesVars, part>>

MCInit ==
    /\ part \in {"plans", "edit", "sign", "verify", "admit", "fetch", "file", "services"}
    /\ InitPlans /\ (part # "plans" => host = "page" /\ list = {} /\ cat = <<"8.1", 0>>)
    /\ InitPanel /\ (part # "sign" => ~online /\ service = "csc")
    /\ InitVerify /\ (part # "verify" => ~server /\ baked = "none")
    /\ InitAdmission /\ (part # "admit" => ~trust /\ ~behind)
    /\ InitServices /\ (part # "services" => relayBase = "none" /\ order = Sslcom("", "", Totp("none", "", 0), "rsa"))
    /\ InitEdit /\ InitOutgoing /\ InitFile

MCNext ==
    /\ UNCHANGED part
    /\ \/ part = "plans" /\ NextPlans /\ UNCHANGED <<editVars, panelVars, verifyVars, admissionVars, outgoingVars, fileVars, servicesVars>>
       \/ part = "edit" /\ NextEdit /\ UNCHANGED <<planVars, panelVars, verifyVars, admissionVars, outgoingVars, fileVars, servicesVars>>
       \/ part = "sign" /\ NextPanel /\ UNCHANGED <<planVars, editVars, verifyVars, admissionVars, outgoingVars, fileVars, servicesVars>>
       \/ part = "verify" /\ NextVerify /\ UNCHANGED <<planVars, editVars, panelVars, admissionVars, outgoingVars, fileVars, servicesVars>>
       \/ part = "admit" /\ NextAdmission /\ UNCHANGED <<planVars, editVars, panelVars, verifyVars, outgoingVars, fileVars, servicesVars>>
       \/ part = "fetch" /\ NextOutgoing /\ UNCHANGED <<planVars, editVars, panelVars, verifyVars, admissionVars, fileVars, servicesVars>>
       \/ part = "file" /\ NextFile /\ UNCHANGED <<planVars, editVars, panelVars, verifyVars, admissionVars, outgoingVars, servicesVars>>
       \/ part = "services" /\ NextServices /\ UNCHANGED <<planVars, editVars, panelVars, verifyVars, admissionVars, outgoingVars, fileVars>>

MCSpec == MCInit /\ [][MCNext]_mcVars
=============================================================================
