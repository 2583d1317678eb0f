--------------------------- MODULE MCOverlayStore ---------------------------
(***************************************************************************)
(* A page's changes to the catalogue, as they are stored and as they are   *)
(* edited and used, and the Create page's form, for TLC: a behaviour is    *)
(* one of the three, the others rest.                                      *)
(***************************************************************************)
EXTENDS OverlayStore, ChangeEditor, NewPage

CONSTANTS t1, w1, nothing, small, big, Parts

\* Nothing is built into the page.
PlainPage == [t \in Tabs |-> nothing]

\* Two catalogues: the second is a newer page's, without what some changes
\* are to. Windows 11 is not in it.
Build(url, variant, sha) == [url |-> url, variant |-> variant, sha |-> sha]
Rule_(min) == [min |-> min]
MCContents ==
    {[release |-> <<Build("u1", "a", "h1"), Build("u1", "b", "h2")>>, recipe |-> << [method |-> "unpack", steps |-> "s1"] >>,
      rule |-> <<Rule_("10"), Rule_("11")>>, policy |-> NoValue, oses |-> {"10", "11"}, methods |-> {"unpack"}],
     [release |-> <<Build("u2", "a", "h3"), Build("u1", "a", "h1")>>, recipe |-> <<>>,
      rule |-> <<Rule_("11"), Rule_("10")>>, policy |-> [versions |-> "3"], oses |-> {"10"}, methods |-> {"unpack"}]}
MCTyped ==
    [release |-> {Build("u1", "b", ""), Build("ftp", "a", "h1")}, recipe |-> {},
     rule |-> {Rule_("11")}, policy |-> {[versions |-> "3"], [versions |-> "4"]}]
MCDocuments ==
    {<< Change("remove", "release", {<<"url", "u2">>}, "", NoValue, Build("u2", "a", "h3")),
        Change("replace", "release", ReleaseSelector(Build("u2", "a", "h3")), "", Build("u2", "a", "h4"), Build("u2", "a", "h3")),
        Change("remove", "policy", ThePolicy, "", NoValue, NoValue),
        Change("add", "rule", Nowhere, "n1", Rule_("10"), NoValue), Change("add", "release", Nowhere, "n1", Build("u3", "a", "h5"), NoValue),
        Change("remove", "rule", AtIndex(1), "", NoValue, Rule_("10")), Change("replace", "rule", AtIndex(2), "", Rule_("none"), Rule_("11")) >>}

\* A language with a template for Windows alone, one without a launch field,
\* one without templates or builds; a server without the Linux builds.
MCSystems == {"windows", "linux"}
MCCommands == [python |-> "-m", none |-> "run"]
Template(launch, platforms) == [launch |-> launch, platforms |-> platforms]
MCTemplates == [python |-> [script |-> Template("script.py", MCSystems), tray |-> Template("tray.py", {"windows"})],
                python2 |-> [script |-> Template("script2.py", MCSystems)]]
MCWrites == {"script.py", "mine"}
Box(platform, mb, on) == [platform |-> platform, mb |-> mb, on |-> on]
MCPackable == [win |-> Box("windows", 2, TRUE), lin |-> Box("linux", 1, FALSE)]
MCCoverage == [page |-> [python |-> {"win", "lin"}, none |-> {}, python2 |-> {"win"}],
               s1 |-> [python |-> {"win"}, none |-> {}, python2 |-> {"win"}]]
MCArchives == [big |-> 2]

VARIABLE part

SpecInit ==
    /\ part \in Parts
    /\ Init
    /\ InitEditor /\ (part # "editor" => base = CHOOSE b \in Contents : TRUE)
    /\ InitNewPage /\ (part # "form" => fields.mode = "C" /\ apiAt = "page")

SpecNext ==
    /\ UNCHANGED part
    /\ \/ part = "store" /\ Next /\ UNCHANGED <<editorVars, newPageVars>>
       \/ part = "editor" /\ NextEditor /\ UNCHANGED <<vars, newPageVars>>
       \/ part = "form" /\ NextNewPage /\ UNCHANGED <<vars, editorVars>>
       \/ part = "form" /\ gestures = MaxGestures /\ UNCHANGED <<vars, editorVars, newPageVars>>   \* the bound
       \/ part = "form" /\ posted # NothingSent /\ UNCHANGED <<vars, editorVars, newPageVars>>
=============================================================================
