---------------------------- MODULE BuildServer ----------------------------
(***************************************************************************)
(* The build server around its queue (server.js, lib/jobs.js, lib/files.js)*)
(* : jobs that are accepted, built and kept, plans signed on request, the  *)
(* files both leave in the data folder, and the list of what has been      *)
(* taken down.                                                             *)
(*                                                                         *)
(* Two stored files stand for all: the archive of one source, written by   *)
(* every build of it, and the record behind one package name, written by   *)
(* the requests for its plan. The queue is JobQueue's matter: a queued job *)
(* starts at some time, and starts again after a crash.                    *)
(***************************************************************************)
EXTENDS Naturals, FiniteSets

CONSTANTS
    Jobs,        \* builds of the one source
    NameAsks,    \* requests for the plan of the one name
    RecordAsks,  \* requests for the plan of that name's record, by its hash
    SourceAsks,  \* requests for the plan of a finished build
    Chunks,      \* number of pieces a file is written in
    MaxTroubles  \* bound: entries added, crashes, the list failing

\* What the list may name: the package or the repository a record was made
\* from, the record itself, a file of the catalogue its plan would install, the
\* archive of the source by its SHA-256.
Entries == {"source", "record", "file", "sha"}
Files == {"archive", "record"}
Asks == NameAsks \cup RecordAsks \cup SourceAsks
Writers == Jobs \cup NameAsks
Calls == Jobs \cup Asks

ASSUME ServerAssumption ==
    /\ Chunks \in Nat \ {0}
    /\ MaxTroubles \in Nat
    /\ Jobs \cap Asks = {}
    /\ NameAsks \cap (RecordAsks \cup SourceAsks) = {}
    /\ RecordAsks \cap SourceAsks = {}

VARIABLES
    list,      \* the entries of takedown.txt
    readable,  \* takedown.txt can be read
    disk,      \* each stored file's pieces; piece 0 stands for the name itself
    tmp,       \* the same of its <file>.tmp
    pc,        \* where each call is
    at,        \* the name a writer's open file has now: "tmp", "disk", "gone"
    nxt,       \* the next piece a writer writes
    srcSha,    \* srcShaCache of the archive: "none", "right", "wrong"
    plan,      \* what a signed plan makes an engine download of the catalogue's
    since,     \* entries the call was under from its beginning
    signedOn,  \* entries on the list when the plan was signed
    blind,     \* the list was unreadable while the call was under way
    unread,    \* a check by source found no whole record to name it
    raced,     \* files two writers were at, both before their rename
    crashes

diskVars == <<disk, tmp, at, nxt, raced>>
ghosts == <<since, signedOn, blind, unread>>
serverVars == <<list, readable, diskVars, pc, srcSha, plan, ghosts, crashes>>

Whole == 0..Chunks
Exists(f) == disk[f] # {}
FileOf(w) == IF w \in Jobs THEN "archive" ELSE "record"
Running(j) == pc[j] \in {"open", "write", "rename", "stored"}
Writing(w) == pc[w] \in {"write", "rename"}

InitServer ==
    /\ list = {} /\ readable = TRUE
    /\ disk = [f \in Files |-> {}] /\ tmp = [f \in Files |-> {}]
    /\ pc = [c \in Calls |-> "idle"]
    /\ at = [w \in Writers |-> "gone"] /\ nxt = [w \in Writers |-> 1]
    /\ srcSha = "none"
    /\ plan = [a \in Asks |-> "none"]
    /\ since = [c \in Calls |-> {}] /\ signedOn = [a \in Asks |-> {}]
    /\ blind = {} /\ unread = {} /\ raced = {} /\ crashes = 0

(***************************************************************************)
(* The takedown list, read anew for every question.                        *)
(***************************************************************************)
\* takedownList(): a list that cannot be read counts as an empty one, so every
\* question put to it is answered as if nothing had been withdrawn.
Read == IF readable THEN list ELSE {}

TakenDown(e) == e \in Read

\* By the record's hash, or by the source the stored record names; one that is
\* not there in full may have lost the line that names it.
MayBeDown ==
    \/ TakenDown("record")
    \/ Exists("record") /\ TakenDown("source")
TakenDownRecord ==
    \/ TakenDown("record")
    \/ disk["record"] = Whole /\ TakenDown("source")

Troubles == Cardinality(list) + crashes + (IF readable THEN 0 ELSE 1)

Goto(c, where) == pc' = [pc EXCEPT ![c] = where]

Begin(c) ==
    /\ since' = [since EXCEPT ![c] = Read]
    /\ blind' = IF readable THEN blind ELSE blind \cup {c}
    /\ UNCHANGED signedOn

Asked(a) ==
    \/ MayBeDown /\ Goto(a, "refused")
    \/ ~TakenDownRecord /\ Goto(a, "load")

Checked(a) == unread' = IF disk["record"] = Whole THEN unread ELSE unread \cup {a}

\* The operator adds an entry (tools/takedown.mjs), which is never removed.
Withdraw(e) ==
    /\ e \notin list /\ Troubles < MaxTroubles
    /\ list' = list \cup {e}
    /\ UNCHANGED <<readable, diskVars, pc, srcSha, plan, ghosts, crashes>>

\* The file's permissions, or its disk.
ListFails ==
    /\ readable /\ Troubles < MaxTroubles
    /\ readable' = FALSE
    /\ blind' = blind \cup {c \in Calls : pc[c] \notin {"idle", "done", "failed", "refused"}}
    /\ UNCHANGED <<list, diskVars, pc, srcSha, plan, since, signedOn, unread, crashes>>

(***************************************************************************)
(* writeAtomic: the bytes under <file>.tmp, which is then renamed. The     *)
(* name is the same for every writer of the file.                          *)
(***************************************************************************)
Others(w) == {v \in Writers \ {w} : FileOf(v) = FileOf(w) /\ Writing(v)}

\* Mutant: the file is renamed before it is written.
OpenUnwritten(w) ==
    /\ pc[w] = "open"
    /\ tmp' = [tmp EXCEPT ![FileOf(w)] = {0}]
    /\ Goto(w, "rename")
    /\ UNCHANGED <<list, readable, disk, at, nxt, raced, srcSha, plan, ghosts, crashes>>

\* The file is created, or the one somebody is writing is emptied.
Open(w) ==
    /\ pc[w] = "open"
    /\ tmp' = [tmp EXCEPT ![FileOf(w)] = {0}]
    /\ at' = [at EXCEPT ![w] = "tmp"]
    /\ nxt' = [nxt EXCEPT ![w] = 1]
    /\ raced' = IF \E v \in Others(w) : at[v] = "tmp" THEN raced \cup {FileOf(w)} ELSE raced
    /\ Goto(w, "write")
    /\ UNCHANGED <<list, readable, disk, srcSha, plan, ghosts, crashes>>

WritePiece(w) ==
    /\ pc[w] = "write"
    /\ tmp' = IF at[w] = "tmp" THEN [tmp EXCEPT ![FileOf(w)] = @ \cup {nxt[w]}] ELSE tmp
    /\ disk' = IF at[w] = "disk" THEN [disk EXCEPT ![FileOf(w)] = @ \cup {nxt[w]}] ELSE disk
    /\ nxt' = [nxt EXCEPT ![w] = @ + 1]
    /\ Goto(w, IF nxt[w] = Chunks THEN "rename" ELSE "write")
    /\ UNCHANGED <<list, readable, at, raced, srcSha, plan, ghosts, crashes>>

\* Whatever bears the name <file>.tmp now; an error if nothing does.
Rename(w) ==
    LET f == FileOf(w) IN
    /\ pc[w] = "rename"
    /\ IF tmp[f] = {}
       THEN /\ Goto(w, "failed")
            /\ UNCHANGED <<disk, tmp, at>>
       ELSE /\ disk' = [disk EXCEPT ![f] = tmp[f]]
            /\ tmp' = [tmp EXCEPT ![f] = {}]
            /\ at' = [v \in Writers |->
                        IF FileOf(v) # f THEN at[v]
                        ELSE IF at[v] = "tmp" THEN "disk" ELSE "gone"]
            /\ Goto(w, IF w \in Jobs THEN "stored" ELSE "check")
    /\ UNCHANGED <<list, readable, nxt, raced, srcSha, plan, ghosts, crashes>>

(***************************************************************************)
(* Builds: acceptJob, and runJob in the queue's worker.                    *)
(***************************************************************************)
\* Validated, not taken down, its icon stored, and queued.
Accept(j) ==
    /\ pc[j] = "idle" /\ ~TakenDown("source")
    /\ Goto(j, "queued")
    /\ Begin(j)
    /\ UNCHANGED <<list, readable, diskVars, srcSha, plan, unread, crashes>>

Start(j) ==
    /\ pc[j] = "queued"
    /\ Goto(j, "open")
    /\ UNCHANGED <<list, readable, diskVars, srcSha, plan, ghosts, crashes>>

\* After its source is stored: the check by SHA-256, the record of this very
\* build, and the installers, each under a name of its own while written.
Finish(j) ==
    /\ pc[j] = "stored"
    /\ Goto(j, IF TakenDown("sha") THEN "failed" ELSE "done")
    /\ UNCHANGED <<list, readable, diskVars, srcSha, plan, ghosts, crashes>>

\* A base is missing, GitHub does not answer, the disk is full...
Fails(j) ==
    /\ pc[j] = "stored"
    /\ Goto(j, "failed")
    /\ UNCHANGED <<list, readable, diskVars, srcSha, plan, ghosts, crashes>>

(***************************************************************************)
(* Plans.                                                                  *)
(***************************************************************************)
\* planByName, as far as its first check.
AskName(a) ==
    /\ a \in NameAsks /\ pc[a] = "idle"
    /\ Goto(a, IF TakenDown("source") THEN "refused" ELSE "look")
    /\ Begin(a)
    /\ UNCHANGED <<list, readable, diskVars, srcSha, plan, unread, crashes>>

\* The registry answers: there is such a package, or not (or no answer).
Look(a) ==
    /\ pc[a] = "look"
    /\ \E where \in {"read", "failed"} : Goto(a, where)
    /\ UNCHANGED <<list, readable, diskVars, srcSha, plan, ghosts, crashes>>

\* storeRecord: other bytes under the record's name count as a collision.
ReadOld(a) ==
    /\ pc[a] = "read"
    /\ Goto(a, CASE ~Exists("record") -> "open"
                 [] disk["record"] = Whole -> "check"
                 [] OTHER -> "failed")
    /\ UNCHANGED <<list, readable, diskVars, srcSha, plan, ghosts, crashes>>

\* The second check, now that there is a record to ask about.
CheckAgain(a) ==
    /\ pc[a] = "check"
    /\ Asked(a)
    /\ Checked(a)
    /\ UNCHANGED <<list, readable, diskVars, srcSha, plan, since, signedOn, blind, crashes>>

\* plan(): by the hash of a record, here the name's own.
AskRecord(a) ==
    /\ a \in RecordAsks /\ pc[a] = "idle"
    /\ Asked(a)
    /\ Begin(a) /\ Checked(a)
    /\ UNCHANGED <<list, readable, diskVars, srcSha, plan, crashes>>

\* plan(): of a build that is done, whose own record was stored before.
AskSource(a) ==
    /\ a \in SourceAsks /\ pc[a] = "idle"
    /\ \E j \in Jobs : pc[j] = "done"
    /\ Goto(a, IF TakenDown("record") \/ TakenDown("source") THEN "refused" ELSE "load")
    /\ Begin(a)
    /\ UNCHANGED <<list, readable, diskVars, srcSha, plan, unread, crashes>>

\* loadApp: the record as it is on disk now. One that is cut short is resolved
\* from too, if what is left names a runtime.
Load(a) ==
    /\ pc[a] = "load" /\ a \notin SourceAsks
    /\ \/ Exists("record") /\ Goto(a, "ready")
       \/ disk["record"] # Whole /\ Goto(a, "failed")
    /\ UNCHANGED <<list, readable, diskVars, srcSha, plan, ghosts, crashes>>

\* srcFile: the archive is hashed when it is first asked for, and never again.
\* It is named in the plan whether or not its SHA-256 is on the list by now.
LoadSource(a) ==
    /\ pc[a] = "load" /\ a \in SourceAsks
    /\ srcSha' = IF Exists("archive") /\ srcSha = "none"
                 THEN IF disk["archive"] = Whole THEN "right" ELSE "wrong"
                 ELSE srcSha
    /\ Goto(a, "ready")
    /\ UNCHANGED <<list, readable, diskVars, plan, ghosts, crashes>>

\* Mutant: what was withdrawn when the call began.
RevokedThen(a) == since[a]

\* What the resolver is told to leave out (setRevoked, right before it).
Revoked(a) == Read

\* Resolved and signed without a pause: the first download that is not
\* withdrawn, or another build of the runtime.
Sign(a) ==
    /\ pc[a] = "ready"
    /\ plan' = [plan EXCEPT ![a] = IF "file" \in Revoked(a) THEN "next" ELSE "file"]
    /\ signedOn' = [signedOn EXCEPT ![a] = Read]
    /\ Goto(a, "done")
    /\ UNCHANGED <<list, readable, diskVars, srcSha, since, blind, unread, crashes>>

(***************************************************************************)
(* The process ends at any point. Running jobs start again, requests are   *)
(* lost, what is on disk stays.                                            *)
(***************************************************************************)
Crash ==
    /\ Troubles < MaxTroubles
    /\ crashes' = crashes + 1
    /\ pc' = [c \in Calls |->
                IF c \in Jobs THEN IF Running(c) THEN "queued" ELSE pc[c]
                ELSE IF pc[c] \in {"idle", "done", "refused"} THEN pc[c] ELSE "failed"]
    /\ at' = [w \in Writers |-> "gone"]
    /\ srcSha' = "none"
    /\ UNCHANGED <<list, readable, disk, tmp, nxt, raced, plan, ghosts>>

WriterStep(w) == Open(w) \/ WritePiece(w) \/ Rename(w)
JobStep(j) == Start(j) \/ Finish(j) \/ Fails(j)
AskStep(a) ==
    \/ AskName(a) \/ Look(a) \/ ReadOld(a) \/ CheckAgain(a)
    \/ AskRecord(a) \/ AskSource(a) \/ Load(a) \/ LoadSource(a) \/ Sign(a)

NextServer ==
    \/ \E j \in Jobs : Accept(j) \/ JobStep(j)
    \/ \E w \in Writers : WriterStep(w)
    \/ \E a \in Asks : AskStep(a)
    \/ \E e \in Entries : Withdraw(e)
    \/ ListFails \/ Crash

SpecServer == InitServer /\ [][NextServer]_serverVars

(***************************************************************************)
(* Properties                                                              *)
(***************************************************************************)
\* The file is there in full or not at all, however often the server died,
\* nobody's rename missed its file, no record was taken for a collision and
\* no wrong hash of the archive was kept - unless two writers once had its
\* .tmp open together (writeAtomic, storeRecord, srcFile).
TroubleOnlyFromOverlap ==
    /\ \A f \in Files \ raced : disk[f] \in {{}, Whole}
    /\ \A w \in Writers : pc[w] = "rename" /\ FileOf(w) \notin raced => tmp[FileOf(w)] = Whole
    /\ "archive" \notin raced => srcSha # "wrong"

\* Nothing is built or planned whose record or source was on the list when the
\* request for it came in, nothing is built from an archive that was, and no
\* plan sends an engine to a file of the catalogue that was on the list when the
\* plan was signed. Two exceptions are the code's: an unreadable list withdraws
\* nothing (takedownList), and a record that is not wholly there may not name
\* its source. What is not promised is the archive of a build's plan: srcFile
\* goes on naming one that has been withdrawn by its SHA-256 since.
NothingOnceWithdrawn ==
    \A c \in Calls \ blind : pc[c] = "done" =>
        /\ c \in Jobs => "sha" \notin since[c]
        /\ c \notin RecordAsks \cap unread => "source" \notin since[c]
        /\ c \in Asks =>
              /\ "record" \notin since[c]
              /\ plan[c] = "file" => "file" \notin signedOn[c]
=============================================================================
