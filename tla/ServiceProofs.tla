---------------------------- MODULE ServiceProofs -----------------------------
(***************************************************************************)
(* Proofs about BuildServer, PageBuilds and TicketPage, for any number of  *)
(* builds, requests, polls and pieces of a file: what was withdrawn when a *)
(* request came in is not answered with, a stored file is torn only if two *)
(* writers overlapped; builds in the page keep apart; and the page of a    *)
(* ticket loses no build and paints in order.                              *)
(***************************************************************************)
EXTENDS PageBuilds, TicketPage, FiniteSetTheorems, TLAPS

(***************************************************************************)
(* BuildServer: requests and the store of files.                           *)
(***************************************************************************)
(* The inductive invariant *)

Over == {"idle", "done", "failed", "refused"}
Served == {"load", "ready", "done"}
Places == Over \cup Served
          \cup {"queued", "open", "write", "rename", "stored", "look", "read", "check"}

Types ==
    /\ list \subseteq Entries /\ readable \in BOOLEAN
    /\ disk \in [Files -> SUBSET Nat] /\ tmp \in [Files -> SUBSET Nat]
    /\ pc \in [Calls -> Places]
    /\ at \in [Writers -> {"tmp", "disk", "gone"}] /\ nxt \in [Writers -> Nat]
    /\ plan \in [Asks -> {"none", "next", "file"}]
    /\ since \in [Calls -> SUBSET Entries] /\ signedOn \in [Asks -> SUBSET Entries]

\* A call whose list could be read all along has seen all that it began under
\* not to be on it, each entry by the time the call needs it not to be.
SeenOK(c) ==
    /\ pc[c] \notin Over => readable
    /\ c \in Jobs /\ pc[c] = "done" => "sha" \notin since[c]
    /\ c \notin RecordAsks /\ pc[c] \notin {"idle", "failed", "refused"} => "source" \notin since[c]
    /\ c \in Asks /\ pc[c] \in Served => "record" \notin since[c]
    /\ c \in RecordAsks /\ pc[c] \in Served /\ "source" \in since[c] => c \in unread

CallOK(c) ==
    /\ since[c] \subseteq list
    /\ c \in RecordAsks => pc[c] \in Over \cup Served
    /\ c \in Asks /\ plan[c] = "file" => "file" \notin signedOn[c]
    /\ c \notin blind => SeenOK(c)

\* Nobody was ever at this file while another was: whoever is has all that
\* was written of it under its .tmp.
OnTmp(w) ==
    /\ at[w] = "tmp"
    /\ tmp[FileOf(w)] = 0..(nxt[w] - 1)
    /\ nxt[w] \in 1..(Chunks + 1)
    /\ pc[w] = "write" <=> nxt[w] # Chunks + 1

WellKept(f) ==
    /\ disk[f] \in {{}, Whole}
    /\ \A w \in Writers : FileOf(w) = f /\ Writing(w) => OnTmp(w)
    /\ \A v, w \in Writers : FileOf(v) = f /\ FileOf(w) = f /\ Writing(v) /\ Writing(w) => v = w

FileOK(f) == f \notin raced => WellKept(f)

IInv ==
    /\ Types
    /\ \A c \in Calls : CallOK(c)
    /\ \A f \in Files : FileOK(f)
    /\ "archive" \notin raced => srcSha # "wrong"

(* Lemmas the steps share *)

USE ServerAssumption

LEMMA Names ==
    /\ Writers \subseteq Calls /\ Asks \subseteq Calls /\ Jobs \subseteq Writers
    /\ \A w \in Writers : FileOf(w) \in Files
    /\ Jobs \cap Asks = {}
    /\ Asks = NameAsks \cup RecordAsks \cup SourceAsks
    /\ NameAsks \cap (RecordAsks \cup SourceAsks) = {} /\ RecordAsks \cap SourceAsks = {}
  BY DEF Writers, Calls, Asks, FileOf, Files

\* A call that a step leaves alone stays as it should be, though the list may
\* grow, or be lost to all that are under way.
LEMMA CallUnmoved ==
    ASSUME NEW c \in Calls, CallOK(c),
           pc'[c] = pc[c], since'[c] = since[c],
           c \in Asks => plan'[c] = plan[c] /\ signedOn'[c] = signedOn[c],
           list \subseteq list', blind \subseteq blind', unread \subseteq unread',
           readable' = readable \/ pc[c] \in Over \/ c \in blind'
    PROVE  CallOK(c)'
  BY DEF CallOK, SeenOK

\* A file is as it was for those at it.
SameFile(f) ==
    /\ disk'[f] = disk[f] /\ tmp'[f] = tmp[f]
    /\ \A w \in Writers : FileOf(w) = f /\ Writing(w)' =>
          Writing(w) /\ at'[w] = at[w] /\ nxt'[w] = nxt[w] /\ pc'[w] = pc[w]
    /\ raced \subseteq raced'

LEMMA FileUnmoved ==
    ASSUME NEW f \in Files, FileOK(f), SameFile(f)
    PROVE  FileOK(f)'
<1> SUFFICES ASSUME f \notin raced'  PROVE WellKept(f)'
  BY DEF FileOK
<1>1. f \notin raced  BY DEF SameFile
<1>2. disk'[f] \in {{}, Whole}  BY <1>1 DEF FileOK, WellKept, SameFile
<1>3. ASSUME NEW w \in Writers, FileOf(w) = f, Writing(w)'
      PROVE  OnTmp(w)'
  <2>1. OnTmp(w)  BY <1>1, <1>3 DEF FileOK, WellKept, SameFile
  <2>2. QED  BY <1>3, <2>1 DEF OnTmp, SameFile, FileOf
<1>4. ASSUME NEW v \in Writers, NEW w \in Writers, FileOf(v) = f, FileOf(w) = f, Writing(v)', Writing(w)'
      PROVE  v = w
  BY <1>1, <1>4 DEF FileOK, WellKept, SameFile
<1>5. QED  BY <1>2, <1>3, <1>4 DEF WellKept, Whole, FileOf

(* The first states *)

LEMMA InitInv == InitServer => IInv
<1> SUFFICES ASSUME InitServer  PROVE IInv
  OBVIOUS
<1>1. Types
  <2>1. disk \in [Files -> SUBSET Nat] /\ tmp \in [Files -> SUBSET Nat]  BY DEF InitServer
  <2>2. pc \in [Calls -> Places] /\ at \in [Writers -> {"tmp", "disk", "gone"}] /\ plan \in [Asks -> {"none", "next", "file"}]  BY DEF InitServer, Places, Over
  <2>3. since \in [Calls -> SUBSET Entries] /\ signedOn \in [Asks -> SUBSET Entries]  BY DEF InitServer
  <2>4. QED  BY <2>1, <2>2, <2>3 DEF InitServer, Types
<1>2. \A c \in Calls : CallOK(c)
  BY Names DEF InitServer, CallOK, SeenOK, Over, Served
<1>3. \A f \in Files : FileOK(f)
  BY Names DEF InitServer, FileOK, WellKept, Writing
<1>4. srcSha # "wrong"  BY DEF InitServer
<1>5. QED  BY <1>1, <1>2, <1>3, <1>4 DEF IInv

(* Steps of one call *)

\* A step of call c that leaves the files alone, and c itself where it is at
\* no file.
LEMMA CallStep ==
    ASSUME IInv, NEW c \in Calls, NEW where \in Places, Goto(c, where), where \notin {"write", "rename"},
           UNCHANGED <<list, readable, disk, tmp, at, nxt, raced>>,
           Types', "archive" \notin raced => srcSha' # "wrong",
           \A d \in Calls \ {c} : since'[d] = since[d],
           \A a \in Asks \ {c} : plan'[a] = plan[a] /\ signedOn'[a] = signedOn[a],
           blind \subseteq blind', unread \subseteq unread',
           CallOK(c)'
    PROVE  IInv'
<1>1. \A d \in Calls : CallOK(d)'
  <2>1. \A d \in Calls \ {c} : pc'[d] = pc[d]  BY DEF IInv, Types, Goto
  <2>2. QED  BY <2>1, CallUnmoved DEF IInv
<1>2. \A f \in Files : FileOK(f)'
  <2>1. \A w \in Writers : Writing(w)' => Writing(w) /\ pc'[w] = pc[w]
    BY Names DEF IInv, Types, Goto, Writing
  <2>2. \A f \in Files : SameFile(f)  BY <2>1 DEF SameFile
  <2>3. QED  BY <2>2, FileUnmoved DEF IInv
<1>3. QED  BY <1>1, <1>2 DEF IInv

LEMMA AcceptStep == ASSUME IInv, NEW j \in Jobs, Accept(j)  PROVE IInv'
<1> USE Names
<1>1. j \in Calls /\ j \notin Asks  OBVIOUS
<1>2. CallOK(j)'
  BY DEF IInv, CallOK, SeenOK, Types, Accept, TakenDown, Goto, Begin, Read, Over, Served
<1>3. Types'
  BY DEF IInv, Types, Accept, Goto, Begin, Read, diskVars, Places
<1>4. QED
  BY <1>1, <1>2, <1>3, CallStep, ZenonT(60) DEF IInv, Types, Accept, Goto, Begin, diskVars, Places

LEMMA StartStep == ASSUME IInv, NEW j \in Jobs, Start(j)  PROVE IInv'
<1> USE Names
<1>1. CallOK(j)'
  BY DEF IInv, CallOK, SeenOK, Types, Start, Goto, Over, Served, ghosts
<1>2. Types'
  BY DEF IInv, Types, Start, Goto, Places, Over, Served, diskVars, ghosts
<1>3. QED
  BY <1>1, <1>2, CallStep DEF IInv, Types, Start, Goto, Places, Over, Served, diskVars, ghosts

LEMMA FinishStep == ASSUME IInv, NEW j \in Jobs, Finish(j)  PROVE IInv'
<1> USE Names
<1>1. CallOK(j)'
  BY DEF IInv, CallOK, SeenOK, Types, Finish, Goto, Over, Served, ghosts, TakenDown, Read
<1>2. Types'
  BY DEF IInv, Types, Finish, Goto, Places, Over, Served, diskVars, ghosts
<1>3. QED
  BY <1>1, <1>2, CallStep DEF IInv, Types, Finish, Goto, Places, Over, Served, diskVars, ghosts

LEMMA FailsStep == ASSUME IInv, NEW j \in Jobs, Fails(j)  PROVE IInv'
<1> USE Names
<1>1. CallOK(j)'
  BY DEF IInv, CallOK, SeenOK, Types, Fails, Goto, Over, Served, ghosts
<1>2. Types'
  BY DEF IInv, Types, Fails, Goto, Places, Over, Served, diskVars, ghosts
<1>3. QED
  BY <1>1, <1>2, CallStep DEF IInv, Types, Fails, Goto, Places, Over, Served, diskVars, ghosts

LEMMA AskNameStep == ASSUME IInv, NEW a \in Asks, AskName(a)  PROVE IInv'
<1> USE Names
<1>1. CallOK(a)'
  BY DEF IInv, CallOK, SeenOK, Types, AskName, Goto, Over, Served, Begin, TakenDown, Read
<1>2. Types'
  BY DEF IInv, Types, AskName, Goto, Places, Over, Served, diskVars, ghosts, Begin, Read
<1>3. QED
  BY <1>1, <1>2, CallStep DEF IInv, Types, AskName, Goto, Places, Over, Served, diskVars, ghosts, Begin, Read

LEMMA LookStep == ASSUME IInv, NEW a \in Asks, Look(a)  PROVE IInv'
<1> USE Names
<1>1. CallOK(a)'
  BY DEF IInv, CallOK, SeenOK, Types, Look, Goto, Over, Served, ghosts
<1>2. Types'
  BY DEF IInv, Types, Look, Goto, Places, Over, Served, diskVars, ghosts
<1>3. QED
  BY <1>1, <1>2, CallStep DEF IInv, Types, Look, Goto, Places, Over, Served, diskVars, ghosts

LEMMA ReadOldStep == ASSUME IInv, NEW a \in Asks, ReadOld(a)  PROVE IInv'
<1> USE Names
<1>1. CallOK(a)'
  BY DEF IInv, CallOK, SeenOK, Types, ReadOld, Goto, Over, Served, ghosts
<1>2. Types'
  BY DEF IInv, Types, ReadOld, Goto, Places, Over, Served, diskVars, ghosts
<1>3. PICK where \in {"open", "check", "failed"} : Goto(a, where)
  BY DEF ReadOld
<1>4. QED
  BY <1>1, <1>2, <1>3, CallStep DEF IInv, Types, ReadOld, Goto, Places, Over, Served, diskVars, ghosts

LEMMA CheckAgainStep == ASSUME IInv, NEW a \in Asks, CheckAgain(a)  PROVE IInv'
<1> USE Names
<1>1. CallOK(a)'
  BY DEF IInv, CallOK, SeenOK, Types, CheckAgain, Asked, Goto, Over, Served, Checked,
         TakenDownRecord, TakenDown, Read
<1>2. PICK where \in {"refused", "load"} : Goto(a, where)
  BY DEF CheckAgain, Asked
<1>3. Types'
  BY <1>2 DEF IInv, Types, CheckAgain, Goto, Places, Over, Served, diskVars, ghosts, Checked
<1>4. QED
  BY <1>1, <1>2, <1>3, CallStep DEF IInv, Types, CheckAgain, Goto, Places, Over, Served, diskVars, ghosts, Checked

LEMMA AskRecordStep == ASSUME IInv, NEW a \in Asks, AskRecord(a)  PROVE IInv'
<1> USE Names
<1>1. CallOK(a)'
  BY DEF IInv, CallOK, SeenOK, Types, AskRecord, Asked, Goto, Over, Served, Begin, Checked,
         TakenDownRecord, TakenDown, Read
<1>2. PICK where \in {"refused", "load"} : Goto(a, where)
  BY DEF AskRecord, Asked
<1>3. Types'
  BY <1>2 DEF IInv, Types, AskRecord, Goto, Places, Over, Served, diskVars, ghosts, Begin, Checked, Read
<1>4. QED
  BY <1>1, <1>2, <1>3, CallStep DEF IInv, Types, AskRecord, Goto, Places, Over, Served, diskVars, ghosts, Begin, Checked, Read

LEMMA AskSourceStep == ASSUME IInv, NEW a \in Asks, AskSource(a)  PROVE IInv'
<1> USE Names
<1>1. CallOK(a)'
  BY DEF IInv, CallOK, SeenOK, Types, AskSource, Goto, Over, Served, Begin, Read, TakenDown
<1>2. Types'
  BY DEF IInv, Types, AskSource, Goto, Places, Over, Served, diskVars, ghosts, Begin, Read
<1>3. QED
  BY <1>1, <1>2, CallStep DEF IInv, Types, AskSource, Goto, Places, Over, Served, diskVars, ghosts, Begin, Read

LEMMA LoadStep == ASSUME IInv, NEW a \in Asks, Load(a)  PROVE IInv'
<1> USE Names
<1>1. CallOK(a)'
  BY DEF IInv, CallOK, SeenOK, Types, Load, Goto, Over, Served, ghosts
<1>2. PICK where \in {"ready", "failed"} : Goto(a, where)
  BY DEF Load
<1>3. Types'
  BY <1>2 DEF IInv, Types, Load, Goto, Places, Over, Served, diskVars, ghosts
<1>4. QED
  BY <1>1, <1>2, <1>3, CallStep DEF IInv, Types, Load, Goto, Places, Over, Served, diskVars, ghosts

LEMMA LoadSourceStep == ASSUME IInv, NEW a \in Asks, LoadSource(a)  PROVE IInv'
<1> USE Names
<1>1. CallOK(a)'
  BY DEF IInv, CallOK, SeenOK, Types, LoadSource, Goto, Over, Served, ghosts
<1>2. Types'
  BY DEF IInv, Types, LoadSource, Goto, Places, Over, Served, diskVars, ghosts, FileOK, WellKept, Exists, Files
<1>3. QED
  BY <1>1, <1>2, CallStep DEF IInv, Types, LoadSource, Goto, Places, Over, Served, diskVars, ghosts, FileOK, WellKept, Exists, Files

LEMMA SignStep == ASSUME IInv, NEW a \in Asks, Sign(a)  PROVE IInv'
<1> USE Names
<1>1. CallOK(a)'
  BY DEF IInv, CallOK, SeenOK, Types, Sign, Goto, Over, Served, Revoked, Read
<1>2. Types'
  BY DEF IInv, Types, Sign, Goto, Places, Over, Served, diskVars, ghosts, Read, Revoked
<1>3. QED
  BY <1>1, <1>2, CallStep DEF IInv, Types, Sign, Goto, Places, Over, Served, diskVars, ghosts, Read, Revoked

(* Steps at a file *)

\* A call that is at a file, on its way to the next step of it.
LEMMA WriterStepKeepsCall ==
    ASSUME IInv, NEW w \in Writers, NEW c \in Calls, NEW where \in Places, Goto(w, where),
           pc[w] \in {"open", "write", "rename"},
           where \in {"write", "rename", "failed"} \/ where = IF w \in Jobs THEN "stored" ELSE "check",
           UNCHANGED <<list, readable, plan, since, signedOn, blind, unread>>
    PROVE  CallOK(c)'
<1> USE Names
<1>1. CASE c = w
  BY <1>1 DEF IInv, Types, CallOK, SeenOK, Goto, Over, Served
<1>2. CASE c # w
  BY <1>2, CallUnmoved DEF IInv, Types, Goto
<1>3. QED  BY <1>1, <1>2

\* The other file is left alone.
LEMMA WriterStepKeepsOther ==
    ASSUME IInv, NEW w \in Writers, NEW f \in Files, f # FileOf(w),
           \A v \in Calls \ {w} : pc'[v] = pc[v],
           disk'[f] = disk[f], tmp'[f] = tmp[f],
           \A v \in Writers : FileOf(v) = f => at'[v] = at[v] /\ nxt'[v] = nxt[v],
           raced \subseteq raced'
    PROVE  FileOK(f)'
  BY Names, FileUnmoved DEF IInv, SameFile, Writing

LEMMA OpenStep == ASSUME IInv, NEW w \in Writers, Open(w)  PROVE IInv'
<1> USE Names
<1>1. Types'
  BY DEF IInv, Types, Open, Goto, Places, ghosts
<1>2. \A c \in Calls : CallOK(c)'
  BY WriterStepKeepsCall DEF Open, ghosts, Places
<1>3. ASSUME NEW f \in Files  PROVE FileOK(f)'
  <2>1. CASE f # FileOf(w)
    BY <2>1, WriterStepKeepsOther DEF IInv, Types, Open, Goto
  <2>2. CASE f = FileOf(w) /\ f \notin raced'
    <3>1. WellKept(f) /\ raced' = raced
      BY <2>2 DEF IInv, FileOK, Open
    <3>2. \A v \in Writers \ {w} : FileOf(v) = f => ~Writing(v)
      BY <2>2, <3>1 DEF Open, Others, WellKept, OnTmp
    <3>3. \A v \in Writers \ {w} : FileOf(v) = f => ~Writing(v)'
      BY <3>2 DEF IInv, Types, Open, Goto, Writing
    <3>4. disk'[f] \in {{}, Whole'}
      BY <3>1 DEF WellKept, Open, Whole
    <3>5. OnTmp(w)'
      BY <2>2 DEF IInv, Types, Open, OnTmp, Goto, FileOf
    <3>6. QED  BY <3>3, <3>4, <3>5 DEF FileOK, WellKept, FileOf
  <2>3. QED  BY <2>1, <2>2 DEF FileOK
<1>4. "archive" \notin raced' => srcSha' # "wrong"
  BY DEF IInv, Open
<1>5. QED  BY <1>1, <1>2, <1>3, <1>4 DEF IInv

LEMMA WritePieceStep == ASSUME IInv, NEW w \in Writers, WritePiece(w)  PROVE IInv'
<1> USE Names
<1>1. Types'
  BY DEF IInv, Types, WritePiece, Goto, Places, ghosts
<1>2. \A c \in Calls : CallOK(c)'
  BY WriterStepKeepsCall DEF WritePiece, ghosts, Places
<1>3. ASSUME NEW f \in Files  PROVE FileOK(f)'
  <2>1. CASE f # FileOf(w)
    BY <2>1, WriterStepKeepsOther DEF IInv, Types, WritePiece, Goto
  <2>2. CASE f = FileOf(w) /\ f \notin raced
    <3>1. WellKept(f) /\ Writing(w)
      BY <2>2 DEF IInv, FileOK, WritePiece, Writing
    <3>2. OnTmp(w)  BY <2>2, <3>1 DEF WellKept
    <3>3. \A v \in Writers \ {w} : FileOf(v) = f => ~Writing(v)
      BY <2>2, <3>1 DEF WellKept
    <3>4. \A v \in Writers \ {w} : FileOf(v) = f => ~Writing(v)'
      BY <3>3 DEF IInv, Types, WritePiece, Goto, Writing
    <3>5. disk' = disk
      BY <3>2 DEF WritePiece, OnTmp
    <3>6. nxt[w] \in 1..Chunks
      BY <3>2 DEF WritePiece, OnTmp
    <3>7. OnTmp(w)'
      <4>1. tmp'[f] = tmp[f] \cup {nxt[w]} /\ nxt'[w] = nxt[w] + 1
        BY <2>2, <3>2 DEF IInv, Types, WritePiece, OnTmp
      <4>2. tmp'[f] = 0..(nxt'[w] - 1)
        BY <2>2, <3>2, <3>6, <4>1 DEF OnTmp
      <4>3. pc'[w] = IF nxt[w] = Chunks THEN "rename" ELSE "write"
        BY DEF IInv, Types, WritePiece, Goto
      <4>4. QED  BY <2>2, <3>2, <3>6, <4>1, <4>2, <4>3 DEF OnTmp, WritePiece, FileOf
    <3>8. QED  BY <3>1, <3>4, <3>5, <3>7 DEF FileOK, WellKept, FileOf, Whole
  <2>3. CASE f \in raced
    BY <2>3 DEF FileOK, WritePiece
  <2>4. QED  BY <2>1, <2>2, <2>3
<1>4. "archive" \notin raced' => srcSha' # "wrong"
  BY DEF IInv, WritePiece
<1>5. QED  BY <1>1, <1>2, <1>3, <1>4 DEF IInv

LEMMA RenameStep == ASSUME IInv, NEW w \in Writers, Rename(w)  PROVE IInv'
<1> USE Names
<1>1. PICK where \in {"failed", "stored", "check"} :
          Goto(w, where) /\ where \in {"failed", IF w \in Jobs THEN "stored" ELSE "check"}
  BY DEF Rename
<1>2. Types'
  BY <1>1 DEF IInv, Types, Rename, Goto, Places, Over, ghosts
<1>3. \A c \in Calls : CallOK(c)'
  BY <1>1, WriterStepKeepsCall DEF Rename, ghosts, Places, Over
<1>4. ASSUME NEW f \in Files  PROVE FileOK(f)'
  <2>1. CASE f # FileOf(w)
    BY <1>1, <2>1, WriterStepKeepsOther DEF IInv, Types, Rename, Goto
  <2>2. CASE f = FileOf(w) /\ f \notin raced
    <3>1. WellKept(f) /\ Writing(w)
      BY <2>2 DEF IInv, FileOK, Rename, Writing
    <3>2. OnTmp(w)  BY <2>2, <3>1 DEF WellKept
    <3>3. \A v \in Writers : FileOf(v) = f => ~Writing(v)'
      BY <1>1, <2>2, <3>1 DEF IInv, Types, Goto, Writing, WellKept
    <3>4. tmp[f] = Whole
      BY <2>2, <3>2 DEF Rename, OnTmp, Whole
    <3>5. disk'[f] = Whole
      <4>1. tmp[f] # {}
        BY <3>4 DEF Whole
      <4>2. disk' = [disk EXCEPT ![f] = tmp[f]]
        BY <2>2, <4>1 DEF Rename
      <4>3. f \in DOMAIN disk
        BY DEF IInv, Types
      <4>4. QED  BY <3>4, <4>2, <4>3
    <3>6. QED  BY <3>3, <3>5 DEF FileOK, WellKept, Whole
  <2>3. CASE f \in raced
    BY <2>3 DEF FileOK, Rename
  <2>4. QED  BY <2>1, <2>2, <2>3
<1>5. "archive" \notin raced' => srcSha' # "wrong"
  BY DEF IInv, Rename
<1>6. QED  BY <1>2, <1>3, <1>4, <1>5 DEF IInv

(* The operator, the disk and the process *)

LEMMA WithdrawStep == ASSUME IInv, NEW e \in Entries, Withdraw(e)  PROVE IInv'
<1>1. Types'  BY DEF IInv, Types, Withdraw, diskVars, ghosts
<1>2. \A c \in Calls : CallOK(c)'
  BY CallUnmoved DEF IInv, Withdraw, ghosts
<1>3. \A f \in Files : FileOK(f)'
  BY FileUnmoved DEF IInv, Withdraw, SameFile, diskVars, Writing
<1>4. QED  BY <1>1, <1>2, <1>3 DEF IInv, Withdraw, diskVars

LEMMA ListFailsStep == ASSUME IInv, ListFails  PROVE IInv'
<1>1. Types'  BY DEF IInv, Types, ListFails, diskVars
<1>2. \A c \in Calls : CallOK(c)'
  BY CallUnmoved DEF IInv, ListFails, Over
<1>3. \A f \in Files : FileOK(f)'
  BY FileUnmoved DEF IInv, ListFails, SameFile, diskVars, Writing
<1>4. QED  BY <1>1, <1>2, <1>3 DEF IInv, ListFails, diskVars

LEMMA CrashStep == ASSUME IInv, Crash  PROVE IInv'
<1> USE Names
<1>1. Types'  BY DEF IInv, Types, Crash, ghosts, Places, Over, Running
<1>2. ASSUME NEW c \in Calls  PROVE CallOK(c)'
  <2>1. CallOK(c) /\ pc[c] \in Places  BY DEF IInv, Types
  <2>2. c \in Jobs =>
          \/ pc'[c] = pc[c]
          \/ pc[c] \notin Over /\ pc'[c] = "queued"
    BY DEF Crash, Running, Over
  <2>3. c \in Asks => pc'[c] = pc[c] \/ pc'[c] = "failed"
    BY DEF Crash
  <2>4. QED  BY <2>1, <2>2, <2>3 DEF CallOK, SeenOK, Crash, ghosts, Over, Served
<1>3. \A f \in Files : FileOK(f)'
  <2>1. \A v \in Writers : ~Writing(v)'
    BY DEF IInv, Types, Crash, Writing, Running, Writers
  <2>2. QED  BY <2>1, FileUnmoved DEF IInv, SameFile, Crash
<1>4. QED  BY <1>1, <1>2, <1>3 DEF IInv, Crash

(* The theorems *)

LEMMA NextInv == IInv /\ [NextServer]_serverVars => IInv'
<1> SUFFICES ASSUME IInv, [NextServer]_serverVars  PROVE IInv'
  OBVIOUS
<1>1. CASE UNCHANGED serverVars
  BY <1>1 DEF IInv, Types, CallOK, SeenOK, FileOK, WellKept, OnTmp, Writing, Whole, serverVars, diskVars, ghosts
<1>2. CASE \E j \in Jobs : Accept(j) \/ JobStep(j)
  BY <1>2, AcceptStep, StartStep, FinishStep, FailsStep DEF JobStep
<1>3. CASE \E w \in Writers : WriterStep(w)
  BY <1>3, OpenStep, WritePieceStep, RenameStep DEF WriterStep
<1>4. CASE \E a \in Asks : AskStep(a)
  BY <1>4, AskNameStep, LookStep, ReadOldStep, CheckAgainStep, AskRecordStep, AskSourceStep,
     LoadStep, LoadSourceStep, SignStep DEF AskStep
<1>5. CASE (\E e \in Entries : Withdraw(e)) \/ ListFails \/ Crash
  BY <1>5, WithdrawStep, ListFailsStep, CrashStep
<1>6. QED  BY <1>1, <1>2, <1>3, <1>4, <1>5 DEF NextServer

\* However many builds and requests there are, and whenever entries are
\* added, the list fails or the server dies: what was on the list when a
\* request came in, of records, their sources and archives to build from, is
\* not answered with, and no plan sends an engine to a file of the catalogue
\* that was on it when the plan was signed; but for the exceptions the property
\* names (acceptJob, runJob, planByName, plan of server.js).
THEOREM WithdrawnStaysWithdrawn == SpecServer => []NothingOnceWithdrawn
<1>1. IInv => NothingOnceWithdrawn
  BY Names DEF IInv, CallOK, SeenOK, NothingOnceWithdrawn, Served
<1>2. QED  BY InitInv, NextInv, <1>1, PTL DEF SpecServer

\* A stored file is there in full or not at all, in however many pieces and
\* by however many callers it is written and whenever the server dies, unless
\* two of them once had its .tmp open together (writeAtomic of files.js).
THEOREM FilesAreWhole == SpecServer => []TroubleOnlyFromOverlap
<1>1. IInv => TroubleOnlyFromOverlap
  <2> SUFFICES ASSUME IInv  PROVE TroubleOnlyFromOverlap
    OBVIOUS
  <2>1. \A f \in Files \ raced : disk[f] \in {{}, Whole}
    BY DEF IInv, FileOK, WellKept
  <2>2. ASSUME NEW w \in Writers, pc[w] = "rename", FileOf(w) \notin raced
        PROVE  tmp[FileOf(w)] = Whole
    <3>1. OnTmp(w)
      BY Names, <2>2 DEF IInv, FileOK, WellKept, Writing
    <3>2. QED  BY <2>2, <3>1 DEF OnTmp, Whole
  <2>3. QED  BY <2>1, <2>2 DEF IInv, TroubleOnlyFromOverlap
<1>2. QED  BY InitInv, NextInv, <1>1, PTL DEF SpecServer

(***************************************************************************)
(* PageBuilds. The inductive invariant: one build at most is being handed  *)
(* over; builds at work at once were at work together; the place chosen    *)
(* last, the newest generation of links and each link that stands are of   *)
(* one of those.                                                           *)
(***************************************************************************)
BuildsTypeOK ==
    /\ build \in [Builds -> {"idle", "env", "running", "done", "failed", "refused"}]
    /\ sending \in Builds \cup {Nobody}
    /\ saveTo \in Builds \cup {Nobody}
    /\ dest \in [Builds -> Builds \cup {Nobody}]
    /\ gens \in [Builds \cup {Nobody} -> [links : SUBSET (Builds \X Nat), done : BOOLEAN]]
    /\ newest \in Builds \cup {Nobody}
    /\ made \in [Builds -> Nat]
    /\ asked \in [Builds -> {"online", "held", "picked", "cancelled"}]
    /\ written \subseteq Builds \X Builds
    /\ lost \subseteq Builds \X Nat

OneIsSent ==
    /\ sending # Nobody => build[sending] = "env"
    /\ \A x \in Builds : build[x] = "env" => sending = x

Together(x, y) == x = y \/ {x, y} \in together

WorkIsTogether == \A x, y \in Builds : AtWork(x) /\ AtWork(y) => Together(x, y)

DestinationIsOf ==
    saveTo # Nobody =>
        /\ build[saveTo] \in {"env", "running", "refused"}
        /\ build[saveTo] = "running" => dest[saveTo] = saveTo

NewestIsBeside ==
    \A x \in Builds : build[x] = "running" => newest # Nobody /\ Together(x, newest)

LinksAreBeside ==
    \A g \in Builds \cup {Nobody} :
        /\ gens[g].done => g # Nobody /\ build[g] = "done"
        /\ \A l \in gens[g].links : g # Nobody /\ Together(l[1], g)

BuildsInv ==
    /\ BuildsTypeOK
    /\ OneIsSent
    /\ WorkIsTogether
    /\ DestinationIsOf
    /\ NewestIsBeside
    /\ LinksAreBeside
    /\ OneAtATimeIsSafe

LEMMA BuildsInit == InitBuilds => BuildsInv
  BY BuildsAssumption DEF InitBuilds, BuildsInv, BuildsTypeOK, OneIsSent, WorkIsTogether, DestinationIsOf,
     NewestIsBeside, LinksAreBeside, OneAtATimeIsSafe, AtWork

LEMMA BuildsClick ==
    ASSUME BuildsInv, NEW b \in Builds, NEW how \in {"online", "held", "picked", "cancelled"}, Click(b, how)
    PROVE  BuildsInv'
  <1> USE BuildsAssumption DEF BuildsInv, Click
  <1>1. BuildsTypeOK'
    BY DEF BuildsTypeOK, WhereTo
  <1>2. OneIsSent'
    BY DEF BuildsTypeOK, OneIsSent
  <1>3. WorkIsTogether'
    BY DEF BuildsTypeOK, WorkIsTogether, Together, AtWork
  <1>4. DestinationIsOf'
    BY DEF BuildsTypeOK, DestinationIsOf, WhereTo
  <1>5. NewestIsBeside'
    BY DEF BuildsTypeOK, NewestIsBeside, Together
  <1>6. LinksAreBeside'
    BY DEF BuildsTypeOK, LinksAreBeside, Together
  <1>7. OneAtATimeIsSafe'
    BY DEF BuildsTypeOK, OneAtATimeIsSafe
  <1>8. QED  BY <1>1, <1>2, <1>3, <1>4, <1>5, <1>6, <1>7

LEMMA BuildsRefuse ==
    ASSUME BuildsInv, NEW b \in Builds, Refuse(b)
    PROVE  BuildsInv'
  <1> USE BuildsAssumption DEF BuildsInv, Refuse
  <1>1. BuildsTypeOK'
    BY DEF BuildsTypeOK
  <1>2. OneIsSent'
    BY DEF BuildsTypeOK, OneIsSent
  <1>3. WorkIsTogether'
    BY DEF BuildsTypeOK, WorkIsTogether, Together, AtWork
  <1>4. DestinationIsOf'
    BY DEF BuildsTypeOK, DestinationIsOf
  <1>5. NewestIsBeside'
    BY DEF BuildsTypeOK, NewestIsBeside, Together
  <1>6. LinksAreBeside'
    BY DEF BuildsTypeOK, LinksAreBeside, Together, OneIsSent
  <1>7. OneAtATimeIsSafe'
    BY DEF BuildsTypeOK, OneAtATimeIsSafe, OneIsSent
  <1>8. QED  BY <1>1, <1>2, <1>3, <1>4, <1>5, <1>6, <1>7

LEMMA BuildsSubmit ==
    ASSUME BuildsInv, NEW b \in Builds, Submit(b)
    PROVE  BuildsInv'
  <1> USE BuildsAssumption DEF BuildsInv, Submit
  <1>1. /\ build[b] = "env"
        /\ \A c \in Builds : build[c] = "done" => build'[c] = "done"
    BY DEF BuildsTypeOK, OneIsSent
  <1>2. BuildsTypeOK'
    BY SMTT(30) DEF BuildsTypeOK
  <1>3. OneIsSent'
    BY DEF BuildsTypeOK, OneIsSent
  <1>4. WorkIsTogether'
    BY <1>1 DEF BuildsTypeOK, WorkIsTogether, Together, AtWork
  <1>5. DestinationIsOf'
    BY <1>1 DEF BuildsTypeOK, DestinationIsOf
  <1>6. NewestIsBeside'
    BY <1>1 DEF BuildsTypeOK, NewestIsBeside, Together, WorkIsTogether, AtWork
  <1>7. LinksAreBeside'
    <2>1. \A g \in Builds \cup {Nobody} : gens'[g].done = gens[g].done /\ gens'[g].links \subseteq gens[g].links
      BY DEF BuildsTypeOK
    <2>2. QED  BY <2>1, <1>1 DEF LinksAreBeside, Together
  <1>8. \A l \in lost' : \E c \in Builds \ {l[1]} : {l[1], c} \in together' /\ build'[c] = "done"
    <2> SUFFICES ASSUME NEW l \in lost'
                 PROVE  \E c \in Builds \ {l[1]} : {l[1], c} \in together' /\ build'[c] = "done"
      OBVIOUS
    <2>1. CASE l \in lost
      BY <2>1, <1>1 DEF OneAtATimeIsSafe
    <2>2. CASE l \notin lost
      <3>1. PICK g \in Builds \cup {Nobody} : l \in gens[g].links /\ gens[g].done /\ build[l[1]] = "running"
        BY <2>2 DEF BuildsTypeOK, Spent
      <3>2. g \in Builds /\ build[g] = "done" /\ Together(l[1], g)
        BY <3>1 DEF LinksAreBeside
      <3>3. QED  BY <3>1, <3>2, <1>1 DEF Together
    <2>3. QED  BY <2>1, <2>2
  <1>9. OneAtATimeIsSafe'
    BY <1>1, <1>8 DEF BuildsTypeOK, OneAtATimeIsSafe
  <1>10. QED  BY <1>2, <1>3, <1>4, <1>5, <1>6, <1>7, <1>9

LEMMA BuildsHandOver ==
    ASSUME BuildsInv, NEW b \in Builds, HandOver(b)
    PROVE  BuildsInv'
  <1> USE BuildsAssumption DEF BuildsInv, HandOver
  <1>1. newest \in Builds /\ Together(b, newest)
    BY DEF BuildsTypeOK, NewestIsBeside
  <1>2. BuildsTypeOK'
    BY <1>1 DEF BuildsTypeOK, Linking
  <1>3. OneIsSent'
    BY DEF BuildsTypeOK, OneIsSent
  <1>4. WorkIsTogether'
    BY DEF BuildsTypeOK, WorkIsTogether, Together, AtWork
  <1>5. DestinationIsOf'
    BY DEF BuildsTypeOK, DestinationIsOf
  <1>6. NewestIsBeside'
    BY DEF BuildsTypeOK, NewestIsBeside, Together
  <1>7. LinksAreBeside'
    <2>1. \A g \in Builds \cup {Nobody} :
             /\ gens'[g].done = gens[g].done
             /\ \A l \in gens'[g].links : l \in gens[g].links \/ (g = newest /\ l[1] = b)
      BY <1>1 DEF BuildsTypeOK, Linking
    <2>2. QED  BY <2>1, <1>1 DEF LinksAreBeside, Together
  <1>8. \A w \in written' : w[1] = w[2] \/ {w[1], w[2]} \in together' \/ build'[w[2]] = "refused"
    <2>1. saveTo # Nobody => build[saveTo] = "refused" \/ Together(b, saveTo)
      BY DEF BuildsTypeOK, DestinationIsOf, WorkIsTogether, AtWork
    <2>2. written' \subseteq written \cup (IF saveTo # Nobody THEN {<<b, saveTo>>} ELSE {})
      OBVIOUS
    <2>3. ASSUME saveTo # Nobody
          PROVE  LET w == <<b, saveTo>> IN w[1] = w[2] \/ {w[1], w[2]} \in together \/ build[w[2]] = "refused"
      <3>1. build[saveTo] = "refused" \/ b = saveTo \/ {b, saveTo} \in together
        BY <2>1, <2>3 DEF Together
      <3>2. QED  BY <3>1
    <2>4. QED  BY <2>2, <2>3 DEF OneAtATimeIsSafe
  <1>9. OneAtATimeIsSafe'
    BY <1>8 DEF OneAtATimeIsSafe
  <1>10. QED  BY <1>2, <1>3, <1>4, <1>5, <1>6, <1>7, <1>9

LEMMA BuildsDone ==
    ASSUME BuildsInv, NEW b \in Builds, Done(b)
    PROVE  BuildsInv'
  <1> USE BuildsAssumption DEF BuildsInv, Done, Forget, DestAfter
  <1>1. newest \in Builds /\ Together(b, newest)
    BY DEF BuildsTypeOK, NewestIsBeside
  <1> DEFINE all == IF asked[b] = "online" THEN Linking(b, 1) ELSE gens
  <1>2. /\ all \in [Builds \cup {Nobody} -> [links : SUBSET (Builds \X Nat), done : BOOLEAN]]
        /\ \A g \in Builds \cup {Nobody} :
              /\ all[g].done = gens[g].done
              /\ \A l \in all[g].links : l \in gens[g].links \/ (g = newest /\ l[1] = b)
    BY <1>1 DEF BuildsTypeOK, Linking
  <1>3. gens' = [all EXCEPT ![b].done = TRUE]
    OBVIOUS
  <1> HIDE DEF all
  <1>4. gens' \in [Builds \cup {Nobody} -> [links : SUBSET (Builds \X Nat), done : BOOLEAN]]
    <2> DEFINE Generation == [links : SUBSET (Builds \X Nat), done : BOOLEAN]
               next == [all[b] EXCEPT !.done = TRUE]
    <2>1. all \in [Builds \cup {Nobody} -> Generation]
      BY <1>2
    <2>2. all[b] \in Generation
      BY <2>1, Zenon
    <2>3. next \in Generation
      BY ONLY <2>2
    <2>4. gens' = [all EXCEPT ![b] = next]
      BY <1>3
    <2> HIDE DEF Generation, next
    <2>5. gens' \in [Builds \cup {Nobody} -> Generation]
      BY ONLY <2>1, <2>3, <2>4
    <2>6. QED  BY <2>5 DEF Generation
  <1>5. BuildsTypeOK'
    BY <1>4 DEF BuildsTypeOK
  <1>6. OneIsSent'
    BY DEF BuildsTypeOK, OneIsSent
  <1>7. WorkIsTogether'
    BY DEF BuildsTypeOK, WorkIsTogether, Together, AtWork
  <1>8. DestinationIsOf'
    BY DEF BuildsTypeOK, DestinationIsOf
  <1>9. NewestIsBeside'
    BY DEF BuildsTypeOK, NewestIsBeside, Together
  <1>10. LinksAreBeside'
    <2>1. \A g \in Builds \cup {Nobody} :
             /\ gens'[g].done => gens[g].done \/ g = b
             /\ \A l \in gens'[g].links : l \in gens[g].links \/ (g = newest /\ l[1] = b)
      BY <1>2, <1>3
    <2>2. build'[b] = "done" /\ b # Nobody /\ \A c \in Builds : build[c] = "done" => build'[c] = "done"
      BY DEF BuildsTypeOK
    <2>3. QED  BY <2>1, <2>2, <1>1 DEF LinksAreBeside, Together
  <1>11. OneAtATimeIsSafe'
    BY DEF BuildsTypeOK, OneAtATimeIsSafe
  <1>12. QED  BY <1>5, <1>6, <1>7, <1>8, <1>9, <1>10, <1>11

LEMMA BuildsFail ==
    ASSUME BuildsInv, NEW b \in Builds, Fail(b)
    PROVE  BuildsInv'
  <1> USE BuildsAssumption DEF BuildsInv, Fail, Forget, DestAfter
  <1>1. BuildsTypeOK'
    BY DEF BuildsTypeOK
  <1>2. OneIsSent'
    BY DEF BuildsTypeOK, OneIsSent
  <1>3. WorkIsTogether'
    BY DEF BuildsTypeOK, WorkIsTogether, Together, AtWork
  <1>4. DestinationIsOf'
    BY DEF BuildsTypeOK, DestinationIsOf
  <1>5. NewestIsBeside'
    BY DEF BuildsTypeOK, NewestIsBeside, Together
  <1>6. LinksAreBeside'
    BY DEF BuildsTypeOK, LinksAreBeside, Together
  <1>7. OneAtATimeIsSafe'
    BY DEF BuildsTypeOK, OneAtATimeIsSafe
  <1>8. QED  BY <1>1, <1>2, <1>3, <1>4, <1>5, <1>6, <1>7

LEMMA BuildsNext == BuildsInv /\ [NextBuilds]_buildVars => BuildsInv'
  <1> SUFFICES ASSUME BuildsInv, [NextBuilds]_buildVars PROVE BuildsInv'
    OBVIOUS
  <1>1. CASE NextBuilds
    BY <1>1, BuildsClick, BuildsRefuse, BuildsSubmit, BuildsHandOver, BuildsDone, BuildsFail DEF NextBuilds
  <1>2. CASE UNCHANGED buildVars
    BY <1>2 DEF buildVars, BuildsInv, BuildsTypeOK, OneIsSent, WorkIsTogether, DestinationIsOf, NewestIsBeside,
       LinksAreBeside, OneAtATimeIsSafe, AtWork, Together
  <1>3. QED  BY <1>1, <1>2

(***************************************************************************)
(* However often Build is pressed and wherever the files go, no build is   *)
(* written where another was told to go, and the links of one that still   *)
(* stand beside its ticket are not dropped by another, but where two were  *)
(* at work together (startLocalJob, local-api.js).                         *)
(***************************************************************************)
THEOREM OneAtATime == SpecBuilds => []OneAtATimeIsSafe
  <1>1. BuildsInv => OneAtATimeIsSafe
    BY DEF BuildsInv
  <1>2. QED  BY BuildsInit, BuildsNext, <1>1, PTL DEF SpecBuilds

(***************************************************************************)
(* TicketPage. A step of the page is one of the outcomes below, each of    *)
(* which says what became of the poll, the post, the place and the         *)
(* picture; the inductive invariant says which answers on their way may    *)
(* still be painted and over what.                                         *)
(***************************************************************************)
Bases == {"name", "address", "local"}
Checks == {"none", "first", "second"}
Statuses == {"none", "queued", "running", "done", "failed", "unknown"}
Polls == [pc : {"free", "early", "wait", "go", "sent", "body"}, job : Tickets \cup {NoJob},
          current : BOOLEAN, to : Bases, status : Statuses]
Posts == [pc : {"none", "early", "wait", "go", "sent", "body"}, to : Bases, job : Jobs \cup {NoJob}]
OwnStates == {"running", "done", "failed"}
Pages ==
    [explicit : BOOLEAN, probe : {"asking", "settled"},
     hash : Tickets \cup {NoJob}, base : Bases, chosen : Bases, during : SUBSET (Checks \cup {"probe"}),
     down : BOOLEAN, recheck : BOOLEAN, check : Checks, asked : Bases, post : Posts,
     polls : [Slots -> Polls], timer : BOOLEAN, finished : BOOLEAN,
     shown : [job : Tickets \cup {NoJob}, status : Statuses],
     known : SUBSET Tickets, own : OwnStates \cup {"none"},
     hung : SUBSET {"probe", "poll", "post", "own"}, unheard : Nat]

Begun(j) == j \in Jobs => pc[j] # "idle"

\* What was once said of a job, and may be said of it after a crash no more.
Seen(t, j) ==
    /\ t \in {"queued", "running", "done", "failed"}
    /\ t = "running" => crashes > 0 \/ pc[j] # "queued"
    /\ t \in {"done", "failed"} => pc[j] = t

InOrder(s, t) == Rank(s) <= Rank(t) \/ (crashes > 0 /\ s = "running") \/ s = "unknown"

ShownOK(p) ==
    /\ p.shown.job = InPage => /\ InPage \in p.known
                               /\ p.shown.status \in {"running", p.own}
    /\ p.shown.job \in Jobs => p.shown.status = "unknown" \/ Seen(p.shown.status, p.shown.job)
    /\ Begun(p.shown.job)

PollOK(p, x) ==
    /\ x.pc = "free" => ~x.current
    /\ x.pc \in {"early", "wait", "go"} => x.current
    /\ x.pc # "free" => x.job \in Tickets /\ Begun(x.job)
    /\ x.pc \in {"wait", "sent", "body"} => x.job \in Jobs
    /\ x.job = InPage => InPage \in p.known
    /\ x.pc = "body" /\ x.current =>
          /\ Seen(x.status, x.job)
          /\ x.job = p.shown.job => InOrder(p.shown.status, x.status)

PollsOK(p) ==
    /\ \A s \in Slots : PollOK(p, p.polls[s])
    /\ \A s, t \in Slots : p.polls[s].current /\ p.polls[t].current => s = t

KnownOK(p) ==
    /\ \A j \in p.known : Begun(j)
    /\ Begun(p.hash)
    /\ Begun(p.post.job)
    /\ p.post.job # NoJob => p.post.pc \in {"sent", "body"}
    /\ p.post.pc = "body" => p.post.job # NoJob
    /\ p.hash = InPage => InPage \in p.known
    /\ InPage \in p.known => p.own \in OwnStates

Weak(p) == p \in Pages /\ ShownOK(p) /\ PollsOK(p) /\ KnownOK(p)

\* The poll that is current is of the job in the address.
Follows(p) ==
    \A s \in Slots : p.polls[s].current =>
        \/ p.hash = NoJob
        \/ p.hash = p.polls[s].job /\ (p.polls[s].pc \in {"sent", "body"} => p.base # "local")

Good(p) == Weak(p) /\ Follows(p)

\* PaintsInOrder, of two values of the page.
Paints(p, q) ==
    q.shown # p.shown /\ q.shown.job # NoJob =>
        /\ q.hash \in {q.shown.job, NoJob}
        /\ q.shown.job \in Jobs /\ q.shown.status # "unknown" => q.base # "local" \/ q.hash = NoJob
        /\ p.shown.job = q.shown.job /\ q.shown.status # "unknown" => InOrder(p.shown.status, q.shown.status)

\* What a handler leaves alone.
Kept(p, q) ==
    /\ q.chosen = p.chosen /\ q.during = p.during /\ q.check = p.check /\ q.base = p.base
    /\ q.post.job = p.post.job /\ q.known = p.known /\ q.unheard = p.unheard
    /\ q.probe = p.probe /\ q.explicit = p.explicit /\ q.own = p.own

LEMMA NotAPlace == NoJob # InPage
  BY DEF NoJob, InPage

LEMMA PaintedIs ==
    ASSUME NEW p \in Pages, NEW job \in Tickets, NEW status \in Statuses
    PROVE  /\ Painted(p, job, status) \in Pages
           /\ Painted(p, job, status).shown.job = job
           /\ Painted(p, job, status).shown.status = status
           /\ Painted(p, job, status).polls = p.polls
           /\ Painted(p, job, status).hash = p.hash
           /\ Painted(p, job, status).post = p.post
           /\ Kept(p, Painted(p, job, status))
  <1> DEFINE v == [job |-> job, status |-> status]
             over == status \in Ended
             on == status \notin Ended
             q == [p EXCEPT !.shown = v, !.finished = over, !.timer = on]
  <1>1. Painted(p, job, status) = q
    BY DEF Painted
  <1>2. v \in [job : Tickets \cup {NoJob}, status : Statuses] /\ v.job = job /\ v.status = status
    OBVIOUS
  <1>3. over \in BOOLEAN /\ on \in BOOLEAN
    OBVIOUS
  <1> HIDE DEF v, over, on
  <1>4. q \in Pages /\ q.shown = v /\ q.polls = p.polls /\ q.hash = p.hash /\ q.post = p.post /\ Kept(p, q)
    BY <1>2, <1>3 DEF Pages, Kept
  <1>5. QED  BY <1>1, <1>2, <1>4

LEMMA FreeIs == Free \in Polls /\ ~Free.current /\ Free.pc = "free" /\ \A p : PollOK(p, Free)
  <1>1. Free \in Polls /\ Free.current = FALSE /\ Free.pc = "free" /\ Free.job # InPage
    BY NotAPlace DEF Free, Polls, Bases, Statuses
  <1>2. QED  BY <1>1 DEF PollOK

LEMMA SupersededIs ==
    ASSUME NEW p \in Pages, Weak(p), NEW polls, polls = Superseded(p.polls)
    PROVE  /\ polls \in [Slots -> Polls]
           /\ \A s \in Slots : ~polls[s].current /\ PollOK(p, polls[s])
           /\ FreeSlot(p) => \E s \in Slots : polls[s].pc = "free"
  <1>1. \A s \in Slots :
           \/ p.polls[s].pc \in {"sent", "body"} /\ polls[s] = [p.polls[s] EXCEPT !.current = FALSE]
           \/ p.polls[s].pc \notin {"sent", "body"} /\ polls[s] = Free
    BY DEF Superseded
  <1>2. Free.pc = "free" /\ ~Free.current
    BY DEF Free
  <1>3. p.polls \in [Slots -> Polls]
    BY DEF Pages
  <1>4. Free \in Polls
    BY DEF Free, Polls, Bases, Statuses
  <1>5. polls \in [Slots -> Polls]
    <2>1. polls = [s \in Slots |-> polls[s]]
      BY DEF Superseded
    <2>2. ASSUME NEW s \in Slots  PROVE polls[s] \in Polls
      <3>1. [p.polls[s] EXCEPT !.current = FALSE] \in Polls
        BY <1>3 DEF Polls
      <3>2. QED  BY <1>1, <1>4, <3>1
    <2>3. QED  BY <2>1, <2>2
  <1>6. \A s \in Slots : ~polls[s].current /\ PollOK(p, polls[s])
    <2> SUFFICES ASSUME NEW s \in Slots  PROVE ~polls[s].current /\ PollOK(p, polls[s])
      OBVIOUS
    <2>1. CASE p.polls[s].pc \in {"sent", "body"}
      <3> DEFINE x == p.polls[s]
      <3>1. x \in Polls /\ PollOK(p, x)
        BY <1>3 DEF Weak, PollsOK
      <3>2. polls[s] = [x EXCEPT !.current = FALSE]
        BY <2>1, <1>1
      <3> HIDE DEF x
      <3>3. /\ polls[s].pc = x.pc /\ polls[s].job = x.job /\ polls[s].current = FALSE
            /\ polls[s].status = x.status
        BY <3>1, <3>2 DEF Polls
      <3>4. x.pc \in {"sent", "body"}
        BY <2>1 DEF x
      <3>5. QED  BY <3>1, <3>3, <3>4 DEF PollOK
    <2>2. CASE p.polls[s].pc \notin {"sent", "body"}
      <3>1. polls[s] = Free
        BY <2>2, <1>1
      <3>2. ~Free.current /\ PollOK(p, Free)
        BY FreeIs
      <3>3. QED  BY <3>1, <3>2
    <2>3. QED  BY <2>1, <2>2
  <1>7. FreeSlot(p) => \E s \in Slots : polls[s].pc = "free"
    <2>1. ASSUME NEW s \in Slots, p.polls[s].pc = "free"  PROVE polls[s].pc = "free"
      <3>1. polls[s] = Free
        BY <2>1, <1>1
      <3>2. QED  BY <3>1, <1>2
    <2>2. QED  BY <2>1 DEF FreeSlot
  <1>8. QED  BY <1>5, <1>6, <1>7

LEMMA PollIs ==
    ASSUME NEW p, Weak(p), FreeSlot(p)
    PROVE  Good(Poll(p)) /\ Paints(p, Poll(p)) /\ Kept(p, Poll(p))
  <1> DEFINE polls == Superseded(p.polls)
             q == [p EXCEPT !.timer = FALSE, !.polls = polls, !.hung = @ \ {"poll"}]
  <1>1. /\ polls \in [Slots -> Polls]
        /\ \A s \in Slots : ~polls[s].current /\ PollOK(p, polls[s])
        /\ \E s \in Slots : polls[s].pc = "free"
    BY SupersededIs DEF Weak
  <1> HIDE DEF polls
  <1>2. /\ q \in Pages /\ q.polls = polls
        /\ q.shown = p.shown /\ q.hash = p.hash /\ q.post = p.post /\ q.down = p.down
        /\ Kept(p, q)
    BY <1>1 DEF Weak, Pages, Kept
  <1> HIDE DEF q
  <1>3. Good(q)
    BY <1>1, <1>2 DEF Good, Weak, ShownOK, PollsOK, PollOK, KnownOK, Follows, Kept
  <1> DEFINE at0 == CHOOSE i \in Slots : q.polls[i].pc = "free"
             x(where) == [pc |-> where, job |-> p.hash, current |-> TRUE,
                          to |-> p.base, status |-> "none"]
             new(where) == [q EXCEPT !.polls[at0] = x(where)]
  <1>4. Poll(p) = CASE p.hash = NoJob -> q
                    [] p.hash # NoJob /\ p.probe = "asking" -> new("early")
                    [] p.hash # NoJob /\ p.probe # "asking" /\ (p.hash = InPage \/ Local(p)) ->
                          Answered(q, p.hash)
                    [] OTHER -> new(IF p.down THEN "wait" ELSE "sent")
    BY DEF Poll, q, polls
  <1>5. CASE p.hash = NoJob
    <2>1. Poll(p) = q
      BY <1>5, <1>4
    <2>2. QED  BY <2>1, <1>2, <1>3 DEF Paints
  <1>6. CASE p.hash # NoJob /\ p.probe # "asking" /\ (p.hash = InPage \/ Local(p))
    <2> DEFINE status == IF p.hash = InPage THEN q.own ELSE "unknown"
               r == Painted(q, p.hash, status)
    <2>1. Poll(p) = r
      BY <1>6, <1>4 DEF Answered
    <2>2. p.hash \in Tickets /\ status \in Statuses /\ (p.hash = InPage => InPage \in p.known /\ p.own \in OwnStates)
      BY <1>6, <1>2 DEF Statuses, Weak, KnownOK, Pages, Kept, OwnStates
    <2> HIDE DEF status
    <2>3. /\ r \in Pages /\ r.shown.job = p.hash /\ r.shown.status = status
          /\ r.polls = polls /\ r.hash = p.hash /\ r.post = p.post /\ Kept(q, r)
      BY <1>2, <2>2, PaintedIs
    <2> HIDE DEF r
    <2>4. Kept(p, r)
      BY <1>2, <2>3 DEF Kept
    <2>5. ShownOK(r)
      BY <2>2, <2>3, <2>4, TicketAssumption DEF ShownOK, Weak, KnownOK, Kept, status, OwnStates, Begun,
         Tickets, Kept
    <2>6. PollsOK(r)
      BY <1>1, <2>3, <2>4 DEF PollsOK, PollOK, Kept
    <2>7. Good(r)
      BY <1>1, <2>3, <2>4, <2>5, <2>6 DEF Good, Weak, KnownOK, Follows, Kept
    <2>8. Paints(p, r)
      <3>1. r.hash = r.shown.job
        BY <2>3
      <3>2. r.shown.job \in Jobs => r.shown.status = "unknown"
        BY <2>3, TicketAssumption DEF status
      <3>3. CASE p.hash = InPage
        <4>1. status = p.own /\ status \in OwnStates
          BY <3>3, <1>2, <2>2 DEF status, Kept
        <4>2. p.shown.job = InPage => p.shown.status \in {"running", p.own}
          BY DEF Weak, ShownOK
        <4>3. p.shown.job = InPage => InOrder(p.shown.status, status)
          BY <4>1, <4>2 DEF InOrder, Rank, OwnStates
        <4>4. QED  BY <3>1, <3>2, <3>3, <4>3, <2>3 DEF Paints
      <3>4. CASE p.hash # InPage
        <4>1. r.shown.status = "unknown"
          BY <3>4, <2>3 DEF status
        <4>2. QED  BY <3>1, <4>1 DEF Paints
      <3>5. QED  BY <3>3, <3>4
    <2>9. QED  BY <2>1, <2>4, <2>7, <2>8
  <1>7. ASSUME NEW where \in {"early", "wait", "sent"}, p.hash # NoJob,
               where # "early" => p.hash \in Jobs /\ p.base # "local"
        PROVE  Good(new(where)) /\ Paints(p, new(where)) /\ Kept(p, new(where))
    <2> DEFINE s == at0
               y == x(where)
               r == [q EXCEPT !.polls[s] = y]
    <2>1. new(where) = r
      OBVIOUS
    <2>2. s \in Slots /\ q.polls[s].pc = "free"
      <3>1. \E i \in Slots : q.polls[i].pc = "free"
        BY <1>1, <1>2
      <3>2. QED  BY <3>1
    <2>3. y \in Polls
      BY <1>7 DEF Weak, Pages, Polls, Bases, Statuses
    <2> HIDE DEF at0
    <2>4. PollOK(p, y) /\ y.current /\ y.job = p.hash /\ y.pc = where
      BY <1>7 DEF PollOK, Weak, KnownOK, Begun, Pages
    <2> HIDE DEF x
    <2>5. /\ r \in Pages /\ r.shown = p.shown /\ r.hash = p.hash /\ r.post = p.post /\ Kept(q, r)
          /\ r.polls = [polls EXCEPT ![s] = y]
      BY <1>2, <2>2, <2>3 DEF Pages, Kept
    <2> HIDE DEF r
    <2>6. PollsOK(r)
      BY <1>1, <1>2, <2>2, <2>4, <2>5 DEF PollsOK, PollOK, Kept
    <2>7. Follows(r)
      BY <1>1, <1>2, <1>7, <2>2, <2>4, <2>5 DEF Follows, Kept
    <2>8. Good(r)
      BY <1>3, <1>2, <2>5, <2>6, <2>7 DEF Good, Weak, ShownOK, KnownOK, Kept
    <2>9. QED  BY <2>1, <2>5, <2>8, <1>2 DEF Paints, Kept
  <1>8. CASE p.hash # NoJob /\ p.probe = "asking"
    BY <1>8, <1>7, <1>4
  <1>9. CASE p.hash # NoJob /\ p.probe # "asking" /\ ~(p.hash = InPage \/ Local(p))
    <2> HIDE DEF new
    <2>1. p.hash \in Jobs /\ p.base # "local"
      BY <1>9 DEF Weak, Pages, Tickets, Local
    <2>2. Poll(p) = new("wait") \/ Poll(p) = new("sent")
      BY <1>9, <1>4
    <2>3. QED  BY <1>9, <1>7, <2>1, <2>2
  <1>10. QED  BY <1>5, <1>6, <1>8, <1>9
LEMMA OpenedIs ==
    ASSUME NEW p, Weak(p), FreeSlot(p)
    PROVE  Good(Opened(p)) /\ Paints(p, Opened(p)) /\ Kept(p, Opened(p))
  <1>1. CASE p.hash = NoJob
    <2> DEFINE q == [p EXCEPT !.finished = FALSE, !.shown = [job |-> NoJob, status |-> "none"]]
    <2>1. Opened(p) = q
      BY <1>1 DEF Opened
    <2>2. /\ q \in Pages /\ q.polls = p.polls /\ q.hash = p.hash /\ q.post = p.post
          /\ q.shown.job = NoJob /\ Kept(p, q)
      BY DEF Weak, Pages, Kept, Statuses
    <2> HIDE DEF q
    <2>3. NoJob \notin Tickets
      BY TicketAssumption DEF Tickets, NoJob, InPage
    <2>4. ShownOK(q)
      BY <2>2, <2>3 DEF ShownOK, Begun, Tickets
    <2>5. PollsOK(q)
      BY <2>2, <2>3 DEF Weak, PollsOK, PollOK, Tickets, Kept
    <2>6. Good(q)
      BY <1>1, <2>2, <2>4, <2>5 DEF Good, Weak, KnownOK, Follows, Kept
    <2>7. QED  BY <2>1, <2>2, <2>6 DEF Paints
  <1>2. CASE p.hash # NoJob
    <2> DEFINE q == [p EXCEPT !.finished = FALSE]
    <2>1. Opened(p) = Poll(q)
      BY <1>2 DEF Opened
    <2>2. /\ q \in Pages /\ q.polls = p.polls /\ q.hash = p.hash /\ q.post = p.post
          /\ q.shown = p.shown /\ Kept(p, q)
      BY DEF Weak, Pages, Kept
    <2> HIDE DEF q
    <2>3. Weak(q) /\ FreeSlot(q)
      BY <1>2, <2>2 DEF Weak, ShownOK, PollsOK, PollOK, KnownOK, Kept, FreeSlot
    <2>4. Good(Poll(q)) /\ Paints(q, Poll(q)) /\ Kept(q, Poll(q))
      BY <2>3, PollIs
    <2>5. QED  BY <2>1, <2>2, <2>4 DEF Paints, Kept
  <1>3. QED  BY <1>1, <1>2

LEMMA MarkUpIs ==
    ASSUME NEW p, Weak(p)
    PROVE  /\ Weak(MarkUp(p)) /\ (Follows(p) => Follows(MarkUp(p)))
           /\ Kept(p, MarkUp(p)) /\ MarkUp(p).shown = p.shown /\ MarkUp(p).hash = p.hash
           /\ FreeSlot(p) => FreeSlot(MarkUp(p))
           /\ \A s \in Slots : MarkUp(p).polls[s].current = p.polls[s].current
  <1>1. CASE ~p.down
    BY <1>1 DEF MarkUp, Kept
  <1>2. CASE p.down
    <2> DEFINE post == Woken(p.post)
               polls == [s \in Slots |-> Woken(p.polls[s])]
               q == [p EXCEPT !.down = FALSE, !.recheck = FALSE, !.post = post, !.polls = polls]
    <2>1. MarkUp(p) = q
      BY <1>2 DEF MarkUp
    <2>2. p.post \in Posts /\ p.polls \in [Slots -> Polls]
      BY DEF Weak, Pages
    <2>3. post \in Posts /\ post.job = p.post.job
          /\ (p.post.pc \in {"sent", "body"} => post.pc = p.post.pc)
          /\ (post.pc = "body" => p.post.pc = "body")
      BY <2>2 DEF Woken, Posts
    <2>4. ASSUME NEW s \in Slots
          PROVE  /\ polls[s] \in Polls
                 /\ polls[s].job = p.polls[s].job /\ polls[s].current = p.polls[s].current
                 /\ polls[s].status = p.polls[s].status
                 /\ polls[s].pc = p.polls[s].pc \/ (p.polls[s].pc = "wait" /\ polls[s].pc = "go")
      <3> DEFINE x == p.polls[s]
      <3>1. x \in Polls
        BY <2>2
      <3>2. polls[s] = Woken(x)
        OBVIOUS
      <3> HIDE DEF x, polls
      <3>3. QED  BY <3>1, <3>2 DEF Woken, Polls, x
    <2>5. polls \in [Slots -> Polls]
      BY <2>4
    <2> HIDE DEF post, polls
    <2>6. /\ q \in Pages /\ q.polls = polls /\ q.post = post
          /\ q.shown = p.shown /\ q.hash = p.hash /\ Kept(p, q)
      BY <2>3, <2>5 DEF Weak, Pages, Kept
    <2> HIDE DEF q
    <2>7. PollsOK(q)
      BY <2>4, <2>6 DEF Weak, PollsOK, PollOK, Kept
    <2>8. Weak(q)
      BY <2>3, <2>6, <2>7 DEF Weak, ShownOK, KnownOK, Kept
    <2>9. Follows(p) => Follows(q)
      BY <2>4, <2>6 DEF Follows, Kept
    <2>10. FreeSlot(p) => FreeSlot(q)
      BY <2>4, <2>6 DEF FreeSlot
    <2>11. QED  BY <2>1, <2>4, <2>6, <2>8, <2>9, <2>10
  <1>3. QED  BY <1>1, <1>2

(* What the page's own steps come to *)

Missing(p) == mine \ (p.known \cup {p.post.job})

ChoiceOK(p) ==
    p.chosen = "local" =>
        \/ "second" \in p.during
        \/ "probe" \in p.during /\ ~p.explicit
        \/ p.base = "local" /\ p.check # "second" /\ (p.probe = "asking" => p.explicit)

Outcome(q) ==
    /\ Good(q) /\ Paints(page, q) /\ ChoiceOK(q)
    /\ q.unheard = page.unheard /\ Missing(q) \subseteq Missing(page)

PageOK == Good(page) /\ ChoiceOK(page)

LEMMA KeptOutcome ==
    ASSUME PageOK, NEW q, Good(q), Paints(page, q), Kept(page, q)
    PROVE  Outcome(q)
  BY DEF PageOK, Outcome, ChoiceOK, Missing, Kept

LEMMA SendIs == ASSUME PageOK, Send PROVE Outcome(page')
  <1> DEFINE where == CASE page.probe = "asking" -> "early"
                        [] page.probe # "asking" /\ page.down -> "wait"
                        [] OTHER -> "go"
             post == [pc |-> where, to |-> page.base, job |-> NoJob]
  <1>1. page' = [page EXCEPT !.post = post]
    BY DEF Send, Page
  <1>2. where \in {"early", "wait", "go"}
    OBVIOUS
  <1> HIDE DEF where
  <1>3. post \in Posts /\ post.job = NoJob /\ post.pc # "body"
    BY <1>2 DEF PageOK, Good, Weak, Pages, Posts
  <1>4. page.post.job = NoJob
    BY DEF Send, MaySend, PageOK, Good, Weak, KnownOK
  <1> HIDE DEF post
  <1>5. /\ page' \in Pages /\ page'.post = post /\ page'.hash = page.hash
        /\ page'.polls = page.polls /\ page'.shown = page.shown /\ Kept(page, page')
    BY <1>1, <1>3, <1>4 DEF PageOK, Good, Weak, Pages, Kept
  <1>6. Good(page')
    BY <1>3, <1>4, <1>5 DEF PageOK, Good, Weak, ShownOK, PollsOK, PollOK, KnownOK, Begun, Follows, Kept
  <1>7. QED  BY <1>5, <1>6, KeptOutcome DEF Paints

LEMMA NavigateIs ==
    ASSUME PageOK, NEW h \in page.known \cup {NoJob}, Navigate(h)
    PROVE  Outcome(page')
  <1> DEFINE p == [page EXCEPT !.hash = h]
  <1>1. page' = Opened(p)
    BY DEF Navigate, Page
  <1>2. /\ p \in Pages /\ p.hash = h /\ p.polls = page.polls /\ p.post = page.post
        /\ p.shown = page.shown /\ Kept(page, p)
    BY DEF PageOK, Good, Weak, Pages, Tickets, Kept
  <1> HIDE DEF p
  <1>3. Begun(h)
    BY TicketAssumption DEF PageOK, Good, Weak, KnownOK, Begun
  <1>4. Weak(p) /\ FreeSlot(p)
    BY <1>2, <1>3, NotAPlace DEF PageOK, Good, Weak, ShownOK, PollsOK, PollOK, KnownOK, Navigate, FreeSlot, Kept
  <1>5. Good(Opened(p)) /\ Paints(p, Opened(p)) /\ Kept(p, Opened(p))
    BY <1>4, OpenedIs
  <1>6. Paints(page, Opened(p)) /\ Kept(page, Opened(p))
    BY <1>2, <1>5 DEF Paints, Kept
  <1>7. QED  BY <1>1, <1>5, <1>6, KeptOutcome

LEMMA PollNowIs ==
    ASSUME PageOK, FreeSlot(page), page' = Poll(page)
    PROVE  Outcome(page')
  BY PollIs, KeptOutcome DEF PageOK, Good

LEMMA ApiChangedIs ==
    ASSUME NEW p, Weak(p), FreeSlot(p)
    PROVE  Good(ApiChanged(p)) /\ Paints(p, ApiChanged(p)) /\ Kept(p, ApiChanged(p))
  <1>1. CASE p.hash = NoJob
    BY <1>1 DEF ApiChanged, Good, Follows, Paints, Kept
  <1>2. CASE p.hash # NoJob
    BY <1>2, OpenedIs DEF ApiChanged
  <1>3. QED  BY <1>1, <1>2

LEMMA RecheckIs ==
    ASSUME NEW p, Good(p)
    PROVE  LET q == Recheck(p) IN
           /\ Good(q) /\ q.check = "first" /\ q.shown = p.shown /\ q.hash = p.hash /\ q.post = p.post
           /\ q.chosen = p.chosen /\ q.during = p.during /\ q.base = p.base
           /\ q.known = p.known /\ q.unheard = p.unheard
           /\ q.probe = p.probe /\ q.explicit = p.explicit /\ q.own = p.own
  <1> DEFINE q == [p EXCEPT !.recheck = FALSE, !.check = "first", !.asked = p.base]
  <1>1. Recheck(p) = q
    BY DEF Recheck
  <1>2. /\ q \in Pages /\ q.check = "first" /\ q.shown = p.shown /\ q.hash = p.hash
        /\ q.post = p.post /\ q.polls = p.polls
        /\ q.chosen = p.chosen /\ q.during = p.during /\ q.base = p.base
        /\ q.known = p.known /\ q.unheard = p.unheard
        /\ q.probe = p.probe /\ q.explicit = p.explicit /\ q.own = p.own
    BY DEF Good, Weak, Pages, Checks
  <1> HIDE DEF q
  <1>3. Good(q)
    BY <1>2 DEF Good, Weak, ShownOK, PollsOK, PollOK, KnownOK, Follows
  <1>4. QED  BY <1>1, <1>2, <1>3

LEMMA ChooseIs ==
    ASSUME PageOK, NEW b \in {"name", "local"}, Choose(b)
    PROVE  Outcome(page')
  <1> DEFINE now == {page.check} \cup (IF page.probe = "asking" THEN {"probe"} ELSE {})
             p == [page EXCEPT !.base = b, !.chosen = b, !.during = now]
             q == ApiChanged(p)
  <1>1. page' = Chosen(page, b)
    BY DEF Choose, Page
  <1>2. /\ p \in Pages /\ p.hash = page.hash /\ p.polls = page.polls /\ p.post = page.post
        /\ p.shown = page.shown /\ p.down = page.down /\ p.known = page.known /\ p.unheard = page.unheard
        /\ p.probe = page.probe /\ p.explicit = page.explicit /\ p.own = page.own
        /\ p.base = b /\ p.chosen = b /\ p.during = now /\ p.check = page.check
    BY DEF PageOK, Good, Weak, Pages, Bases
  <1>3. Chosen(page, b) =
          CASE page.down /\ b = "local" -> MarkUp(q)
            [] page.down /\ b # "local" /\ page.check = "none" -> Recheck(q)
            [] OTHER -> q
    BY DEF Chosen
  <1> HIDE DEF p
  <1>4. Weak(p) /\ FreeSlot(p)
    BY <1>2 DEF PageOK, Good, Weak, ShownOK, PollsOK, PollOK, KnownOK, Choose, FreeSlot
  <1>5. Good(q) /\ Paints(p, q) /\ Kept(p, q)
    BY <1>4, ApiChangedIs
  <1> HIDE DEF q
  <1>6. Outcome(q)
    <2>1. Good(q) /\ Paints(page, q) /\ q.unheard = page.unheard /\ Missing(q) \subseteq Missing(page)
      BY <1>2, <1>5 DEF Paints, Kept, Missing
    <2>2. ChoiceOK(q)
      BY <1>2, <1>5 DEF Kept, ChoiceOK
    <2>3. QED  BY <2>1, <2>2 DEF Outcome
  <1>7. Outcome(MarkUp(q))
    BY <1>5, <1>6, MarkUpIs DEF Outcome, Paints, Kept, ChoiceOK, Missing, Good
  <1>8. CASE page.check = "none"
    <2>1. Outcome(Recheck(q))
      BY <1>2, <1>5, <1>6, <1>8, RecheckIs DEF Outcome, Paints, Kept, ChoiceOK, Missing
    <2>2. QED  BY <1>1, <1>3, <1>6, <1>7, <2>1
  <1>9. CASE page.check # "none"
    BY <1>1, <1>3, <1>6, <1>7, <1>9
  <1>10. QED  BY <1>8, <1>9
LEMMA NotCheckingIs ==
    ASSUME NEW p, Weak(p)
    PROVE  LET q == NotChecking(p) IN
           /\ Weak(q) /\ q.check = "none" /\ q.shown = p.shown /\ q.hash = p.hash /\ q.post = p.post
           /\ q.chosen = p.chosen /\ q.during = p.during /\ q.base = p.base /\ q.polls = p.polls
           /\ q.known = p.known /\ q.unheard = p.unheard /\ q.down = p.down
           /\ q.probe = p.probe /\ q.explicit = p.explicit /\ q.own = p.own
  <1> DEFINE q == [p EXCEPT !.check = "none", !.asked = "name"]
  <1>1. NotChecking(p) = q
    BY DEF NotChecking
  <1>2. /\ q \in Pages /\ q.check = "none" /\ q.shown = p.shown /\ q.hash = p.hash
        /\ q.post = p.post /\ q.polls = p.polls
        /\ q.chosen = p.chosen /\ q.during = p.during /\ q.base = p.base
        /\ q.known = p.known /\ q.unheard = p.unheard /\ q.down = p.down
        /\ q.probe = p.probe /\ q.explicit = p.explicit /\ q.own = p.own
    BY DEF Weak, Pages, Checks, Bases
  <1> HIDE DEF q
  <1>3. Weak(q)
    BY <1>2 DEF Weak, ShownOK, PollsOK, PollOK, KnownOK
  <1>4. QED  BY <1>1, <1>2, <1>3

LEMMA RecheckFiresIs == ASSUME PageOK, RecheckFires PROVE Outcome(page')
  <1>1. page' = Recheck(page)
    BY DEF RecheckFires, Alone, Page
  <1>2. QED  BY <1>1, RecheckIs DEF PageOK, Outcome, Paints, ChoiceOK, Missing

LEMMA FirstCheckIs == ASSUME PageOK, FirstCheckEnds PROVE Outcome(page')
  <1> DEFINE n == NotChecking(page)
  <1>1. page' = Checked1(page) /\ page.check = "first"
    BY DEF FirstCheckEnds, Alone, Page
  <1>2. /\ Good(n) /\ n.check = "none" /\ n.shown = page.shown /\ n.hash = page.hash /\ n.post = page.post
        /\ n.chosen = page.chosen /\ n.during = page.during /\ n.base = page.base
        /\ n.known = page.known /\ n.unheard = page.unheard
        /\ n.probe = page.probe /\ n.explicit = page.explicit /\ n.own = page.own
    BY NotCheckingIs DEF PageOK, Good, Follows
  <1>3. Checked1(page) =
          CASE page.asked \in up -> MarkUp(n)
            [] page.asked \notin up /\ page.base = "name" -> [page EXCEPT !.check = "second"]
            [] OTHER -> [n EXCEPT !.recheck = page.down]
    BY DEF Checked1
  <1> HIDE DEF n
  <1>4. CASE page.asked \in up
    <2>1. page' = MarkUp(n)
      BY <1>1, <1>4, <1>3
    <2>2. QED  BY <1>2, <2>1, MarkUpIs DEF PageOK, Outcome, Paints, ChoiceOK, Missing, Good, Kept
  <1>5. CASE page.asked \notin up /\ page.base = "name"
    <2> DEFINE q == [page EXCEPT !.check = "second"]
    <2>1. page' = q
      BY <1>1, <1>5, <1>3
    <2>2. /\ q \in Pages /\ q.check = "second" /\ q.shown = page.shown /\ q.hash = page.hash
          /\ q.post = page.post /\ q.polls = page.polls /\ q.base = page.base
          /\ q.chosen = page.chosen /\ q.during = page.during
          /\ q.known = page.known /\ q.unheard = page.unheard
          /\ q.probe = page.probe /\ q.explicit = page.explicit /\ q.own = page.own
      BY DEF PageOK, Good, Weak, Pages, Checks
    <2> HIDE DEF q
    <2>3. Good(q)
      BY <2>2 DEF PageOK, Good, Weak, ShownOK, PollsOK, PollOK, KnownOK, Follows
    <2>4. QED  BY <1>5, <2>1, <2>2, <2>3 DEF PageOK, Outcome, Paints, ChoiceOK, Missing
  <1>6. CASE page.asked \notin up /\ page.base # "name"
    <2> DEFINE q == [n EXCEPT !.recheck = page.down]
    <2>1. page' = q
      BY <1>1, <1>6, <1>3
    <2>2. /\ q \in Pages /\ q.check = "none" /\ q.shown = page.shown /\ q.hash = page.hash
          /\ q.post = page.post /\ q.polls = n.polls /\ q.base = page.base
          /\ q.chosen = page.chosen /\ q.during = page.during
          /\ q.known = page.known /\ q.unheard = page.unheard
          /\ q.probe = page.probe /\ q.explicit = page.explicit /\ q.own = page.own
      BY <1>2 DEF PageOK, Good, Weak, Pages
    <2> HIDE DEF q
    <2>3. Good(q)
      BY <1>2, <2>2 DEF PageOK, Good, Weak, ShownOK, PollsOK, PollOK, KnownOK, Follows
    <2>4. QED  BY <2>1, <2>2, <2>3 DEF PageOK, Outcome, Paints, ChoiceOK, Missing
  <1>7. QED  BY <1>4, <1>5, <1>6

LEMMA SecondCheckIs == ASSUME PageOK, SecondCheckEnds PROVE Outcome(page')
  <1> DEFINE n == NotChecking(page)
  <1>1. page' = Checked2(page) /\ page.check = "second" /\ FreeSlot(page)
    BY DEF SecondCheckEnds, Alone, Page
  <1>2. /\ Good(n) /\ n.check = "none" /\ n.shown = page.shown /\ n.hash = page.hash /\ n.post = page.post
        /\ n.chosen = page.chosen /\ n.during = page.during /\ n.base = page.base
        /\ n.known = page.known /\ n.unheard = page.unheard /\ n.polls = page.polls
        /\ n.probe = page.probe /\ n.explicit = page.explicit /\ n.own = page.own
    BY NotCheckingIs DEF PageOK, Good, Follows
  <1>3. CASE "address" \in up
    <2> DEFINE p == [n EXCEPT !.base = "address"]
               q == ApiChanged(p)
    <2>1. page' = MarkUp(q)
      BY <1>1, <1>3 DEF Checked2
    <2> HIDE DEF n
    <2>2. /\ p \in Pages /\ p.check = "none" /\ p.shown = page.shown /\ p.hash = page.hash
          /\ p.post = page.post /\ p.polls = page.polls /\ p.base = "address"
          /\ p.chosen = page.chosen /\ p.during = page.during
          /\ p.known = page.known /\ p.unheard = page.unheard
          /\ p.probe = page.probe /\ p.explicit = page.explicit /\ p.own = page.own
      BY <1>2 DEF Good, Weak, Pages, Bases
    <2> HIDE DEF p
    <2>3. Weak(p) /\ FreeSlot(p)
      BY <1>1, <2>2 DEF PageOK, Good, Weak, ShownOK, PollsOK, PollOK, KnownOK, FreeSlot
    <2>4. Good(q) /\ Paints(p, q) /\ Kept(p, q)
      BY <2>3, ApiChangedIs
    <2> HIDE DEF q
    <2>5. /\ Good(MarkUp(q)) /\ MarkUp(q).shown = q.shown /\ MarkUp(q).hash = q.hash /\ Kept(q, MarkUp(q))
      BY <2>4, MarkUpIs DEF Good
    <2>6. QED  BY <1>1, <2>1, <2>2, <2>4, <2>5 DEF PageOK, Outcome, Paints, ChoiceOK, Missing, Kept
  <1>4. CASE "address" \notin up
    <2> DEFINE q == [n EXCEPT !.recheck = page.down]
    <2>1. page' = q
      BY <1>1, <1>4 DEF Checked2
    <2> HIDE DEF n
    <2>2. /\ q \in Pages /\ q.check = "none" /\ q.shown = page.shown /\ q.hash = page.hash
          /\ q.post = page.post /\ q.polls = page.polls /\ q.base = page.base
          /\ q.chosen = page.chosen /\ q.during = page.during
          /\ q.known = page.known /\ q.unheard = page.unheard
          /\ q.probe = page.probe /\ q.explicit = page.explicit /\ q.own = page.own
      BY <1>2 DEF PageOK, Good, Weak, Pages
    <2> HIDE DEF q
    <2>3. Good(q)
      BY <2>2 DEF PageOK, Good, Weak, ShownOK, PollsOK, PollOK, KnownOK, Follows
    <2>4. QED  BY <2>1, <2>2, <2>3 DEF PageOK, Outcome, Paints, ChoiceOK, Missing
  <1>5. QED  BY <1>3, <1>4

LEMMA WithPollIs ==
    ASSUME PageOK, NEW s \in Slots, NEW x \in Polls, PollOK(page, x),
           x.current => /\ page.polls[s].current /\ x.job = page.polls[s].job
                        /\ x.pc \in {"sent", "body"} => \/ page.base # "local"
                                                      \/ page.polls[s].pc \in {"sent", "body"}
    PROVE  LET q == WithPoll(s, x) IN
           /\ Good(q) /\ q.shown = page.shown /\ q.hash = page.hash /\ Kept(page, q)
           /\ q.polls = [page.polls EXCEPT ![s] = x]
  <1> DEFINE q == [page EXCEPT !.polls = [page.polls EXCEPT ![s] = x]]
  <1>1. WithPoll(s, x) = q
    BY DEF WithPoll
  <1>2. page.polls \in [Slots -> Polls]
    BY DEF PageOK, Good, Weak, Pages
  <1>3. /\ q \in Pages /\ q.shown = page.shown /\ q.hash = page.hash /\ q.post = page.post /\ Kept(page, q)
        /\ q.polls = [page.polls EXCEPT ![s] = x]
    BY <1>2 DEF PageOK, Good, Weak, Pages, Kept
  <1> HIDE DEF q
  <1>4. PollsOK(q) /\ Follows(q)
    BY <1>2, <1>3 DEF PageOK, Good, Weak, PollsOK, PollOK, Follows, Kept
  <1>5. Good(q)
    BY <1>3, <1>4 DEF PageOK, Good, Weak, ShownOK, KnownOK, Kept
  <1>6. QED  BY <1>1, <1>3, <1>5

LEMMA PollOfPage ==
    ASSUME PageOK, NEW s \in Slots
    PROVE  page.polls[s] \in Polls /\ PollOK(page, page.polls[s])
  BY DEF PageOK, Good, Weak, Pages, PollsOK

LEMMA PollResumesIs ==
    ASSUME PageOK, NEW s \in Slots, PollResumes(s)
    PROVE  Outcome(page')
  <1> DEFINE x == page.polls[s]
  <1>1. x \in Polls /\ PollOK(page, x) /\ x.pc = "go"
    BY PollOfPage DEF PollResumes
  <1>2. CASE ~(x.job = InPage \/ Local(page))
    <2> DEFINE y == [x EXCEPT !.pc = "sent", !.to = page.base]
    <2>1. page' = WithPoll(s, y)
      BY <1>2 DEF PollResumes, Alone, Page
    <2>2. page.base \in Bases /\ page.base # "local" /\ x.job \in Jobs
      BY <1>1, <1>2 DEF PageOK, Good, Weak, Pages, Local, PollOK, Tickets
    <2> HIDE DEF x
    <2>3. /\ y \in Polls /\ y.pc = "sent" /\ y.job = x.job /\ y.current = x.current
      BY <1>1, <2>2 DEF Polls
    <2> HIDE DEF y
    <2>4. PollOK(page, y)
      BY <1>1, <2>2, <2>3 DEF PollOK
    <2>5. QED  BY <2>1, <2>2, <2>3, <2>4, WithPollIs, KeptOutcome DEF x, Paints
  <1>3. CASE x.job = InPage \/ Local(page)
    <2> DEFINE q == WithPoll(s, Free)
               status == IF x.job = InPage THEN q.own ELSE "unknown"
    <2>1. page' = Painted(q, x.job, status)
      BY <1>3 DEF PollResumes, Alone, Page, Answered
    <2>2. /\ Good(q) /\ q.shown = page.shown /\ q.hash = page.hash /\ Kept(page, q)
          /\ q.polls = [page.polls EXCEPT ![s] = Free]
      BY FreeIs, WithPollIs
    <2>3. /\ x.job \in Tickets /\ Begun(x.job) /\ x.current
          /\ x.job = InPage => InPage \in page.known /\ page.own \in OwnStates
      BY <1>1 DEF PollOK, PageOK, Good, Weak, KnownOK
    <2>4. page.hash \in {NoJob, x.job}
      BY <2>3 DEF PageOK, Good, Follows
    <2>5. \A u \in Slots : ~q.polls[u].current
      <3>1. page.polls \in [Slots -> Polls]
        BY DEF PageOK, Good, Weak, Pages
      <3>2. QED  BY <2>2, <2>3, <3>1, FreeIs DEF PageOK, Good, Weak, PollsOK
    <2> HIDE DEF x
    <2>6. status \in Statuses /\ (x.job \in Jobs => status = "unknown") /\ (x.job = InPage => status = page.own)
      BY <2>2, <2>3, TicketAssumption DEF Statuses, OwnStates, Kept
    <2> HIDE DEF q, status
    <2> DEFINE r == Painted(q, x.job, status)
    <2>7. /\ r \in Pages /\ r.shown.job = x.job /\ r.shown.status = status
          /\ r.polls = q.polls /\ r.hash = q.hash /\ r.post = q.post /\ Kept(q, r)
      BY <2>2, <2>3, <2>6, PaintedIs DEF Good, Weak
    <2> HIDE DEF r
    <2>8. PollsOK(r)
      BY <2>2, <2>5, <2>7 DEF Good, Weak, PollsOK, PollOK, Kept
    <2>9. ShownOK(r)
      BY <2>2, <2>3, <2>6, <2>7, TicketAssumption DEF ShownOK, Kept
    <2>10. Good(r)
      BY <2>2, <2>5, <2>7, <2>8, <2>9 DEF Good, Weak, KnownOK, Follows, Kept
    <2>11. Paints(page, r)
      <3>1. CASE x.job = InPage
        <4>1. page.shown.job = InPage => page.shown.status \in {"running", page.own}
          BY DEF PageOK, Good, Weak, ShownOK
        <4>2. page.shown.job = InPage => InOrder(page.shown.status, status)
          BY <3>1, <2>3, <2>6, <4>1 DEF InOrder, Rank, OwnStates
        <4>3. QED  BY <2>2, <2>4, <2>7, <3>1, <4>2, TicketAssumption DEF Paints
      <3>2. CASE x.job # InPage
        BY <2>2, <2>3, <2>4, <2>6, <2>7, <3>2 DEF Paints, Tickets
      <3>3. QED  BY <3>1, <3>2
    <2>12. Kept(page, r)
      BY <2>2, <2>7 DEF Kept
    <2>13. QED  BY <2>1, <2>10, <2>11, <2>12, KeptOutcome DEF r
  <1>4. QED  BY <1>2, <1>3

LEMMA StatusIs ==
    ASSUME NEW j \in Jobs, Begun(j)
    PROVE  /\ Seen(StatusOf(j), j) /\ StatusOf(j) \in Statuses
           /\ \A t \in Statuses : Seen(t, j) => InOrder(t, StatusOf(j))
  <1>1. StatusOf(j) = CASE pc[j] = "queued" -> "queued"
                        [] pc[j] \in {"done", "failed"} -> pc[j]
                        [] OTHER -> "running"
    BY TicketAssumption DEF StatusOf
  <1>2. CASE pc[j] = "queued"
    BY <1>1, <1>2 DEF Seen, Statuses, InOrder, Rank
  <1>3. CASE pc[j] \in {"done", "failed"}
    BY <1>1, <1>3 DEF Seen, Statuses, InOrder, Rank
  <1>4. CASE pc[j] \notin {"queued", "done", "failed"}
    BY <1>1, <1>4 DEF Seen, Statuses, InOrder, Rank
  <1>5. QED  BY <1>2, <1>3, <1>4

LEMMA PollIsAnsweredIs ==
    ASSUME PageOK, NEW s \in Slots, PollIsAnswered(s)
    PROVE  Outcome(page')
  <1> DEFINE x == page.polls[s]
             y == [x EXCEPT !.pc = "body", !.status = StatusOf(x.job)]
             w == WithPoll(s, y)
  <1>1. x \in Polls /\ PollOK(page, x) /\ x.pc = "sent" /\ page' = MarkUp(w)
    BY PollOfPage DEF PollIsAnswered, Alone, Page
  <1>2. x.job \in Jobs /\ Begun(x.job)
    BY <1>1 DEF PollOK
  <1>3. /\ Seen(StatusOf(x.job), x.job) /\ StatusOf(x.job) \in Statuses
        /\ \A t \in Statuses : Seen(t, x.job) => InOrder(t, StatusOf(x.job))
    BY <1>2, StatusIs
  <1> HIDE DEF x
  <1>4. y \in Polls /\ y.pc = "body" /\ y.job = x.job /\ y.current = x.current /\ y.status = StatusOf(x.job)
    BY <1>1, <1>3 DEF Polls
  <1> HIDE DEF y
  <1>5. x.job = page.shown.job => InOrder(page.shown.status, y.status)
    <2>1. page.shown.status \in Statuses /\ ShownOK(page)
      BY DEF PageOK, Good, Weak, Pages
    <2>2. QED  BY <1>2, <1>3, <1>4, <2>1 DEF ShownOK, InOrder
  <1>6. PollOK(page, y)
    BY <1>2, <1>3, <1>4, <1>5, TicketAssumption DEF PollOK, Tickets
  <1>7. /\ Good(w) /\ w.shown = page.shown /\ w.hash = page.hash /\ Kept(page, w)
    BY <1>1, <1>4, <1>6, WithPollIs DEF x
  <1> HIDE DEF w
  <1>8. /\ Good(MarkUp(w)) /\ MarkUp(w).shown = w.shown /\ MarkUp(w).hash = w.hash /\ Kept(w, MarkUp(w))
    BY <1>7, MarkUpIs DEF Good
  <1>9. QED  BY <1>1, <1>7, <1>8, KeptOutcome DEF Paints, Kept

LEMMA PollArrivesIs ==
    ASSUME PageOK, NEW s \in Slots, PollArrives(s)
    PROVE  Outcome(page')
  <1> DEFINE x == page.polls[s]
             q == WithPoll(s, Free)
  <1>1. x \in Polls /\ PollOK(page, x) /\ x.pc = "body" /\ page' = Taken(s, x)
    BY PollOfPage DEF PollArrives, Alone, Page
  <1>2. /\ Good(q) /\ q.shown = page.shown /\ q.hash = page.hash /\ Kept(page, q)
        /\ \A t \in Slots : q.polls[t].current => t # s /\ page.polls[t].current
    <2>1. /\ Good(q) /\ q.shown = page.shown /\ q.hash = page.hash /\ Kept(page, q)
          /\ q.polls = [page.polls EXCEPT ![s] = Free]
      BY FreeIs, WithPollIs
    <2>2. page.polls \in [Slots -> Polls]
      BY DEF PageOK, Good, Weak, Pages
    <2> HIDE DEF q
    <2>3. \A t \in Slots : q.polls[t].current => t # s /\ page.polls[t].current
      BY <2>1, <2>2, FreeIs
    <2>4. QED  BY <2>1, <2>3
  <1>3. CASE ~x.current
    <2>1. page' = q
      BY <1>1, <1>3 DEF Taken
    <2>2. QED  BY <1>2, <2>1, KeptOutcome DEF Paints
  <1>4. CASE x.current
    <2> DEFINE r == Painted(q, x.job, x.status)
    <2>1. page' = r
      BY <1>1, <1>4 DEF Taken
    <2>2. /\ x.job \in Jobs /\ x.job \in Tickets /\ Begun(x.job) /\ x.status \in Statuses
          /\ Seen(x.status, x.job)
          /\ x.job = page.shown.job => InOrder(page.shown.status, x.status)
      BY <1>1, <1>4 DEF PollOK, Tickets, Polls
    <2>3. page.hash = NoJob \/ (page.hash = x.job /\ page.base # "local")
      BY <1>1, <1>4 DEF PageOK, Good, Follows
    <2>4. \A t \in Slots : ~q.polls[t].current
      BY <1>2, <1>4 DEF PageOK, Good, Weak, PollsOK
    <2> HIDE DEF q, x
    <2>5. /\ r \in Pages /\ r.shown.job = x.job /\ r.shown.status = x.status
          /\ r.polls = q.polls /\ r.hash = q.hash /\ r.post = q.post /\ Kept(q, r)
      BY <1>2, <2>2, PaintedIs DEF Good, Weak
    <2> HIDE DEF r
    <2>6. PollsOK(r)
      BY <1>2, <2>4, <2>5 DEF Good, Weak, PollsOK, PollOK, Kept
    <2>7. Good(r)
      BY <1>2, <2>2, <2>4, <2>5, <2>6, TicketAssumption DEF Good, Weak, ShownOK, KnownOK, Follows, Kept
    <2>8. Paints(page, r) /\ Kept(page, r)
      BY <1>2, <2>2, <2>3, <2>5 DEF Paints, Kept
    <2>9. QED  BY <2>1, <2>7, <2>8, KeptOutcome
  <1>5. QED  BY <1>3, <1>4

LEMMA MarkDownIs ==
    ASSUME NEW p, Good(p)
    PROVE  /\ Good(MarkDown(p)) /\ Kept(p, MarkDown(p))
           /\ MarkDown(p).shown = p.shown /\ MarkDown(p).hash = p.hash
  <1>1. CASE p.down
    BY <1>1 DEF MarkDown, Kept
  <1>2. CASE ~p.down
    <2> DEFINE q == [p EXCEPT !.down = TRUE, !.recheck = TRUE]
    <2>1. MarkDown(p) = q
      BY <1>2 DEF MarkDown
    <2>2. /\ q \in Pages /\ q.shown = p.shown /\ q.hash = p.hash /\ q.post = p.post
          /\ q.polls = p.polls /\ Kept(p, q)
      BY DEF Good, Weak, Pages, Kept
    <2> HIDE DEF q
    <2>3. Good(q)
      BY <2>2 DEF Good, Weak, ShownOK, PollsOK, PollOK, KnownOK, Follows, Kept
    <2>4. QED  BY <2>1, <2>2, <2>3
  <1>3. QED  BY <1>1, <1>2

LEMMA GivenUpIs ==
    ASSUME PageOK, NEW s \in Slots, page.polls[s].pc = "sent"
    PROVE  Outcome(GivenUp(s))
  <1> DEFINE x == page.polls[s]
             y == IF x.current THEN [x EXCEPT !.pc = "wait"] ELSE Free
             w == WithPoll(s, y)
  <1>1. x \in Polls /\ PollOK(page, x) /\ x.pc = "sent"
    BY PollOfPage
  <1>2. /\ Good(w) /\ w.shown = page.shown /\ w.hash = page.hash /\ Kept(page, w)
    <2>1. CASE ~x.current
      BY <2>1, FreeIs, WithPollIs
    <2>2. CASE x.current
      <3> DEFINE v == [x EXCEPT !.pc = "wait"]
      <3>1. w = WithPoll(s, v)
        BY <2>2
      <3> HIDE DEF w, y, x
      <3>2. v \in Polls /\ v.pc = "wait" /\ v.job = x.job /\ v.current = x.current
        BY <1>1 DEF Polls, Statuses
      <3> HIDE DEF v
      <3>3. PollOK(page, v)
        BY <1>1, <2>2, <3>2 DEF PollOK
      <3>4. QED  BY <3>1, <3>2, <3>3, WithPollIs DEF x
    <2>3. QED  BY <2>1, <2>2
  <1>3. GivenUp(s) = MarkDown(w)
    BY DEF GivenUp
  <1> HIDE DEF w
  <1>4. /\ Good(MarkDown(w)) /\ Kept(w, MarkDown(w))
        /\ MarkDown(w).shown = w.shown /\ MarkDown(w).hash = w.hash
    BY <1>2, MarkDownIs
  <1>5. QED  BY <1>2, <1>3, <1>4, KeptOutcome DEF Paints, Kept

LEMMA NoPostIs == NoPost \in Posts /\ NoPost.job = NoJob /\ NoPost.pc = "none"
  BY DEF NoPost, Posts, Bases

LEMMA PostResumesIs == ASSUME PageOK, PostResumes PROVE Outcome(page')
  <1>1. /\ page \in Pages /\ page.post \in Posts /\ page.post.pc = "go" /\ page.post.job = NoJob
    BY DEF PostResumes, PageOK, Good, Weak, KnownOK, Pages
  <1>2. CASE Local(page)
    <2> DEFINE known == page.known \cup {InPage}
               p == [page EXCEPT !.post = NoPost, !.hash = InPage, !.known = known, !.own = "running"]
    <2>1. page' = Opened(p)
      BY <1>2 DEF PostResumes, Alone, Page, BuiltHere
    <2>2. FreeSlot(page) /\ InPage \notin page.known
      BY <1>2 DEF PostResumes
    <2>3. /\ p \in Pages /\ p.hash = InPage /\ p.known = known
          /\ p.polls = page.polls /\ p.post = NoPost /\ p.shown = page.shown /\ p.base = page.base
          /\ p.chosen = page.chosen /\ p.during = page.during /\ p.check = page.check
          /\ p.unheard = page.unheard
          /\ p.probe = page.probe /\ p.explicit = page.explicit /\ p.own = "running"
      BY <1>1, NoPostIs DEF Pages, Tickets, OwnStates
    <2> HIDE DEF p
    <2>4. Weak(p) /\ FreeSlot(p)
      BY <2>2, <2>3, NoPostIs, TicketAssumption
         DEF PageOK, Good, Weak, ShownOK, PollsOK, PollOK, KnownOK, Begun, FreeSlot, OwnStates
    <2>5. Good(Opened(p)) /\ Paints(p, Opened(p)) /\ Kept(p, Opened(p))
      BY <2>4, OpenedIs
    <2>6. Paints(page, Opened(p))
      BY <2>3, <2>5 DEF Paints
    <2>7. QED  BY <1>1, <2>1, <2>3, <2>5, <2>6, NoPostIs DEF PageOK, Outcome, ChoiceOK, Missing, Kept
  <1>3. CASE ~Local(page)
    <2> DEFINE post == [page.post EXCEPT !.pc = "sent", !.to = page.base]
    <2>1. page' = [page EXCEPT !.post = post]
      BY <1>3, <1>1 DEF PostResumes, Alone, Page, Pages
    <2>2. post \in Posts /\ post.job = NoJob /\ post.pc = "sent"
      BY <1>1 DEF Posts, Pages
    <2> HIDE DEF post
    <2>3. /\ page' \in Pages /\ page'.post = post /\ page'.hash = page.hash
          /\ page'.polls = page.polls /\ page'.shown = page.shown /\ Kept(page, page')
      BY <1>1, <2>1, <2>2 DEF Pages, Kept
    <2>4. Good(page')
      BY <1>1, <2>2, <2>3 DEF PageOK, Good, Weak, ShownOK, PollsOK, PollOK, KnownOK, Begun, Follows, Kept
    <2>5. QED  BY <2>3, <2>4, KeptOutcome DEF Paints
  <1>4. QED  BY <1>2, <1>3

LEMMA PostIsAnsweredIs == ASSUME PageOK, PostIsAnswered PROVE Outcome(page')
  <1> DEFINE post == [page.post EXCEPT !.pc = "body"]
             p == [page EXCEPT !.post = post]
  <1>1. page \in Pages /\ page.post \in Posts
    BY DEF PageOK, Good, Weak, Pages
  <1>2. page' = MarkUp(p)
    BY <1>1 DEF PostIsAnswered, Alone, Page, Pages
  <1>3. post \in Posts /\ post.pc = "body" /\ post.job = page.post.job /\ post.job # NoJob
    BY <1>1 DEF Posts, PostIsAnswered
  <1> HIDE DEF post
  <1>4. /\ p \in Pages /\ p.post = post /\ p.hash = page.hash /\ p.polls = page.polls
        /\ p.shown = page.shown /\ Kept(page, p)
    BY <1>1, <1>3 DEF Pages, Kept
  <1> HIDE DEF p
  <1>5. Good(p)
    BY <1>3, <1>4 DEF PageOK, Good, Weak, ShownOK, PollsOK, PollOK, KnownOK, Follows, Kept
  <1>6. QED  BY <1>2, <1>4, <1>5, MarkUpIs, KeptOutcome DEF Good, Paints, Kept

LEMMA PostArrivesIs == ASSUME PageOK, PostArrives PROVE Outcome(page')
  <1> DEFINE job == page.post.job
             known == page.known \cup {job}
             p == [page EXCEPT !.post = NoPost, !.hash = job, !.known = known]
  <1>1. page \in Pages /\ job \in Jobs \cup {NoJob} /\ Begun(job) /\ FreeSlot(page)
    BY DEF PostArrives, PageOK, Good, Weak, KnownOK, Pages, Posts
  <1>2. job \in Jobs
    BY <1>1 DEF PostArrives, PageOK, Good, Weak, KnownOK
  <1>3. page' = Opened(p)
    BY <1>1 DEF PostArrives, Alone, Page, Pages
  <1>4. job \in Tickets /\ known \in SUBSET Tickets
    BY <1>1, <1>2 DEF Pages, Tickets
  <1> HIDE DEF job, known
  <1>5. /\ p \in Pages /\ p.hash = job /\ p.known = known
        /\ p.polls = page.polls /\ p.post = NoPost /\ p.shown = page.shown /\ p.base = page.base
        /\ p.chosen = page.chosen /\ p.during = page.during /\ p.check = page.check
        /\ p.unheard = page.unheard
        /\ p.probe = page.probe /\ p.explicit = page.explicit /\ p.own = page.own
    BY <1>1, <1>4, NoPostIs DEF Pages
  <1> HIDE DEF p
  <1>6. Weak(p) /\ FreeSlot(p)
    BY <1>1, <1>2, <1>5, NoPostIs, TicketAssumption
       DEF PageOK, Good, Weak, ShownOK, PollsOK, PollOK, KnownOK, Begun, FreeSlot, known
  <1>7. Good(Opened(p)) /\ Paints(p, Opened(p)) /\ Kept(p, Opened(p))
    BY <1>6, OpenedIs
  <1>8. Paints(page, Opened(p))
    BY <1>5, <1>7 DEF Paints
  <1>9. QED  BY <1>3, <1>5, <1>7, <1>8, NoPostIs DEF PageOK, Outcome, ChoiceOK, Missing, Kept, job, known

\* A step that touches neither polls, post nor place changes nothing that matters.
LEMMA SamePictureIs ==
    ASSUME PageOK, NEW q, NEW r, Good(q), Kept(page, q), q.shown = page.shown, q.hash = page.hash,
           r \in Pages, Kept(q, r), r.shown = q.shown, r.hash = q.hash, r.post = q.post, r.polls = q.polls
    PROVE  Outcome(r)
  <1>1. Good(r)
    BY DEF Good, Weak, ShownOK, PollsOK, PollOK, KnownOK, Follows, Kept
  <1>2. QED  BY <1>1, KeptOutcome DEF Paints, Kept

LEMMA PollBreaksIs ==
    ASSUME PageOK, NEW s \in Slots, PollBreaks(s)
    PROVE  Outcome(page')
  <1> DEFINE q == WithPoll(s, Free)
             timer == IF page.polls[s].current THEN ~page.finished ELSE page.timer
  <1>1. /\ Good(q) /\ q.shown = page.shown /\ q.hash = page.hash /\ Kept(page, q)
    BY FreeIs, WithPollIs
  <1>2. q.timer = page.timer /\ page.timer \in BOOLEAN /\ page.finished \in BOOLEAN
    BY DEF WithPoll, PageOK, Good, Weak, Pages
  <1>3. timer \in BOOLEAN
    BY <1>2
  <1>4. page' = [q EXCEPT !.timer = timer]
    BY <1>2 DEF PollBreaks, Page
  <1> HIDE DEF q, timer
  <1>5. /\ page' \in Pages /\ page'.shown = q.shown /\ page'.hash = q.hash /\ page'.post = q.post
        /\ page'.polls = q.polls /\ Kept(q, page')
    BY <1>1, <1>3, <1>4 DEF Good, Weak, Pages, Kept
  <1>6. QED  BY <1>1, <1>5, SamePictureIs

LEMMA PollHangsIs ==
    ASSUME PageOK, NEW s \in Slots, PollHangs(s)
    PROVE  Outcome(page')
  <1> DEFINE q == WithPoll(s, Free)
             hung == IF page.polls[s].current THEN q.hung \cup {"poll"} ELSE q.hung
  <1>1. /\ Good(q) /\ q.shown = page.shown /\ q.hash = page.hash /\ Kept(page, q)
    BY FreeIs, WithPollIs
  <1>2. hung \in SUBSET {"probe", "poll", "post", "own"}
    BY <1>1 DEF Good, Weak, Pages
  <1>3. page' = [q EXCEPT !.hung = hung]
    BY DEF PollHangs, Page
  <1> HIDE DEF q, hung
  <1>4. /\ page' \in Pages /\ page'.shown = q.shown /\ page'.hash = q.hash /\ page'.post = q.post
        /\ page'.polls = q.polls /\ Kept(q, page')
    BY <1>1, <1>2, <1>3 DEF Good, Weak, Pages, Kept
  <1>5. QED  BY <1>1, <1>4, SamePictureIs

LEMMA NeverEndsIs ==
    ASSUME PageOK, NEW what \in {"probe", "post", "own"}, NeverEnds(what)
    PROVE  Outcome(page')
  <1> DEFINE hung == page.hung \cup {what}
  <1>1. page' = [page EXCEPT !.hung = hung]
    BY DEF NeverEnds, Page
  <1>2. hung \in SUBSET {"probe", "poll", "post", "own"}
    BY DEF PageOK, Good, Weak, Pages
  <1> HIDE DEF hung
  <1>3. /\ page' \in Pages /\ page'.shown = page.shown /\ page'.hash = page.hash
        /\ page'.post = page.post /\ page'.polls = page.polls /\ Kept(page, page')
    BY <1>1, <1>2 DEF PageOK, Good, Weak, Pages, Kept
  <1>4. QED  BY <1>3, SamePictureIs DEF PageOK, Kept

LEMMA OwnBuildEndsIs ==
    ASSUME PageOK, NEW status \in {"done", "failed"}, OwnBuildEnds(status)
    PROVE  Outcome(page')
  <1>1. page' = [page EXCEPT !.own = status] /\ page.own = "running"
    BY DEF OwnBuildEnds, Alone, Page
  <1>2. /\ page' \in Pages /\ page'.own = status /\ page'.shown = page.shown /\ page'.hash = page.hash
        /\ page'.post = page.post /\ page'.polls = page.polls /\ page'.known = page.known
        /\ page'.base = page.base /\ page'.chosen = page.chosen /\ page'.during = page.during
        /\ page'.check = page.check /\ page'.unheard = page.unheard
        /\ page'.probe = page.probe /\ page'.explicit = page.explicit
    BY <1>1 DEF PageOK, Good, Weak, Pages, OwnStates
  <1>3. Good(page')
    BY <1>1, <1>2 DEF PageOK, Good, Weak, ShownOK, PollsOK, PollOK, KnownOK, Follows, OwnStates
  <1>4. QED  BY <1>2, <1>3 DEF PageOK, Outcome, Paints, ChoiceOK, Missing

LEMMA ProbeEndsIs ==
    ASSUME PageOK, NEW yes \in BOOLEAN, ProbeEnds(yes)
    PROVE  Outcome(page')
  <1> DEFINE base == IF yes /\ ~page.explicit THEN "name" ELSE page.base
             post == Ready(page.post)
             polls == [s \in Slots |-> Ready(page.polls[s])]
  <1>1. /\ page \in Pages /\ page.post \in Posts /\ page.polls \in [Slots -> Polls]
        /\ page.base \in Bases /\ page.probe = "asking" /\ page.explicit \in BOOLEAN
    BY DEF PageOK, Good, Weak, Pages, ProbeEnds
  <1>2. page' = [page EXCEPT !.probe = "settled", !.base = base, !.post = post, !.polls = polls]
    BY DEF ProbeEnds, Alone, Page, Probed
  <1>3. /\ post \in Posts /\ post.job = page.post.job
        /\ page.post.pc \in {"sent", "body"} => post.pc = page.post.pc
        /\ post.pc = "body" => page.post.pc = "body"
    BY <1>1 DEF Ready, Posts
  <1>4. ASSUME NEW s \in Slots
        PROVE  /\ polls[s] \in Polls
               /\ polls[s].job = page.polls[s].job /\ polls[s].current = page.polls[s].current
               /\ polls[s].status = page.polls[s].status
               /\ polls[s].pc = page.polls[s].pc \/ (page.polls[s].pc = "early" /\ polls[s].pc = "go")
    <2> DEFINE x == page.polls[s]
    <2>1. x \in Polls
      BY <1>1
    <2>2. polls[s] = Ready(x)
      OBVIOUS
    <2> HIDE DEF x, polls
    <2>3. QED  BY <2>1, <2>2 DEF Ready, Polls, x
  <1>5. polls \in [Slots -> Polls]
    BY <1>4
  <1>6. base \in Bases /\ (page.base # "local" => base # "local")
        /\ (base # page.base => ~page.explicit)
    BY <1>1 DEF Bases
  <1> HIDE DEF base, post, polls
  <1>7. /\ page' \in Pages /\ page'.probe = "settled" /\ page'.base = base /\ page'.post = post
        /\ page'.polls = polls /\ page'.shown = page.shown /\ page'.hash = page.hash
        /\ page'.known = page.known /\ page'.own = page.own /\ page'.unheard = page.unheard
        /\ page'.chosen = page.chosen /\ page'.during = page.during /\ page'.check = page.check
        /\ page'.explicit = page.explicit
    BY <1>1, <1>2, <1>3, <1>5, <1>6 DEF Pages
  <1>8. PollsOK(page')
    BY <1>4, <1>7 DEF PageOK, Good, Weak, PollsOK, PollOK
  <1>9. Follows(page')
    BY <1>4, <1>6, <1>7 DEF PageOK, Good, Follows
  <1>10. Good(page')
    BY <1>3, <1>7, <1>8, <1>9 DEF PageOK, Good, Weak, ShownOK, KnownOK
  <1>11. ChoiceOK(page')
    BY <1>1, <1>6, <1>7 DEF PageOK, ChoiceOK
  <1>12. QED  BY <1>3, <1>7, <1>10, <1>11 DEF Outcome, Paints, Missing

(* The server's steps, and posts *)

Wheres == {"idle", "queued", "open", "write", "rename", "stored", "look", "read", "check", "load", "ready",
           "done", "failed", "refused"}

ServerOK == pc \in [Calls -> Wheres] /\ crashes \in Nat

\* A job once accepted stays so, and its end is the end; only a crash takes
\* it back to the queue.
GoesOn ==
    /\ ServerOK'
    /\ crashes > 0 => crashes' > 0
    /\ \A j \in Jobs :
          /\ pc[j] # "idle" => pc'[j] # "idle"
          /\ pc[j] \in {"done", "failed"} => pc'[j] = pc[j]
          /\ pc[j] \notin {"idle", "queued"} => pc'[j] # "queued" \/ crashes' > 0

LEMMA JobsAreCalls == Jobs \subseteq Calls
  BY DEF Calls

LEMMA JobStepGoesOn ==
    ASSUME ServerOK, NEW j \in Jobs, Accept(j) \/ JobStep(j) \/ WriterStep(j)
    PROVE  GoesOn
  <1> USE JobsAreCalls DEF ServerOK, GoesOn, Goto, Wheres
  <1>1. CASE Accept(j)
    BY <1>1 DEF Accept
  <1>2. CASE JobStep(j)
    <2>1. CASE Start(j)
      BY <2>1 DEF Start
    <2>2. CASE Finish(j)
      BY <2>2 DEF Finish
    <2>3. CASE Fails(j)
      BY <2>3 DEF Fails
    <2>4. QED  BY <1>2, <2>1, <2>2, <2>3 DEF JobStep
  <1>3. CASE WriterStep(j)
    <2>1. CASE Open(j)
      BY <2>1 DEF Open
    <2>2. CASE WritePiece(j)
      BY <2>2 DEF WritePiece
    <2>3. CASE Rename(j)
      BY <2>3 DEF Rename
    <2>4. QED  BY <1>3, <2>1, <2>2, <2>3 DEF WriterStep
  <1>4. QED  BY <1>1, <1>2, <1>3

LEMMA CrashGoesOn == ASSUME ServerOK, Crash PROVE GoesOn
  <1>1. crashes' = crashes + 1 /\ crashes' > 0
    BY DEF Crash, ServerOK
  <1>2. pc' \in [Calls -> Wheres]
    BY DEF Crash, ServerOK, Wheres
  <1>3. ASSUME NEW j \in Jobs
        PROVE  /\ pc[j] # "idle" => pc'[j] # "idle"
               /\ pc[j] \in {"done", "failed"} => pc'[j] = pc[j]
    BY JobsAreCalls DEF Crash, Running
  <1>4. QED  BY <1>1, <1>2, <1>3 DEF GoesOn, ServerOK

LEMMA GoodGoesOn ==
    ASSUME ServerOK, GoesOn, NEW p, Good(p)
    PROVE  Good(p)'
  <1>1. \A j : Begun(j) => Begun(j)'
    BY DEF Begun, GoesOn
  <1>2. \A t, j : j \in Jobs /\ Begun(j) /\ Seen(t, j) => Seen(t, j)'
    BY DEF Seen, GoesOn, Begun
  <1>3. \A t, u : InOrder(t, u) => InOrder(t, u)'
    BY DEF InOrder, GoesOn
  <1>4. ShownOK(p)'
    BY <1>1, <1>2 DEF Good, Weak, ShownOK
  <1>5. ASSUME NEW x, PollOK(p, x) PROVE PollOK(p, x)'
    BY <1>1, <1>2, <1>3, <1>5 DEF PollOK
  <1>6. PollsOK(p)'
    BY <1>5 DEF Good, Weak, PollsOK
  <1>7. KnownOK(p)'
    BY <1>1 DEF Good, Weak, KnownOK
  <1>8. QED  BY <1>4, <1>6, <1>7 DEF Good, Weak, Follows

CountOK ==
    /\ mine \subseteq Jobs /\ IsFiniteSet(mine)
    /\ strays \in Nat
    /\ strays + Cardinality(Missing(page)) <= page.unheard

PageInv == PageOK /\ ServerOK /\ CountOK

LEMMA Unmoved == ServerOK /\ UNCHANGED <<pc, crashes>> => GoesOn
  BY DEF ServerOK, GoesOn

LEMMA OutcomeKeeps ==
    ASSUME PageInv, UNCHANGED <<pc, crashes, strays, mine>>, Outcome(page')
    PROVE  PageInv' /\ Paints(page, page')
  <1> DEFINE q == page'
  <1>1. GoesOn /\ ServerOK'
    BY Unmoved DEF PageInv, GoesOn
  <1>2. PICK c : c = page'
    OBVIOUS
  <1>3. Good(c)'
    BY <1>1, <1>2, GoodGoesOn DEF PageInv, Outcome
  <1>4. Good(page)' /\ ChoiceOK(page)'
    BY <1>2, <1>3 DEF Outcome, ChoiceOK, Good, Weak, Follows, ShownOK, PollsOK, PollOK, KnownOK
  <1>5. CountOK'
    <2>1. Missing(page)' \subseteq Missing(page)
      BY DEF Outcome, Missing
    <2>2. IsFiniteSet(Missing(page))
      BY FS_Subset DEF PageInv, CountOK, Missing
    <2>3. /\ Cardinality(Missing(page)') <= Cardinality(Missing(page))
          /\ Cardinality(Missing(page)') \in Nat /\ Cardinality(Missing(page)) \in Nat
      BY <2>1, <2>2, FS_Subset, FS_CardinalityType
    <2>4. page.unheard \in Nat /\ page'.unheard = page.unheard
      BY DEF PageInv, PageOK, Good, Weak, Pages, Outcome
    <2>5. QED  BY <2>3, <2>4 DEF PageInv, CountOK
  <1>6. QED  BY <1>1, <1>4, <1>5 DEF PageInv, PageOK, Outcome

LEMMA AgainKeeps ==
    ASSUME PageInv, GoesOn, UNCHANGED <<page, strays, mine>>
    PROVE  PageInv' /\ Paints(page, page')
  <1>1. PICK c : c = page
    OBVIOUS
  <1>2. Good(c)'
    BY <1>1, GoodGoesOn DEF PageInv, PageOK
  <1>3. Good(page)' /\ ChoiceOK(page)'
    BY <1>1, <1>2 DEF PageInv, PageOK, ChoiceOK, Good, Weak, Follows, ShownOK, PollsOK, PollOK, KnownOK
  <1>4. QED  BY <1>3 DEF PageInv, PageOK, CountOK, Missing, Paints, GoesOn
LEMMA MissingIsFinite ==
    ASSUME PageInv
    PROVE  /\ IsFiniteSet(Missing(page)) /\ Cardinality(Missing(page)) \in Nat
           /\ \A S : S \subseteq Missing(page) =>
                 IsFiniteSet(S) /\ Cardinality(S) \in Nat /\ Cardinality(S) <= Cardinality(Missing(page))
           /\ \A S, j : S \subseteq Missing(page) \cup {j} =>
                 IsFiniteSet(S) /\ Cardinality(S) \in Nat /\ Cardinality(S) <= Cardinality(Missing(page)) + 1
  <1>1. IsFiniteSet(Missing(page)) /\ Cardinality(Missing(page)) \in Nat
    BY FS_Subset, FS_CardinalityType DEF PageInv, CountOK, Missing
  <1>2. ASSUME NEW S, S \subseteq Missing(page)
        PROVE  IsFiniteSet(S) /\ Cardinality(S) \in Nat /\ Cardinality(S) <= Cardinality(Missing(page))
    BY <1>1, <1>2, FS_Subset, FS_CardinalityType
  <1>3. ASSUME NEW S, NEW j, S \subseteq Missing(page) \cup {j}
        PROVE  IsFiniteSet(S) /\ Cardinality(S) \in Nat /\ Cardinality(S) <= Cardinality(Missing(page)) + 1
    <2> DEFINE M == Missing(page) \cup {j}
    <2>1. IsFiniteSet(M) /\ Cardinality(M) \in Nat /\ Cardinality(M) <= Cardinality(Missing(page)) + 1
      BY <1>1, FS_AddElement, FS_CardinalityType
    <2> HIDE DEF M
    <2>2. IsFiniteSet(S) /\ Cardinality(S) <= Cardinality(M) /\ Cardinality(S) \in Nat
      BY <1>3, <2>1, FS_Subset, FS_CardinalityType DEF M
    <2>3. QED  BY <1>1, <2>1, <2>2
  <1>4. QED  BY <1>1, <1>2, <1>3

LEMMA PostGivenUpKeeps ==
    ASSUME PageInv, PostGivenUp, page.post.pc = "sent"
    PROVE  PageInv' /\ Paints(page, page')
  <1> DEFINE n == page.unheard + 1
             post == [page.post EXCEPT !.pc = "wait", !.job = NoJob]
             p == [page EXCEPT !.post = post, !.unheard = n]
  <1>1. page \in Pages /\ page.post \in Posts /\ page.unheard \in Nat /\ n \in Nat
    BY DEF PageInv, PageOK, Good, Weak, Pages
  <1>2. page' = MarkDown(p)
    BY <1>1 DEF PostGivenUp, Pages
  <1>3. post \in Posts /\ post.job = NoJob /\ post.pc = "wait"
    BY <1>1 DEF Posts
  <1> HIDE DEF post, n
  <1>4. /\ p \in Pages /\ p.hash = page.hash /\ p.known = page.known
        /\ p.polls = page.polls /\ p.post = post /\ p.shown = page.shown /\ p.base = page.base
        /\ p.chosen = page.chosen /\ p.during = page.during /\ p.check = page.check
        /\ p.unheard = n
        /\ p.probe = page.probe /\ p.explicit = page.explicit /\ p.own = page.own
    BY <1>1, <1>3 DEF Pages
  <1> HIDE DEF p
  <1>5. Good(p)
    BY <1>3, <1>4, TicketAssumption
       DEF PageInv, PageOK, Good, Weak, ShownOK, PollsOK, PollOK, KnownOK, Begun, Follows
  <1>6. PICK c : c = page'
    OBVIOUS
  <1>7. Good(c) /\ Kept(p, c) /\ c.shown = p.shown
    BY <1>2, <1>5, <1>6, MarkDownIs
  <1>8. GoesOn
    BY Unmoved DEF PageInv, PostGivenUp, serverVars
  <1>9. Good(c)'
    BY <1>7, <1>8, GoodGoesOn DEF PageInv
  <1>10. PageOK'
    BY <1>4, <1>6, <1>7, <1>9
       DEF PageInv, PageOK, ChoiceOK, Kept, Good, Weak, Follows, ShownOK, PollsOK, PollOK, KnownOK
  <1>11. CountOK'
    <2>1. /\ page'.unheard = page.unheard + 1 /\ page'.known = page.known /\ page'.post.job = NoJob
      BY <1>3, <1>4, <1>6, <1>7 DEF Kept, n
    <2>2. CASE page.post.job = NoJob
      <3>1. Missing(page)' = Missing(page) /\ strays' = strays + 1 /\ mine' = mine
        BY <2>1, <2>2 DEF Missing, PostGivenUp
      <3>2. QED  BY <3>1, <2>1, <1>1, MissingIsFinite DEF PageInv, CountOK
    <2>3. CASE page.post.job # NoJob
      <3>1. Missing(page)' \subseteq Missing(page) \cup {page.post.job} /\ strays' = strays /\ mine' = mine
        BY <2>1, <2>3 DEF Missing, PostGivenUp
      <3>2. Cardinality(Missing(page)') \in Nat /\ Cardinality(Missing(page)') <= Cardinality(Missing(page)) + 1
        BY <3>1, MissingIsFinite
      <3>3. QED  BY <3>1, <3>2, <2>1, <1>1, MissingIsFinite DEF PageInv, CountOK
    <2>4. QED  BY <2>2, <2>3
  <1>12. Paints(page, page')
    BY <1>4, <1>6, <1>7 DEF Paints
  <1>13. QED  BY <1>8, <1>10, <1>11, <1>12 DEF PageInv, GoesOn

LEMMA PostBreaksKeeps ==
    ASSUME PageInv, PostBreaks
    PROVE  PageInv' /\ Paints(page, page')
  <1> DEFINE n == page.unheard + 1
             p == [page EXCEPT !.post = NoPost, !.unheard = n]
  <1>1. page \in Pages /\ page.unheard \in Nat /\ n \in Nat
    BY DEF PageInv, PageOK, Good, Weak, Pages
  <1>2. page' = p /\ UNCHANGED <<serverVars, up, strays, mine>>
    BY DEF PostBreaks, Page
  <1> HIDE DEF n
  <1>3. /\ p \in Pages /\ p.hash = page.hash /\ p.known = page.known
        /\ p.polls = page.polls /\ p.post = NoPost /\ p.shown = page.shown /\ p.base = page.base
        /\ p.chosen = page.chosen /\ p.during = page.during /\ p.check = page.check
        /\ p.unheard = n
        /\ p.probe = page.probe /\ p.explicit = page.explicit /\ p.own = page.own
    BY <1>1, NoPostIs DEF Pages
  <1> HIDE DEF p
  <1>4. Good(p)
    BY <1>3, NoPostIs, TicketAssumption
       DEF PageInv, PageOK, Good, Weak, ShownOK, PollsOK, PollOK, KnownOK, Begun, Follows
  <1>5. PICK c : c = page'
    OBVIOUS
  <1>6. GoesOn
    BY <1>2, Unmoved DEF PageInv, serverVars
  <1>7. Good(c)'
    BY <1>2, <1>4, <1>5, <1>6, GoodGoesOn DEF PageInv
  <1>8. PageOK'
    BY <1>2, <1>3, <1>5, <1>7
       DEF PageInv, PageOK, ChoiceOK, Good, Weak, Follows, ShownOK, PollsOK, PollOK, KnownOK
  <1>9. CountOK'
    <2>1. page'.unheard = page.unheard + 1 /\ page'.known = page.known /\ page'.post.job = NoJob
      BY <1>2, <1>3, NoPostIs DEF n
    <2>2. Missing(page)' \subseteq Missing(page) \cup {page.post.job} /\ strays' = strays /\ mine' = mine
      BY <1>2, <2>1 DEF Missing
    <2>3. Cardinality(Missing(page)') \in Nat /\ Cardinality(Missing(page)') <= Cardinality(Missing(page)) + 1
      BY <2>2, MissingIsFinite
    <2>4. QED  BY <2>1, <2>2, <2>3, <1>1, MissingIsFinite DEF PageInv, CountOK
  <1>10. Paints(page, page')
    BY <1>2, <1>3 DEF Paints
  <1>11. QED  BY <1>6, <1>8, <1>9, <1>10 DEF PageInv, GoesOn

LEMMA PostIsTakenKeeps ==
    ASSUME PageInv, NEW j \in Jobs, PostIsTaken(j)
    PROVE  PageInv' /\ Paints(page, page')
  <1> DEFINE post == [page.post EXCEPT !.job = j]
             p == [page EXCEPT !.post = post]
  <1>1. /\ page \in Pages /\ page.post \in Posts /\ page.unheard \in Nat
        /\ page.post.pc = "sent" /\ page.post.job = NoJob
    BY DEF PageInv, PageOK, Good, Weak, Pages, PostIsTaken
  <1>2. page' = p
    BY <1>1 DEF PostIsTaken, Pages
  <1>3. post \in Posts /\ post.job = j /\ post.pc = "sent"
    BY <1>1 DEF Posts
  <1> HIDE DEF post
  <1>4. /\ p \in Pages /\ p.hash = page.hash /\ p.known = page.known
        /\ p.polls = page.polls /\ p.post = post /\ p.shown = page.shown /\ p.base = page.base
        /\ p.chosen = page.chosen /\ p.during = page.during /\ p.check = page.check
        /\ p.unheard = page.unheard
        /\ p.probe = page.probe /\ p.explicit = page.explicit /\ p.own = page.own
    BY <1>1, <1>3 DEF Pages
  <1> HIDE DEF p
  <1>5. GoesOn
    BY JobStepGoesOn DEF PageInv, PostIsTaken
  <1>6. Begun(j)'
    BY JobsAreCalls DEF Begun, PostIsTaken, Accept, Goto, PageInv, ServerOK
  <1>7. PICK b, c : b = page /\ c = page'
    OBVIOUS
  <1>8. Good(b)'
    BY <1>5, <1>7, GoodGoesOn DEF PageInv, PageOK
  <1>9. Good(c)'
    BY <1>2, <1>3, <1>4, <1>6, <1>7, <1>8 DEF Good, Weak, ShownOK, PollsOK, PollOK, KnownOK, Follows
  <1>10. PageOK'
    BY <1>2, <1>4, <1>7, <1>9
       DEF PageInv, PageOK, ChoiceOK, Good, Weak, Follows, ShownOK, PollsOK, PollOK, KnownOK
  <1>11. CountOK'
    <2>1. page'.unheard = page.unheard /\ page'.known = page.known /\ page'.post.job = j
      BY <1>2, <1>3, <1>4
    <2>2. mine' = mine \cup {j} /\ strays' = strays
      BY DEF PostIsTaken
    <2>3. Missing(page)' \subseteq Missing(page)
      BY <1>1, <2>1, <2>2, TicketAssumption DEF Missing, PageInv, CountOK
    <2>4. IsFiniteSet(mine')
      BY <2>2, FS_AddElement DEF PageInv, CountOK
    <2>5. Cardinality(Missing(page)') \in Nat /\ Cardinality(Missing(page)') <= Cardinality(Missing(page))
      BY <2>3, MissingIsFinite
    <2>6. QED  BY <1>1, <2>1, <2>2, <2>4, <2>5, MissingIsFinite DEF PageInv, CountOK
  <1>12. Paints(page, page')
    BY <1>2, <1>4 DEF Paints
  <1>13. QED  BY <1>5, <1>10, <1>11, <1>12 DEF PageInv, GoesOn

LEMMA StrayIsTakenKeeps ==
    ASSUME PageInv, NEW j \in Jobs, StrayIsTaken(j)
    PROVE  PageInv' /\ Paints(page, page')
  <1>1. GoesOn
    BY JobStepGoesOn DEF PageInv, StrayIsTaken
  <1>2. PICK c : c = page
    OBVIOUS
  <1>3. Good(c)'
    BY <1>1, <1>2, GoodGoesOn DEF PageInv, PageOK
  <1>4. page' = page /\ strays > 0 /\ strays' = strays - 1 /\ mine' = mine \cup {j}
    BY DEF StrayIsTaken
  <1>5. PageOK'
    BY <1>2, <1>3, <1>4 DEF PageInv, PageOK, ChoiceOK, Good, Weak, Follows, ShownOK, PollsOK, PollOK, KnownOK
  <1>6. CountOK'
    <2>1. Missing(page)' \subseteq Missing(page) \cup {j}
      BY <1>4 DEF Missing
    <2>2. IsFiniteSet(mine')
      BY <1>4, FS_AddElement DEF PageInv, CountOK
    <2>3. Cardinality(Missing(page)') \in Nat /\ Cardinality(Missing(page)') <= Cardinality(Missing(page)) + 1
      BY <2>1, MissingIsFinite
    <2>4. page.unheard \in Nat
      BY DEF PageInv, PageOK, Good, Weak, Pages
    <2>5. QED  BY <1>4, <2>2, <2>3, <2>4, MissingIsFinite DEF PageInv, CountOK
  <1>7. QED  BY <1>1, <1>4, <1>5, <1>6 DEF PageInv, GoesOn, Paints

(* The theorems *)

LEMMA ClientInit == InitServer /\ InitClient => PageInv
  <1> SUFFICES ASSUME InitServer, InitClient PROVE PageInv
    OBVIOUS
  <1> DEFINE polls == [s \in Slots |-> Free]
             shown == [job |-> NoJob, status |-> "none"]
  <1>1. polls \in [Slots -> Polls] /\ \A s \in Slots : polls[s] = Free
    BY FreeIs
  <1>2. shown \in [job : Tickets \cup {NoJob}, status : Statuses] /\ shown.job = NoJob
    BY DEF Statuses
  <1>3. PICK explicit \in BOOLEAN, base \in {"name", "local"} :
          /\ base = "local" => explicit
          /\ page = [explicit |-> explicit, probe |-> "asking", hash |-> NoJob, base |-> base,
                     chosen |-> base, during |-> {}, down |-> FALSE, recheck |-> FALSE,
                     check |-> "none", asked |-> "name", post |-> NoPost,
                     polls |-> polls, timer |-> FALSE, finished |-> FALSE,
                     shown |-> shown, known |-> {},
                     own |-> "none", hung |-> {}, unheard |-> 0]
    BY DEF InitClient
  <1> HIDE DEF polls, shown
  <1>4. /\ page.explicit = explicit /\ page.base = base /\ page.chosen = base /\ page.hash = NoJob
        /\ page.post = NoPost /\ page.polls = polls /\ page.shown = shown /\ page.known = {}
        /\ page.check = "none" /\ page.unheard = 0
    BY <1>3
  <1>5. page \in Pages
    BY <1>1, <1>2, <1>3, NoPostIs DEF Pages, Bases, Checks
  <1>6. ServerOK
    BY DEF InitServer, ServerOK, Wheres
  <1>7. NoJob \notin Tickets
    BY TicketAssumption DEF Tickets, NoJob, InPage
  <1>8. ShownOK(page)
    BY <1>4, <1>2, <1>7 DEF ShownOK, Begun, Tickets
  <1>9. PollsOK(page) /\ Follows(page)
    BY <1>1, <1>4, FreeIs DEF PollsOK, Follows
  <1>10. KnownOK(page)
    BY <1>4, <1>7, NoPostIs DEF KnownOK, Begun, Tickets
  <1>11. ChoiceOK(page)
    BY <1>3, <1>4 DEF ChoiceOK
  <1>12. CountOK
    <2>1. mine = {} /\ strays = 0
      BY DEF InitClient
    <2>2. Missing(page) = {}
      BY <2>1 DEF Missing
    <2>3. QED  BY <1>4, <2>1, <2>2, FS_EmptySet DEF CountOK
  <1>13. QED  BY <1>5, <1>6, <1>8, <1>9, <1>10, <1>11, <1>12 DEF PageInv, PageOK, Good, Weak

LEMMA PageStepKeeps == ASSUME PageInv, PageStep PROVE PageInv' /\ Paints(page, page')
  <1>1. PageOK
    BY DEF PageInv
  <1>2. CASE TimerFires
    BY <1>1, <1>2, PollNowIs, OutcomeKeeps DEF TimerFires, Alone, Page, serverVars
  <1>3. CASE RecheckFires
    BY <1>1, <1>3, RecheckFiresIs, OutcomeKeeps DEF RecheckFires, Alone, Page, serverVars
  <1>4. CASE FirstCheckEnds
    BY <1>1, <1>4, FirstCheckIs, OutcomeKeeps DEF FirstCheckEnds, Alone, Page, serverVars
  <1>5. CASE SecondCheckEnds
    BY <1>1, <1>5, SecondCheckIs, OutcomeKeeps DEF SecondCheckEnds, Alone, Page, serverVars
  <1>6. ASSUME NEW s \in Slots, PollResumes(s) PROVE PageInv' /\ Paints(page, page')
    BY <1>1, <1>6, PollResumesIs, OutcomeKeeps DEF PollResumes, Alone, Page, serverVars
  <1>7. ASSUME NEW s \in Slots, PollIsAnswered(s) PROVE PageInv' /\ Paints(page, page')
    BY <1>1, <1>7, PollIsAnsweredIs, OutcomeKeeps DEF PollIsAnswered, Alone, Page, serverVars
  <1>8. ASSUME NEW s \in Slots, PollArrives(s) PROVE PageInv' /\ Paints(page, page')
    BY <1>1, <1>8, PollArrivesIs, OutcomeKeeps DEF PollArrives, Alone, Page, serverVars
  <1>9. ASSUME NEW s \in Slots, PollFails(s) PROVE PageInv' /\ Paints(page, page')
    BY <1>1, <1>9, GivenUpIs, OutcomeKeeps DEF PollFails, Alone, Page, serverVars
  <1>10. CASE PostResumes
    BY <1>1, <1>10, PostResumesIs, OutcomeKeeps DEF PostResumes, Alone, Page, serverVars
  <1>11. CASE PostArrives
    BY <1>1, <1>11, PostArrivesIs, OutcomeKeeps DEF PostArrives, Alone, Page, serverVars
  <1>12. CASE PostFails
    BY <1>12, PostGivenUpKeeps DEF PostFails
  <1>13. ASSUME NEW j \in Jobs, PostIsTaken(j) PROVE PageInv' /\ Paints(page, page')
    BY <1>13, PostIsTakenKeeps
  <1>14. CASE PostIsAnswered
    BY <1>1, <1>14, PostIsAnsweredIs, OutcomeKeeps DEF PostIsAnswered, Alone, Page, serverVars
  <1>15. ASSUME NEW yes \in BOOLEAN, ProbeEnds(yes) PROVE PageInv' /\ Paints(page, page')
    BY <1>1, <1>15, ProbeEndsIs, OutcomeKeeps DEF ProbeEnds, Alone, Page, serverVars
  <1>16. QED
    BY <1>2, <1>3, <1>4, <1>5, <1>6, <1>7, <1>8, <1>9, <1>10, <1>11, <1>12, <1>13, <1>14, <1>15
       DEF PageStep

LEMMA OtherStepKeeps == ASSUME PageInv, UserStep \/ NetworkStep PROVE PageInv' /\ Paints(page, page')
  <1>1. PageOK
    BY DEF PageInv
  <1>2. CASE Send
    BY <1>1, <1>2, SendIs, OutcomeKeeps DEF Send, Page, serverVars
  <1>3. CASE LookAgain
    BY <1>1, <1>3, PollNowIs, OutcomeKeeps DEF LookAgain, Page, serverVars
  <1>4. ASSUME NEW h \in page.known \cup {NoJob}, Navigate(h) PROVE PageInv' /\ Paints(page, page')
    BY <1>1, <1>4, NavigateIs, OutcomeKeeps DEF Navigate, Page, serverVars
  <1>5. ASSUME NEW b \in {"name", "local"}, Choose(b) PROVE PageInv' /\ Paints(page, page')
    BY <1>1, <1>5, ChooseIs, OutcomeKeeps DEF Choose, Page, serverVars
  <1>6. ASSUME NEW s \in Slots, PollTimesOut(s) PROVE PageInv' /\ Paints(page, page')
    BY <1>1, <1>6, GivenUpIs, OutcomeKeeps DEF PollTimesOut, Page, serverVars
  <1>7. CASE PostTimesOut
    BY <1>7, PostGivenUpKeeps DEF PostTimesOut
  <1>8. ASSUME NEW j \in Jobs, StrayIsTaken(j) PROVE PageInv' /\ Paints(page, page')
    BY <1>8, StrayIsTakenKeeps
  <1>9. ASSUME NEW a \in Addresses, Outage(a) PROVE PageInv' /\ Paints(page, page')
    BY <1>9, Unmoved, AgainKeeps DEF Outage, PageInv, serverVars
  <1>10. ASSUME NEW s \in Slots, PollBreaks(s) PROVE PageInv' /\ Paints(page, page')
    BY <1>1, <1>10, PollBreaksIs, OutcomeKeeps DEF PollBreaks, Page, serverVars
  <1>11. ASSUME NEW s \in Slots, PollHangs(s) PROVE PageInv' /\ Paints(page, page')
    BY <1>1, <1>11, PollHangsIs, OutcomeKeeps DEF PollHangs, Page, serverVars
  <1>12. CASE PostBreaks
    BY <1>12, PostBreaksKeeps
  <1>13. ASSUME NEW what \in {"probe", "post", "own"}, NeverEnds(what) PROVE PageInv' /\ Paints(page, page')
    BY <1>1, <1>13, NeverEndsIs, OutcomeKeeps DEF NeverEnds, Page, serverVars
  <1>14. QED
    BY <1>2, <1>3, <1>4, <1>5, <1>6, <1>7, <1>8, <1>9, <1>10, <1>11, <1>12, <1>13
       DEF UserStep, NetworkStep

LEMMA ClientNext == ASSUME PageInv, [NextClient]_clientAll PROVE PageInv' /\ Paints(page, page')
  <1>1. CASE PageStep
    BY <1>1, PageStepKeeps
  <1>2. CASE UserStep \/ NetworkStep
    BY <1>2, OtherStepKeeps
  <1>3. CASE JobsGoOn
    BY <1>3, JobStepGoesOn, AgainKeeps DEF JobsGoOn, clientVars, PageInv
  <1>4. CASE ServerDies
    BY <1>4, CrashGoesOn, AgainKeeps DEF ServerDies, PageInv
  <1>5. ASSUME NEW a \in Addresses, Recover(a) PROVE PageInv' /\ Paints(page, page')
    BY <1>5, Unmoved, AgainKeeps DEF Recover, PageInv, serverVars
  <1>6. CASE UNCHANGED clientAll
    BY <1>6, Unmoved, AgainKeeps DEF clientAll, clientVars, PageInv, serverVars
  <1>7. ASSUME NEW status \in {"done", "failed"}, OwnBuildEnds(status) PROVE PageInv' /\ Paints(page, page')
    BY <1>7, OwnBuildEndsIs, OutcomeKeeps DEF OwnBuildEnds, Alone, Page, PageInv, serverVars
  <1>8. QED  BY <1>1, <1>2, <1>3, <1>4, <1>5, <1>6, <1>7 DEF NextClient, OwnBuild

LEMMA ClientInvariant == SpecClient => []PageInv
  <1>1. PageInv /\ [NextClient]_clientAll => PageInv'
    BY ClientNext
  <1>2. QED  BY ClientInit, <1>1, PTL DEF SpecClient

(***************************************************************************)
(* A build this page's post started is one the page has heard of, or one   *)
(* whose answer it did not get, whole: a post given up or a body that      *)
(* broke off costs one build each at the most (new.js submit, api.js       *)
(* timedFetch and apiRequest, server.js jobs).                             *)
(***************************************************************************)
THEOREM NoBuildGoesMissing == SpecClient => []NoBuildIsLost
  <1>1. PageInv => NoBuildIsLost
    <2> SUFFICES ASSUME PageInv PROVE NoBuildIsLost
      OBVIOUS
    <2>1. page.unheard \in Nat
      BY DEF PageInv, PageOK, Good, Weak, Pages
    <2>2. QED  BY <2>1, MissingIsFinite DEF PageInv, CountOK, NoBuildIsLost, Missing
  <1>2. QED  BY ClientInvariant, <1>1, PTL

(***************************************************************************)
(* A user who chose to build in the page is taken elsewhere only by a      *)
(* health check that was trying the server's other addresses just then, or *)
(* by the answer of the page's own server, if it had not said yet whether  *)
(* it is there (api.js checkHealth, apiReady, setApiBase).                 *)
(***************************************************************************)
THEOREM ChoiceIsKept == SpecClient => []ChoiceYieldsToAnswers
  <1>1. PageInv => ChoiceYieldsToAnswers
    BY DEF PageInv, PageOK, ChoiceOK, ChoiceYieldsToAnswers
  <1>2. QED  BY ClientInvariant, <1>1, PTL

(***************************************************************************)
(* In every step that paints the page, in whatever order posts and polls   *)
(* are answered, the answer is of the job in the address and does not take *)
(* it back to an earlier status, but for what a crash queues again         *)
(* (build.js poll).                                                        *)
(***************************************************************************)
THEOREM AnswersPaintInOrder == SpecClient => PaintsInOrder
  <1>1. PageInv /\ [NextClient]_clientAll => Paints(page, page')
    BY ClientNext
  <1>2. QED  BY ClientInvariant, <1>1, PTL DEF SpecClient, PaintsInOrder, Paints, InOrder
===============================================================================
