---------------------------- MODULE OverlayStore ----------------------------
(***************************************************************************)
(* The user's changes to the catalogue (the third part of overlay.js and   *)
(* overlay-consent.js): a list kept in localStorage while it is small and  *)
(* in IndexedDB behind a pointer when it is big, shared by the tabs of one *)
(* origin without a lock, and used only after this tab's user has made it, *)
(* or has agreed to it in a panel above the page.                          *)
(*                                                                         *)
(* A list of changes is one value: what an edit makes of it is left open.  *)
(***************************************************************************)
EXTENDS Naturals, FiniteSets, SequencesExt

CONSTANTS
    Tabs,       \* the tabs whose pages are followed in full
    Elsewhere,  \* other tabs, followed as far as what they save
    Lists,      \* the lists of changes there may be
    Empty,      \* the list without a change
    Big,        \* the lists of more than STORE_LS_MAX characters
    PageOwn,    \* [Tabs -> Lists], what `Save this page' has built in
    MaxSaves,   \* bound: saves of one tab under way at once
    MaxFaults   \* bound: refusals by the browser's storage, and reloads

None == "none"
Pointer == "pointer"
Writers == Tabs \cup Elsewhere

ASSUME OverlayAssumption ==
    /\ Empty \in Lists \ Big
    /\ {None, Pointer} \cap Lists = {}
    /\ PageOwn \in [Tabs -> Lists]
    /\ Tabs \cap Elsewhere = {}
    /\ MaxSaves \in Nat /\ MaxFaults \in Nat

VARIABLES
    ls,         \* localStorage: None, a list, or Pointer
    db,         \* IndexedDB: None or a list
    queue,      \* operations of all tabs on IndexedDB, in the order they were asked for
    saves,      \* writeStored calls under way in each tab, in order
    load,       \* where loadOverlay is
    heard,      \* a `storage' event is on its way to this tab
    changes,    \* state.changes, in use
    pending,    \* state.pending, found in storage and not in use
    consent,    \* state.consent
    memory,     \* state.storage is 'memory': nothing is saved any more
    answered,   \* `answered': what was said, about which list
    refused,    \* sessionStorage: the list `Not now' was said to, or None
    panel,      \* the list the panel shows, Empty when it is hidden
    click,      \* an answer that waits for loadOverlay
    own,        \* lists this page load's user made, or saw and agreed to
    blind,      \* an answer waited for a load of what it did not show
    last,       \* the list the latest save is about
    before,     \* what was stored when that save began
    overlapped, \* another save was under way when it began
    cut,        \* it was refused, or its page went away
    faults

shared == <<ls, db, queue>>
gate == <<changes, pending, consent, answered, refused, own, blind>>
ghosts == <<last, before, overlapped, cut>>
vars == <<shared, saves, load, heard, gate, memory, panel, click, ghosts, faults>>

----------------------------------------------------------------------------
Stored == IF ls = Pointer THEN db ELSE IF ls = None THEN Empty ELSE ls

InFlight == (\E w \in Writers : saves[w] # <<>>) \/ \E i \in DOMAIN queue : queue[i].op # "get"

\* The elements of s that are in S, as far as each place of s.
OnlyUpTo(s, S) ==
    LET only[n \in 0..Len(s)] ==
            IF n = 0 THEN <<>> ELSE IF s[n] \in S THEN Append(only[n - 1], s[n]) ELSE only[n - 1]
    IN  only
Only(s, S) == OnlyUpTo(s, S)[Len(s)]

NoAnswer == [said |-> None, list |-> Empty]
Op(w, op, l) == [by |-> w, op |-> op, list |-> l]

Init == /\ ls = None /\ db = None /\ queue = <<>>
        /\ saves = [w \in Writers |-> <<>>]
        /\ load = [t \in Tabs |-> "catalogue"]
        /\ heard = [t \in Tabs |-> FALSE]
        /\ changes = [t \in Tabs |-> Empty]
        /\ pending = [t \in Tabs |-> Empty]
        /\ consent = [t \in Tabs |-> "yes"]
        /\ memory = [t \in Tabs |-> FALSE]
        /\ answered = [t \in Tabs |-> NoAnswer]
        /\ refused = [t \in Tabs |-> None]
        /\ panel = [t \in Tabs |-> Empty]
        /\ click = [t \in Tabs |-> None]
        /\ own = [t \in Tabs |-> {Empty, PageOwn[t]}]
        /\ blind = [t \in Tabs |-> FALSE]
        /\ last = Empty /\ before = Empty
        /\ overlapped = FALSE /\ cut = FALSE /\ faults = 0

\* The panel after emit(): what is asked about, if anything is.
Emit(t) == panel' = [panel EXCEPT ![t] = IF consent'[t] = "ask" THEN pending'[t] ELSE Empty]

\* localStorage is set, and the other tabs' events are on their way if it
\* changed.  Setting it to what it was fires none.
SetLs(w, x) ==
    /\ ls' = x
    /\ heard' = [t \in Tabs |-> heard[t] \/ (t # w /\ x # ls)]

----------------------------------------------------------------------------
(* Answers. *)

\* The answer is about one list, and outlives the page only if it is no.
Remember(t, a, l) ==
    /\ answered' = [answered EXCEPT ![t] = [said |-> a, list |-> l]]
    /\ refused' = [refused EXCEPT ![t] = IF a = "no" THEN l ELSE None]

\* Mutant: an answer counts for any list.
SessionAnswerToAny(t, l) ==
    IF answered[t] # NoAnswer THEN answered[t].said ELSE IF refused[t] = l THEN "no" ELSE "ask"

\* What this session has said about exactly this list.
SessionAnswer(t, l) ==
    IF l = Empty THEN "yes"
    ELSE IF answered[t] # NoAnswer /\ answered[t].list = l THEN answered[t].said
    ELSE IF refused[t] = l THEN "no" ELSE "ask"

\* answerStored, once loadOverlay is over.
Answer(t, use) ==
    /\ IF consent[t] = "yes"
         THEN UNCHANGED <<changes, pending, consent, answered, refused, panel>>
         ELSE /\ Remember(t, IF use THEN "yes" ELSE "no", pending[t])
              /\ consent' = [consent EXCEPT ![t] = IF use THEN "yes" ELSE "no"]
              /\ changes' = [changes EXCEPT ![t] = IF use THEN pending[t] ELSE @]
              /\ pending' = [pending EXCEPT ![t] = IF use THEN Empty ELSE @]
              /\ Emit(t)

----------------------------------------------------------------------------
(* loadOverlay. *)

\* The overlay is loaded with list l, found in storage.
Found(t, l) ==
    LET a == SessionAnswer(t, l)
    IN /\ consent' = [consent EXCEPT ![t] = a]
       /\ changes' = [changes EXCEPT ![t] = IF a = "yes" THEN l ELSE Empty]
       /\ pending' = [pending EXCEPT ![t] = IF a = "yes" THEN Empty ELSE l]

\* The refreshed catalogue has been read; what was in use is dropped, then
\* localStorage is looked at.
ReadLs(t) ==
    /\ load[t] = "catalogue"
    /\ IF ls = Pointer
         THEN /\ load' = [load EXCEPT ![t] = "read"]
              /\ queue' = Append(queue, Op(t, "get", Empty))
              /\ changes' = [changes EXCEPT ![t] = Empty]
              /\ pending' = [pending EXCEPT ![t] = Empty]
              /\ consent' = [consent EXCEPT ![t] = "yes"]
              /\ UNCHANGED panel
         ELSE /\ load' = [load EXCEPT ![t] = "loaded"]
              /\ IF ls = None
                   THEN /\ changes' = [changes EXCEPT ![t] = PageOwn[t]]
                        /\ pending' = [pending EXCEPT ![t] = Empty]
                        /\ consent' = [consent EXCEPT ![t] = "yes"]
                   ELSE Found(t, ls)
              /\ Emit(t)
              /\ UNCHANGED queue
    /\ UNCHANGED <<ls, db, saves, heard, answered, refused, own, blind, memory, click, ghosts, faults>>

\* What IndexedDB has, or its refusal, arrives.  Nothing behind the pointer is
\* taken for a browser that keeps no data.
GetDb(t) ==
    /\ queue # <<>> /\ Head(queue) = Op(t, "get", Empty)
    /\ queue' = Tail(queue)
    /\ load' = [load EXCEPT ![t] = "loaded"]
    /\ \E refuse \in {FALSE, faults < MaxFaults} :
          /\ faults' = faults + (IF refuse THEN 1 ELSE 0)
          /\ IF db = None \/ refuse
               THEN /\ memory' = [memory EXCEPT ![t] = TRUE]
                    /\ changes' = [changes EXCEPT ![t] = PageOwn[t]]
                    /\ UNCHANGED <<pending, consent>>
               ELSE Found(t, db) /\ UNCHANGED memory
    /\ Emit(t)
    /\ UNCHANGED <<ls, db, saves, heard, answered, refused, own, blind, click, ghosts>>

\* A `storage' event: the overlay is loaded again, if it is loaded.
Hear(t) ==
    /\ heard[t]
    /\ heard' = [heard EXCEPT ![t] = FALSE]
    /\ load' = [load EXCEPT ![t] = IF @ = "loaded" THEN "catalogue" ELSE @]
    /\ UNCHANGED <<shared, saves, gate, memory, panel, click, ghosts, faults>>

----------------------------------------------------------------------------
(* Saves. *)

\* persist(), after a write that worked, or one that was refused.
Persisted(t) ==
    /\ consent' = [consent EXCEPT ![t] = "yes"]
    /\ pending' = [pending EXCEPT ![t] = Empty]
    /\ memory' = [memory EXCEPT ![t] = FALSE]
    /\ Remember(t, "yes", changes[t])
    /\ Emit(t)
    /\ UNCHANGED <<changes, own, blind>>
Refused(t) ==
    /\ memory' = [memory EXCEPT ![t] = TRUE]
    /\ UNCHANGED gate
    /\ Emit(t)

After(w, ok) == IF w \notin Tabs THEN UNCHANGED <<gate, memory, panel>>
                ELSE IF ok THEN Persisted(w) ELSE Refused(w)

\* The ghosts of a save that begins, and may be over at once.
Begins(l, refusedAtOnce) ==
    /\ last' = l
    /\ overlapped' = InFlight
    /\ before' = IF InFlight THEN before ELSE Stored
    /\ cut' = (refusedAtOnce \/ (cut /\ InFlight))

\* Mutant: the pointer is written before what it points to.
WritePointerFirst(w, l) ==
    IF l \in Big
      THEN /\ SetLs(w, Pointer)
           /\ queue' = Append(queue, Op(w, "put", l))
           /\ saves' = [saves EXCEPT ![w] = Append(@, "put")]
      ELSE /\ SetLs(w, l)
           /\ queue' = Append(queue, Op(w, "delete", Empty))
           /\ saves' = [saves EXCEPT ![w] = Append(@, "delete")]

\* writeStored as far as its first await.
Write(w, l) ==
    IF l \in Big
      THEN /\ queue' = Append(queue, Op(w, "put", l))
           /\ saves' = [saves EXCEPT ![w] = Append(@, "put")]
           /\ UNCHANGED <<ls, heard>>
      ELSE /\ SetLs(w, l)
           /\ queue' = Append(queue, Op(w, "delete", Empty))
           /\ saves' = [saves EXCEPT ![w] = Append(@, "delete")]

\* localStorage takes the list, or it is a big one; or it refuses a small one,
\* and nothing is asked of IndexedDB.
WriteBegins(w, l) == Begins(l, FALSE) /\ Write(w, l) /\ UNCHANGED faults
WriteRefused(w, l) ==
    /\ l \notin Big /\ faults < MaxFaults /\ faults' = faults + 1
    /\ Begins(l, TRUE)
    /\ UNCHANGED <<ls, queue, saves, heard>>

\* setChanges, putChange, editChanges, revertChange: they wait for loadOverlay,
\* set aside what is not answered, and save the list they make.
Edit(t) ==
    /\ load[t] = "loaded" /\ Len(saves[t]) < MaxSaves
    /\ \E l \in Lists :
          /\ changes' = [changes EXCEPT ![t] = l]
          /\ own' = [own EXCEPT ![t] = @ \cup {l}]
          /\ consent' = [consent EXCEPT ![t] = IF @ = "ask" THEN "no" ELSE @]
          /\ UNCHANGED <<pending, answered, refused, blind, load, click, db>>
          /\ IF memory[t]
               THEN /\ Emit(t)
                    /\ UNCHANGED <<ls, queue, saves, heard, ghosts, memory, faults>>
               ELSE \/ WriteBegins(t, l) /\ UNCHANGED <<panel, memory>>
                    \/ WriteRefused(t, l) /\ memory' = [memory EXCEPT ![t] = TRUE] /\ Emit(t)

EditElsewhere(w) ==
    /\ Len(saves[w]) < MaxSaves
    /\ \E l \in Lists : WriteBegins(w, l) \/ WriteRefused(w, l)
    /\ UNCHANGED <<db, load, gate, memory, panel, click>>

\* The save of w that is at p goes on to q, or is over.
Goes(w, p, q) ==
    \E i \in DOMAIN saves[w] :
       /\ saves[w][i] = p /\ \A j \in 1..(i - 1) : saves[w][j] # p
       /\ saves' = [saves EXCEPT ![w] = IF q = "over" THEN RemoveAt(@, i) ELSE [@ EXCEPT ![i] = q]]

\* IndexedDB has put a big list: the pointer comes next.
PutDb(w) ==
    /\ queue # <<>> /\ Head(queue).by = w /\ Head(queue).op = "put"
    /\ db' = Head(queue).list
    /\ queue' = Tail(queue)
    /\ IF \E i \in DOMAIN saves[w] : saves[w][i] = "put" THEN Goes(w, "put", "point") ELSE UNCHANGED saves
    /\ UNCHANGED <<ls, load, heard, gate, memory, panel, click, ghosts, faults>>

PointAfterPut(w) ==
    /\ Goes(w, "point", "over")
    /\ SetLs(w, Pointer)
    /\ After(w, TRUE)
    /\ UNCHANGED <<db, queue, load, click, ghosts, faults>>

\* IndexedDB has deleted the list that a small one replaces.
DeleteDb(w) ==
    /\ queue # <<>> /\ Head(queue).by = w /\ Head(queue).op = "delete"
    /\ db' = None
    /\ queue' = Tail(queue)
    /\ IF \E i \in DOMAIN saves[w] : saves[w][i] = "delete"
         THEN Goes(w, "delete", "over") /\ After(w, TRUE)
         ELSE UNCHANGED <<saves, gate, memory, panel>>
    /\ UNCHANGED <<ls, load, heard, click, ghosts, faults>>

\* The browser refuses one call: the delete of nothing much is passed over.
Refuses(w) ==
    /\ faults < MaxFaults /\ faults' = faults + 1
    /\ \/ /\ queue # <<>> /\ Head(queue).by = w /\ Head(queue).op = "put"
          /\ Goes(w, "put", "over") /\ queue' = Tail(queue)
          /\ cut' = TRUE /\ After(w, FALSE)
       \/ /\ queue # <<>> /\ Head(queue).by = w /\ Head(queue).op = "delete"
          /\ Goes(w, "delete", "over") /\ queue' = Tail(queue)
          /\ After(w, TRUE) /\ UNCHANGED cut
       \/ /\ Goes(w, "point", "over")
          /\ cut' = TRUE /\ After(w, FALSE) /\ UNCHANGED queue
    /\ UNCHANGED <<ls, db, load, heard, click, last, before, overlapped>>

----------------------------------------------------------------------------
(* The panel, and the page itself. *)

\* A button of the panel.  The answer is about what has been loaded by the
\* time it counts.
Click(t) ==
    /\ panel[t] # Empty /\ click[t] = None
    /\ \E use \in BOOLEAN :
          /\ own' = [own EXCEPT ![t] = IF use THEN @ \cup {panel[t]} ELSE @]
          /\ IF load[t] = "loaded"
               THEN Answer(t, use) /\ UNCHANGED <<click, blind>>
               ELSE /\ click' = [click EXCEPT ![t] = IF use THEN "yes" ELSE "no"]
                    /\ blind' = [blind EXCEPT ![t] = @ \/ use]
                    /\ UNCHANGED <<changes, pending, consent, answered, refused, panel>>
    /\ UNCHANGED <<shared, saves, load, heard, memory, ghosts, faults>>

LateAnswer(t) ==
    /\ click[t] # None /\ load[t] = "loaded"
    /\ Answer(t, click[t] = "yes")
    /\ click' = [click EXCEPT ![t] = None]
    /\ UNCHANGED <<shared, saves, load, heard, own, blind, memory, ghosts, faults>>

\* The page is loaded again: what it had asked of IndexedDB may still happen,
\* sessionStorage stays.
Reload(t) ==
    /\ faults < MaxFaults /\ faults' = faults + 1
    /\ queue' \in {Only(queue, {o \in ToSet(queue) : o.by # t}),
                   Only(queue, {o \in ToSet(queue) : o.by # t \/ o.op # "get"})}
    /\ saves' = [saves EXCEPT ![t] = <<>>]
    /\ cut' = (cut \/ saves[t] # <<>>)
    /\ load' = [load EXCEPT ![t] = "catalogue"]
    /\ heard' = [heard EXCEPT ![t] = FALSE]
    /\ changes' = [changes EXCEPT ![t] = Empty]
    /\ pending' = [pending EXCEPT ![t] = Empty]
    /\ consent' = [consent EXCEPT ![t] = "yes"]
    /\ memory' = [memory EXCEPT ![t] = FALSE]
    /\ answered' = [answered EXCEPT ![t] = NoAnswer]
    /\ panel' = [panel EXCEPT ![t] = Empty]
    /\ click' = [click EXCEPT ![t] = None]
    /\ own' = [own EXCEPT ![t] = {Empty, PageOwn[t]}]
    /\ blind' = [blind EXCEPT ![t] = FALSE]
    /\ UNCHANGED <<ls, db, refused, last, before, overlapped>>

\* A waiting answer runs in the same turn as the end of loadOverlay.
Due == {t \in Tabs : click[t] # None /\ load[t] = "loaded"}

Next == \/ \E t \in Due : LateAnswer(t)
        \/ /\ Due = {}
           /\ \/ \E t \in Tabs : \/ ReadLs(t) \/ GetDb(t) \/ Hear(t)
                                 \/ Edit(t) \/ Click(t) \/ Reload(t)
              \/ \E w \in Elsewhere : EditElsewhere(w)
              \/ \E w \in Writers : PutDb(w) \/ PointAfterPut(w) \/ DeleteDb(w) \/ Refuses(w)

Spec == Init /\ [][Next]_vars

----------------------------------------------------------------------------
\* `A different set of changes appearing later in the session is asked about
\* again': what is in use was made here, built into the page, or agreed to as
\* the panel showed it, unless an answer was given while the overlay was being
\* loaded again.
UsedIsAnsweredOrBlind == \A t \in Tabs : changes[t] \in own[t] \/ blind[t]

\* The same without the exception.
UsedIsAnswered == \A t \in Tabs : changes[t] \in own[t]

\* A save that no other overlaps leaves what it saved, and one that is refused
\* or whose page goes away leaves that or what was there: never a pointer to
\* nothing.
SaveIsOldOrNew == ~InFlight /\ ~overlapped => Stored = last \/ (cut /\ Stored = before)

=============================================================================
