-------------------------- MODULE OverlayStoreProofs --------------------------
(***************************************************************************)
(* Proofs about the page's own records and the form they are made with,    *)
(* for any number of tabs, lists of changes, saves, refusals, places and   *)
(* templates: what a page uses was made in it, built into it, or agreed to *)
(* as its panel showed it, unless an answer waited for a load; one save    *)
(* leaves the old list or the new one, whatever fails; and what a form     *)
(* sends is what was meant and where the page said it would go.            *)
(***************************************************************************)
EXTENDS OverlayStore, NewPage, WellFoundedInduction, TLAPS

(***************************************************************************)
(* OverlayStore, what is used. The inductive invariant is what each page   *)
(* may use, the answer it remembers and what its panel asks about.         *)
(***************************************************************************)
(* The invariant *)

\* What a page may use, the answer it remembers, and what its panel asks about.
Agreed(t) ==
    /\ {Empty, PageOwn[t]} \subseteq own[t]
    /\ changes[t] \in own[t]
    /\ answered[t].said = "yes" => answered[t].list \in own[t]
\* A loaded page's panel shows what an answer would take into use.
Shows(t) == load[t] = "loaded" /\ panel[t] # Empty /\ consent[t] # "yes" => panel[t] = pending[t]

TabOK(t) == blind[t] \/ (Agreed(t) /\ Shows(t) /\ click[t] # "yes")

Functions ==
    /\ DOMAIN load = Tabs /\ DOMAIN changes = Tabs /\ DOMAIN pending = Tabs
    /\ DOMAIN consent = Tabs /\ DOMAIN answered = Tabs /\ DOMAIN own = Tabs
    /\ DOMAIN blind = Tabs /\ DOMAIN panel = Tabs /\ DOMAIN click = Tabs

IInv == Functions /\ \A t \in Tabs : TabOK(t)

(* Steps of one tab *)

tabVars == <<load, changes, pending, consent, answered, own, blind, panel, click>>

\* Everything of page t that TabOK speaks of.
Page(t) == <<load[t], changes[t], pending[t], consent[t], answered[t], own[t], blind[t], panel[t], click[t]>>

\* Nothing but page t changes, and what becomes of it is in order.
TabStep(t) ==
    /\ Functions'
    /\ \A u \in Tabs \ {t} : Page(u)' = Page(u)
    /\ TabOK(t)'

LEMMA TabStepKeeps == ASSUME IInv, NEW t \in Tabs, TabStep(t)  PROVE IInv'
  BY DEF IInv, TabStep, Page, TabOK, Agreed, Shows

LEMMA Untouched == ASSUME IInv, UNCHANGED tabVars  PROVE IInv'
  BY DEF IInv, tabVars, Functions, TabOK, Agreed, Shows

\* A list found in storage is used only if it is the one agreed to.
LEMMA FoundIsAgreed ==
    ASSUME NEW t \in Tabs, NEW l, Agreed(t), Functions, Found(t, l)
    PROVE  changes'[t] \in own[t]
<1>1. PICK a : a = SessionAnswer(t, l)  OBVIOUS
<1>2. changes'[t] = IF a = "yes" THEN l ELSE Empty  BY <1>1 DEF Found, Functions
<1>3. CASE a = "yes"
  <2>1. l = Empty \/ (answered[t].list = l /\ answered[t].said = "yes")
    BY <1>1, <1>3 DEF SessionAnswer
  <2>2. QED  BY <1>2, <1>3, <2>1 DEF Agreed
<1>4. CASE a # "yes"  BY <1>2, <1>4 DEF Agreed
<1>5. QED  BY <1>3, <1>4

\* After emit() the panel shows what is asked about.
LEMMA EmitShows ==
    ASSUME NEW t \in Tabs, Functions, Emit(t)
    PROVE  /\ DOMAIN panel' = Tabs
           /\ \A u \in Tabs \ {t} : panel'[u] = panel[u]
           /\ panel'[t] # Empty => panel'[t] = pending'[t]
  BY DEF Emit, Functions

LEMMA FoundShape ==
    ASSUME NEW t \in Tabs, NEW l, Functions, Found(t, l)
    PROVE  /\ DOMAIN changes' = Tabs /\ DOMAIN pending' = Tabs /\ DOMAIN consent' = Tabs
           /\ \A u \in Tabs \ {t} : changes'[u] = changes[u] /\ pending'[u] = pending[u] /\ consent'[u] = consent[u]
<1>1. PICK a : a = SessionAnswer(t, l)  OBVIOUS
<1>2. QED  BY <1>1 DEF Found, Functions

LEMMA ReadLsStep == ASSUME IInv, NEW t \in Tabs, ReadLs(t)  PROVE TabStep(t)
<1>1. Functions /\ TabOK(t) /\ UNCHANGED <<answered, own, blind, click>>  BY DEF IInv, ReadLs
<1>2. CASE ls = Pointer
  BY <1>1, <1>2 DEF ReadLs, Functions, TabStep, Page, TabOK, Agreed, Shows
<1>3. CASE ls # Pointer
  <2>1. load' = [load EXCEPT ![t] = "loaded"] /\ Emit(t)  BY <1>3 DEF ReadLs
  <2>2. /\ DOMAIN changes' = Tabs /\ DOMAIN pending' = Tabs /\ DOMAIN consent' = Tabs
        /\ \A u \in Tabs \ {t} : changes'[u] = changes[u] /\ pending'[u] = pending[u] /\ consent'[u] = consent[u]
    BY <1>1, <1>3, FoundShape DEF ReadLs, Functions
  <2>3. Agreed(t) => changes'[t] \in own[t]
    <3>1. CASE ls = None  BY <1>1, <1>3, <3>1 DEF ReadLs, Functions, Agreed
    <3>2. CASE ls # None  BY <1>1, <1>3, <3>2, FoundIsAgreed DEF ReadLs
    <3>3. QED  BY <3>1, <3>2
  <2>4. QED  BY <1>1, <2>1, <2>2, <2>3, EmitShows DEF Functions, TabStep, Page, TabOK, Agreed, Shows
<1>4. QED  BY <1>2, <1>3

LEMMA GetDbStep == ASSUME IInv, NEW t \in Tabs, GetDb(t)  PROVE TabStep(t)
<1>1. /\ Functions /\ TabOK(t) /\ UNCHANGED <<answered, own, blind, click>>
      /\ load' = [load EXCEPT ![t] = "loaded"] /\ Emit(t)
  BY DEF IInv, GetDb
<1>2. \/ changes' = [changes EXCEPT ![t] = PageOwn[t]] /\ UNCHANGED <<pending, consent>>
      \/ Found(t, db)
  BY DEF GetDb
<1>3. /\ DOMAIN changes' = Tabs /\ DOMAIN pending' = Tabs /\ DOMAIN consent' = Tabs
      /\ \A u \in Tabs \ {t} : changes'[u] = changes[u] /\ pending'[u] = pending[u] /\ consent'[u] = consent[u]
  BY <1>1, <1>2, FoundShape DEF Functions
<1>4. Agreed(t) => changes'[t] \in own[t]
  BY <1>1, <1>2, FoundIsAgreed DEF Functions, Agreed
<1>5. QED  BY <1>1, <1>3, <1>4, EmitShows DEF Functions, TabStep, Page, TabOK, Agreed, Shows

LEMMA HearStep == ASSUME IInv, NEW t \in Tabs, Hear(t)  PROVE TabStep(t)
  BY DEF Hear, gate, IInv, Functions, TabStep, Page, TabOK, Agreed, Shows

(* Edits and saves *)

LEMMA EditStep == ASSUME IInv, NEW t \in Tabs, Edit(t)  PROVE TabStep(t)
<1>1. Functions /\ TabOK(t) /\ load[t] = "loaded" /\ UNCHANGED <<pending, answered, blind, load, click>>
  BY DEF IInv, Edit
<1>2. PICK l \in Lists :
        /\ changes' = [changes EXCEPT ![t] = l]
        /\ own' = [own EXCEPT ![t] = @ \cup {l}]
        /\ consent' = [consent EXCEPT ![t] = IF @ = "ask" THEN "no" ELSE @]
        /\ Emit(t) \/ UNCHANGED panel
  BY DEF Edit
<1>3. Functions' /\ \A u \in Tabs \ {t} : Page(u)' = Page(u)
  BY <1>1, <1>2, EmitShows DEF Functions, Page
<1>4. consent'[t] # "yes" => consent[t] # "yes"  BY <1>1, <1>2 DEF Functions
<1>5. Shows(t) => Shows(t)'
  BY <1>1, <1>2, <1>4, EmitShows DEF Shows, Functions
<1>6. Agreed(t) => Agreed(t)'
  BY <1>1, <1>2 DEF Agreed, Functions
<1>7. QED  BY <1>1, <1>3, <1>5, <1>6 DEF TabStep, TabOK

\* What follows a write: it worked, or was refused.
LEMMA AfterStep ==
    ASSUME IInv, NEW w, NEW ok \in BOOLEAN, After(w, ok), UNCHANGED <<load, click>>
    PROVE  IInv'
<1>1. CASE w \notin Tabs  BY <1>1, Untouched DEF After, gate, tabVars
<1>2. ASSUME w \in Tabs, Persisted(w)  PROVE IInv'
  <2>1. Functions /\ TabOK(w)  BY <1>2 DEF IInv
  <2>2. /\ consent' = [consent EXCEPT ![w] = "yes"]
        /\ pending' = [pending EXCEPT ![w] = Empty]
        /\ answered' = [answered EXCEPT ![w] = [said |-> "yes", list |-> changes[w]]]
        /\ Emit(w) /\ UNCHANGED <<changes, own, blind, load, click>>
    BY <1>2 DEF Persisted, Remember
  <2>3. TabStep(w)
    BY <1>2, <2>1, <2>2, EmitShows DEF Functions, TabStep, Page, TabOK, Agreed, Shows
  <2>4. QED  BY <1>2, <2>3, TabStepKeeps
<1>3. ASSUME w \in Tabs, Refused(w)  PROVE IInv'
  <2>1. Functions /\ TabOK(w) /\ Emit(w) /\ UNCHANGED <<gate, load, click>>  BY <1>3 DEF IInv, Refused
  <2>2. TabStep(w)
    BY <1>3, <2>1, EmitShows DEF gate, Functions, TabStep, Page, TabOK, Agreed, Shows
  <2>3. QED  BY <1>3, <2>2, TabStepKeeps
<1>4. QED  BY <1>1, <1>2, <1>3 DEF After

LEMMA SaveStep ==
    ASSUME IInv, NEW w \in Writers, PutDb(w) \/ PointAfterPut(w) \/ DeleteDb(w) \/ Refuses(w)
    PROVE  IInv'
<1>1. UNCHANGED <<load, click>>  BY DEF PutDb, PointAfterPut, DeleteDb, Refuses
<1>2. \/ UNCHANGED <<gate, panel>>
      \/ \E ok \in BOOLEAN : After(w, ok)
  BY DEF PutDb, PointAfterPut, DeleteDb, Refuses
<1>3. QED  BY <1>1, <1>2, AfterStep, Untouched DEF gate, tabVars

(* Answers *)

\* An answer that is not about what was left unseen.
LEMMA AnswerStep ==
    ASSUME IInv, NEW t \in Tabs, NEW use \in BOOLEAN, Answer(t, use), UNCHANGED <<load, blind>>,
           DOMAIN own' = Tabs, \A u \in Tabs \ {t} : own'[u] = own[u], own[t] \subseteq own'[t],
           DOMAIN click' = Tabs, \A u \in Tabs \ {t} : click'[u] = click[u],
           click'[t] = None \/ click'[t] = click[t],
           ~blind[t] /\ use /\ consent[t] # "yes" => pending[t] \in own'[t]
    PROVE  TabStep(t)
<1>1. Functions /\ TabOK(t)  BY DEF IInv
<1>2. CASE consent[t] = "yes"
  BY <1>1, <1>2 DEF Answer, Functions, TabStep, Page, TabOK, Agreed, Shows, None
<1>3. ASSUME consent[t] # "yes", use  PROVE TabStep(t)
  <2>1. /\ answered' = [answered EXCEPT ![t] = [said |-> "yes", list |-> pending[t]]]
        /\ consent' = [consent EXCEPT ![t] = "yes"]
        /\ changes' = [changes EXCEPT ![t] = pending[t]]
        /\ pending' = [pending EXCEPT ![t] = Empty]
        /\ Emit(t)
    BY <1>3 DEF Answer, Remember
  <2>2. QED
    BY <1>1, <1>3, <2>1, EmitShows DEF Functions, TabStep, Page, TabOK, Agreed, Shows, None
<1>4. ASSUME consent[t] # "yes", ~use  PROVE TabStep(t)
  <2>1. /\ answered' = [answered EXCEPT ![t] = [said |-> "no", list |-> pending[t]]]
        /\ consent' = [consent EXCEPT ![t] = "no"]
        /\ changes' = [changes EXCEPT ![t] = @]
        /\ pending' = [pending EXCEPT ![t] = @]
        /\ Emit(t)
    BY <1>4 DEF Answer, Remember
  <2>2. QED
    BY <1>1, <1>4, <2>1, EmitShows DEF Functions, TabStep, Page, TabOK, Agreed, Shows, None
<1>5. QED  BY <1>2, <1>3, <1>4

LEMMA ClickStep == ASSUME IInv, NEW t \in Tabs, Click(t)  PROVE TabStep(t)
<1>1. Functions /\ TabOK(t) /\ panel[t] # Empty /\ UNCHANGED load  BY DEF IInv, Click
<1>2. PICK use \in BOOLEAN :
        /\ own' = [own EXCEPT ![t] = IF use THEN @ \cup {panel[t]} ELSE @]
        /\ IF load[t] = "loaded"
             THEN Answer(t, use) /\ UNCHANGED <<click, blind>>
             ELSE /\ click' = [click EXCEPT ![t] = IF use THEN "yes" ELSE "no"]
                  /\ blind' = [blind EXCEPT ![t] = @ \/ use]
                  /\ UNCHANGED <<changes, pending, consent, answered, refused, panel>>
  BY DEF Click
<1>3. /\ DOMAIN own' = Tabs /\ \A u \in Tabs \ {t} : own'[u] = own[u]
      /\ own[t] \subseteq own'[t] /\ (use => panel[t] \in own'[t])
  BY <1>1, <1>2 DEF Functions
<1>4. CASE load[t] = "loaded"
  <2>1. ~blind[t] /\ use /\ consent[t] # "yes" => pending[t] \in own'[t]
    BY <1>1, <1>3, <1>4 DEF TabOK, Shows
  <2>2. DOMAIN click' = Tabs /\ click' = click /\ Answer(t, use) /\ UNCHANGED blind
    BY <1>1, <1>2, <1>4 DEF Functions
  <2>3. QED  BY <1>1, <1>3, <2>1, <2>2, AnswerStep
<1>5. CASE load[t] # "loaded"
  <2>1. CASE use
    <3>1. click' = [click EXCEPT ![t] = "yes"] /\ blind'[t] = TRUE /\ DOMAIN blind' = Tabs
          /\ \A u \in Tabs \ {t} : blind'[u] = blind[u]
      BY <1>1, <1>2, <1>5, <2>1 DEF Functions
    <3>2. QED  BY <1>1, <1>2, <1>3, <1>5, <2>1, <3>1 DEF Functions, TabStep, Page, TabOK
  <2>2. CASE ~use
    <3>1. click' = [click EXCEPT ![t] = "no"] /\ DOMAIN blind' = Tabs
          /\ \A u \in Tabs : u # t => blind'[u] = blind[u]
      BY <1>1, <1>2, <1>5, <2>2 DEF Functions
    <3>2. blind[t] => blind'[t]  BY <1>1, <1>2, <1>5, <2>2 DEF Functions
    <3>3. QED
      BY <1>1, <1>2, <1>3, <1>5, <2>2, <3>1, <3>2 DEF Functions, TabStep, Page, TabOK, Agreed, Shows
  <2>3. QED  BY <2>1, <2>2
<1>6. QED  BY <1>4, <1>5

LEMMA LateAnswerStep == ASSUME IInv, NEW t \in Tabs, LateAnswer(t)  PROVE TabStep(t)
<1>1. Functions /\ TabOK(t)  BY DEF IInv
<1>2. PICK use \in BOOLEAN : use <=> click[t] = "yes"  OBVIOUS
<1>3. Answer(t, use)  BY <1>2 DEF LateAnswer
<1>4. click' = [click EXCEPT ![t] = None] /\ UNCHANGED <<load, own, blind>>  BY DEF LateAnswer
<1>5. ~(~blind[t] /\ use)  BY <1>1, <1>2 DEF TabOK
<1>6. QED  BY <1>1, <1>3, <1>4, <1>5, AnswerStep DEF Functions

LEMMA ReloadStep == ASSUME IInv, NEW t \in Tabs, Reload(t)  PROVE TabStep(t)
  BY DEF Reload, NoAnswer, None, IInv, Functions, TabStep, Page, TabOK, Agreed, Shows

(* The theorem *)

LEMMA NextKeeps == ASSUME IInv, [Next]_vars  PROVE IInv'
<1>1. CASE UNCHANGED vars  BY <1>1, Untouched DEF vars, gate, tabVars
<1>2. ASSUME NEW t \in Tabs, \/ ReadLs(t) \/ GetDb(t) \/ Hear(t) \/ Edit(t) \/ Click(t) \/ Reload(t)
                             \/ LateAnswer(t)
      PROVE  IInv'
  BY <1>2, ReadLsStep, GetDbStep, HearStep, EditStep, ClickStep, ReloadStep, LateAnswerStep, TabStepKeeps
<1>3. ASSUME NEW w \in Elsewhere, EditElsewhere(w)  PROVE IInv'
  BY <1>3, Untouched DEF EditElsewhere, gate, tabVars
<1>4. ASSUME NEW w \in Writers, PutDb(w) \/ PointAfterPut(w) \/ DeleteDb(w) \/ Refuses(w)  PROVE IInv'
  BY <1>4, SaveStep
<1>5. QED  BY <1>1, <1>2, <1>3, <1>4 DEF Next, Due

\* What a page uses was made in it, built into it, or agreed to as its panel
\* showed it, unless an answer was given while the changes were being loaded
\* again (overlay.js answerStored and sessionAnswer: `about exactly this set').
THEOREM UsedIsAgreedTo == Spec => []UsedIsAnsweredOrBlind
<1>1. Init => IInv
  BY DEF Init, IInv, Functions, TabOK, Agreed, Shows, NoAnswer, None
<1>2. IInv => UsedIsAnsweredOrBlind
  BY DEF IInv, TabOK, Agreed, UsedIsAnsweredOrBlind
<1>3. QED  BY <1>1, <1>2, NextKeeps, PTL DEF Spec

(***************************************************************************)
(* OverlayStore, the queue. What a page that goes away leaves of the       *)
(* requests to IndexedDB is defined by recursion; what is needed of it is  *)
(* found by the least number at which it would fail.                       *)
(***************************************************************************)
\* A set of numbers that is not empty has a least one.
LEMMA LeastNat ==
    ASSUME NEW T \in SUBSET Nat, T # {} PROVE \E x \in T : \A y \in T : x <= y
  <1> DEFINE Less == {ss \in Nat \X Nat : ss[1] < ss[2]}
  <1>1. IsWellFoundedOn(Less, Nat)
    BY NatLessThanWellFounded DEF OpToRel
  <1>2. PICK x \in T : \A y \in T : ~ (<<y, x>> \in Less)
    <2> HIDE DEF Less
    <2>1. QED  BY <1>1, WFMin
  <1>3. ASSUME NEW y \in T PROVE x <= y
    <2>1. <<y, x>> \in Nat \X Nat /\ <<y, x>>[1] = y /\ <<y, x>>[2] = x
      OBVIOUS
    <2>2. ~(y < x)
      BY <1>2, <2>1, Zenon
    <2>3. QED  BY <2>2
  <1>4. QED  BY <1>3

\* What the first places of a queue leave.
OneMore(s, S, left, n) == IF s[n] \in S THEN Append(left, s[n]) ELSE left

LEMMA OnlyGrows ==
    ASSUME NEW s, NEW S, Len(s) \in Nat
    PROVE  OnlyUpTo(s, S) = [n \in 0..Len(s) |-> IF n = 0 THEN <<>> ELSE OneMore(s, S, OnlyUpTo(s, S)[n - 1], n)]
  <1> DEFINE Is(g, m) == g = [n \in 0..m |-> IF n = 0 THEN <<>> ELSE OneMore(s, S, g[n - 1], n)]
             T == {m \in Nat : \A g : ~Is(g, m)}
  <1>1. T = {}
    <2> SUFFICES ASSUME T # {} PROVE FALSE
      OBVIOUS
    <2>1. PICK m \in T : \A y \in T : m <= y
      BY LeastNat
    <2>2. m # 0
      <3> DEFINE g == [n \in 0..0 |-> <<>>]
      <3>1. Is(g, 0)
        OBVIOUS
      <3>2. QED  BY <3>1
    <2>3. m - 1 \in Nat /\ m - 1 \notin T
      <3>1. m \in Nat
        OBVIOUS
      <3> HIDE DEF T
      <3>2. QED  BY <2>1, <2>2, <3>1
    <2>4. PICK g : Is(g, m - 1)
      <3> HIDE DEF Is
      <3>1. QED  BY <2>3
    <2> DEFINE h == [n \in 0..m |-> IF n = m THEN OneMore(s, S, g[m - 1], m) ELSE g[n]]
    <2>5. ASSUME NEW n \in 0..m PROVE h[n] = IF n = 0 THEN <<>> ELSE OneMore(s, S, h[n - 1], n)
      <3>1. CASE n = m
        BY <2>2, <3>1
      <3>2. CASE n # m
        <4>1. n \in 0..(m - 1) /\ h[n] = g[n]
          BY <3>2
        <4>2. g[n] = IF n = 0 THEN <<>> ELSE OneMore(s, S, g[n - 1], n)
          BY <2>4, <4>1
        <4>3. n # 0 => h[n - 1] = g[n - 1]
          BY <4>1
        <4>4. QED  BY <4>1, <4>2, <4>3
      <3>3. QED  BY <3>1, <3>2
    <2> DEFINE rhs == [n \in 0..m |-> IF n = 0 THEN <<>> ELSE OneMore(s, S, h[n - 1], n)]
    <2>6. h = rhs
      <3>1. DOMAIN h = 0..m /\ h = [n \in 0..m |-> h[n]]
        OBVIOUS
      <3> HIDE DEF h
      <3>2. QED  BY <2>5, <3>1
    <2> HIDE DEF h
    <2>7. QED  BY <2>6
  <1>2. \E g : Is(g, Len(s))
    BY <1>1
  <1>3. QED  BY <1>2 DEF OnlyUpTo, OneMore

\* At most one place of s is not in G: what is left of it is that one, if it stays, and others in G.
LEMMA OnlyLeaves ==
    ASSUME NEW R, NEW s \in Seq(R), NEW S, NEW G, NEW i \in 0..Len(s), \A j \in DOMAIN s \ {i} : s[j] \in G
    PROVE  /\ Only(s, S) \in Seq(R)
           /\ IF i # 0 /\ s[i] \in S
                THEN \E k \in DOMAIN Only(s, S) :
                        Only(s, S)[k] = s[i] /\ \A j \in DOMAIN Only(s, S) \ {k} : Only(s, S)[j] \in G
                ELSE \A k \in DOMAIN Only(s, S) : Only(s, S)[k] \in G
  <1> DEFINE L == OnlyUpTo(s, S)
             Rest(q) == \A k \in DOMAIN q : q[k] \in G
             One(q) == \E k \in DOMAIN q : q[k] = s[i] /\ \A j \in DOMAIN q \ {k} : q[j] \in G
             Stays(n) == i # 0 /\ i <= n /\ s[i] \in S
             Good(n) == L[n] \in Seq(R) /\ (Stays(n) => One(L[n])) /\ (~Stays(n) => Rest(L[n]))
             T == {n \in Nat : n <= Len(s) /\ ~Good(n)}
  <1>1. L[0] = <<>> /\ \A n \in 1..Len(s) : L[n] = OneMore(s, S, L[n - 1], n)
    BY OnlyGrows
  <1> HIDE DEF L
  <1>2. ASSUME NEW q \in Seq(R), NEW x \in R
        PROVE  /\ Append(q, x) \in Seq(R) /\ DOMAIN Append(q, x) = DOMAIN q \cup {Len(q) + 1}
               /\ Append(q, x)[Len(q) + 1] = x /\ \A k \in DOMAIN q : Append(q, x)[k] = q[k]
               /\ Len(q) + 1 \notin DOMAIN q
    OBVIOUS
  <1>3. ASSUME NEW n \in 1..Len(s), Good(n - 1) PROVE Good(n)
    <2>1. L[n - 1] \in Seq(R) /\ s[n] \in R /\ n \in DOMAIN s
      BY <1>3
    <2>2. CASE s[n] \notin S
      <3>1. L[n] = L[n - 1]
        BY <1>1, <2>2 DEF OneMore
      <3>2. Stays(n) <=> Stays(n - 1)
        <4>1. CASE n = i
          BY <2>2, <4>1
        <4>2. CASE n # i
          BY <4>2
        <4>3. QED  BY <4>1, <4>2
      <3> HIDE DEF Stays, One, Rest
      <3>3. QED  BY <1>3, <3>1, <3>2
    <2>3. CASE s[n] \in S
      <3> DEFINE q == L[n - 1]
                 r == Append(q, s[n])
      <3>1. L[n] = r
        BY <1>1, <2>3 DEF OneMore
      <3>2. /\ r \in Seq(R) /\ DOMAIN r = DOMAIN q \cup {Len(q) + 1} /\ Len(q) + 1 \notin DOMAIN q
            /\ r[Len(q) + 1] = s[n] /\ \A k \in DOMAIN q : r[k] = q[k]
        BY <1>2, <2>1
      <3> DEFINE new == Len(q) + 1
      <3>a. (Stays(n - 1) => One(q)) /\ (~Stays(n - 1) => Rest(q))
        BY <1>3
      <3> HIDE DEF r, q
      <3>3. CASE n = i
        <4>1. Rest(q)
          <5>1. ~Stays(n - 1)
            BY <3>3
          <5> HIDE DEF Stays, Rest
          <5>2. QED  BY <3>a, <5>1
        <4>2. One(r)
          <5>1. new \in DOMAIN r /\ r[new] = s[i] /\ \A j \in DOMAIN r \ {new} : r[j] \in G
            BY <3>2, <3>3, <4>1
          <5> HIDE DEF new
          <5>2. QED  BY <5>1
        <4>3. Stays(n)
          BY <2>3, <3>3
        <4> HIDE DEF One, Rest, Stays
        <4>4. QED  BY <3>1, <3>2, <4>2, <4>3
      <3>4. CASE n # i
        <4>1. s[n] \in G
          BY <2>1, <3>4
        <4>2. Rest(q) => Rest(r)
          BY <3>2, <4>1
        <4>3. One(q) => One(r)
          <5> SUFFICES ASSUME NEW k \in DOMAIN q, q[k] = s[i], \A j \in DOMAIN q \ {k} : q[j] \in G PROVE One(r)
            OBVIOUS
          <5>1. k \in DOMAIN r /\ r[k] = s[i] /\ \A j \in DOMAIN r \ {k} : r[j] \in G
            BY <3>2, <4>1
          <5>2. QED  BY <5>1
        <4>4. Stays(n) <=> Stays(n - 1)
          BY <3>4
        <4> HIDE DEF One, Rest, Stays
        <4>5. QED  BY <3>1, <3>2, <3>a, <4>2, <4>3, <4>4
      <3>5. QED  BY <3>3, <3>4
    <2>4. QED  BY <2>2, <2>3
  <1>4. Good(0)
    BY <1>1
  <1> HIDE DEF Good
  <1>5. T = {}
    <2> SUFFICES ASSUME T # {} PROVE FALSE
      OBVIOUS
    <2>1. PICK n \in T : \A y \in T : n <= y
      <3> HIDE DEF T
      <3>1. T \in SUBSET Nat
        BY DEF T
      <3>2. QED  BY <3>1, LeastNat
    <2>2. n \in Nat /\ n <= Len(s) /\ ~Good(n) /\ n # 0 /\ Len(s) \in Nat
      BY <1>4
    <2>3. n - 1 \in Nat /\ n - 1 <= Len(s) /\ n - 1 \notin T
      <3> HIDE DEF T
      <3>1. QED  BY <2>1, <2>2
    <2>4. Good(n - 1)
      BY <2>3
    <2>5. n \in 1..Len(s)
      BY <2>2
    <2>6. QED  BY <1>3, <2>2, <2>4, <2>5
  <1>6. Good(Len(s))
    BY <1>5
  <1>7. Stays(Len(s)) <=> i # 0 /\ s[i] \in S
    OBVIOUS
  <1>8. L[Len(s)] = Only(s, S)
    BY DEF Only, L
  <1> HIDE DEF Stays
  <1>9. QED  BY <1>6, <1>7, <1>8 DEF Good

(***************************************************************************)
(* OverlayStore, what is stored. The inductive invariant: unless saves     *)
(* overlapped, either none is under way, or exactly one is, with at most   *)
(* one request waiting for it, and each of its stages tells what is in     *)
(* localStorage and behind the pointer.                                    *)
(***************************************************************************)
Requests == [by : Writers, op : {"get", "put", "delete"}, list : Lists]

StoreTypes ==
    /\ ls \in Lists \cup {None, Pointer}
    /\ queue \in Seq(Requests)
    /\ saves \in [Writers -> Seq({"put", "point", "delete"})]
    /\ last \in Lists

\* Nobody saves, or one save is under way, at that place.
NoSaves == \A w \in Writers : saves[w] = <<>>
OneSave(w, at) == saves[w] = <<at>> /\ \A x \in Writers \ {w} : saves[x] = <<>>
\* Nothing but reading is asked for, but for the request at one place.
OnlyReads == \A i \in DOMAIN queue : queue[i].op = "get"
OneAsked(o) == \E i \in DOMAIN queue : queue[i] = o /\ \A j \in DOMAIN queue \ {i} : queue[j].op = "get"

Rests == NoSaves /\ OnlyReads /\ (Stored = last \/ (cut /\ Stored = before))
Puts(w) == (OneSave(w, "put") \/ (NoSaves /\ cut)) /\ OneAsked(Op(w, "put", last)) /\ Stored = before
Points(w) == OneSave(w, "point") /\ OnlyReads /\ db = last /\ (Stored = last \/ Stored = before)
Deletes(w) == (OneSave(w, "delete") \/ NoSaves) /\ OneAsked(Op(w, "delete", Empty)) /\ ls = last

SaveInv ==
    /\ StoreTypes
    /\ overlapped \/ Rests \/ \E w \in Writers : Puts(w) \/ Points(w) \/ Deletes(w)

LEMMA SaveIsSafe == SaveInv => SaveIsOldOrNew
  <1> SUFFICES ASSUME SaveInv, ~InFlight, ~overlapped PROVE Stored = last \/ (cut /\ Stored = before)
    BY DEF SaveIsOldOrNew
  <1>1. NoSaves /\ OnlyReads
    BY DEF InFlight, NoSaves, OnlyReads
  <1>2. ASSUME NEW w \in Writers PROVE ~Puts(w) /\ ~Points(w) /\ ~Deletes(w)
    BY <1>1 DEF Puts, Points, Deletes, OneSave, NoSaves, OneAsked, OnlyReads, Op
  <1>3. QED  BY <1>2 DEF SaveInv, Rests

\* A request more, or the first one less.
LEMMA AskedMore ==
    ASSUME StoreTypes, NEW o \in Requests, queue' = Append(queue, o)
    PROVE  /\ queue' \in Seq(Requests)
           /\ o.op = "get" => (OnlyReads => OnlyReads') /\ \A r : OneAsked(r) => OneAsked(r)'
           /\ OnlyReads => OneAsked(o)'
  <1> DEFINE k == Len(queue) + 1
  <1>1. /\ queue' \in Seq(Requests) /\ DOMAIN queue' = DOMAIN queue \cup {k} /\ k \notin DOMAIN queue
        /\ queue'[k] = o /\ \A i \in DOMAIN queue : queue'[i] = queue[i]
    BY DEF StoreTypes
  <1> HIDE DEF k
  <1>2. o.op = "get" /\ OnlyReads => OnlyReads'
    BY <1>1 DEF OnlyReads
  <1>3. ASSUME NEW r, o.op = "get", OneAsked(r) PROVE OneAsked(r)'
    <2>1. PICK i \in DOMAIN queue : queue[i] = r /\ \A j \in DOMAIN queue \ {i} : queue[j].op = "get"
      BY <1>3 DEF OneAsked
    <2>2. i \in DOMAIN queue' /\ queue'[i] = r /\ \A j \in DOMAIN queue' \ {i} : queue'[j].op = "get"
      BY <1>1, <1>3, <2>1
    <2>3. QED  BY <2>2 DEF OneAsked
  <1>4. ASSUME OnlyReads PROVE OneAsked(o)'
    <2>1. k \in DOMAIN queue' /\ queue'[k] = o /\ \A j \in DOMAIN queue' \ {k} : queue'[j].op = "get"
      BY <1>1, <1>4 DEF OnlyReads
    <2>2. QED  BY <2>1 DEF OneAsked
  <1>5. QED  BY <1>1, <1>2, <1>3, <1>4

LEMMA AskedLess ==
    ASSUME StoreTypes, queue # <<>>, queue' = Tail(queue)
    PROVE  /\ queue' \in Seq(Requests) /\ Head(queue) \in Requests
           /\ Head(queue).op = "get" => (OnlyReads => OnlyReads') /\ \A r : r.op # "get" /\ OneAsked(r) => OneAsked(r)'
           /\ OnlyReads => Head(queue).op = "get"
           /\ \A r : Head(queue).op # "get" /\ OneAsked(r) => Head(queue) = r /\ OnlyReads'
  <1>1. /\ queue' \in Seq(Requests) /\ 1 \in DOMAIN queue /\ Head(queue) = queue[1] /\ Head(queue) \in Requests
        /\ \A i \in DOMAIN queue : i # 1 => i - 1 \in DOMAIN queue' /\ queue'[i - 1] = queue[i]
        /\ \A i \in DOMAIN queue' : i + 1 \in DOMAIN queue /\ i + 1 # 1 /\ queue'[i] = queue[i + 1] /\ i + 1 - 1 = i
        /\ \A i, j \in DOMAIN queue : i - 1 = j - 1 => i = j
        /\ \A i \in DOMAIN queue' : i \in Nat
    BY DEF StoreTypes
  <1>2. Head(queue).op = "get" /\ OnlyReads => OnlyReads'
    BY <1>1 DEF OnlyReads
  <1>3. ASSUME NEW r, r.op # "get", Head(queue).op = "get", OneAsked(r) PROVE OneAsked(r)'
    <2>1. PICK i \in DOMAIN queue : queue[i] = r /\ \A j \in DOMAIN queue \ {i} : queue[j].op = "get"
      BY <1>3 DEF OneAsked
    <2>2. i # 1 /\ i \in Int
      BY <1>1, <1>3, <2>1 DEF StoreTypes
    <2>3. i - 1 \in DOMAIN queue' /\ queue'[i - 1] = r
      BY <1>1, <2>1, <2>2
    <2>4. ASSUME NEW j \in DOMAIN queue' \ {i - 1} PROVE queue'[j].op = "get"
      <3>1. j + 1 \in DOMAIN queue /\ j + 1 # i /\ queue'[j] = queue[j + 1]
        BY <1>1, <2>2, <2>4
      <3>2. QED  BY <2>1, <3>1
    <2>5. QED  BY <2>3, <2>4 DEF OneAsked
  <1>4. ASSUME NEW r, Head(queue).op # "get", OneAsked(r) PROVE Head(queue) = r /\ OnlyReads'
    <2>1. PICK i \in DOMAIN queue : queue[i] = r /\ \A j \in DOMAIN queue \ {i} : queue[j].op = "get"
      BY <1>4 DEF OneAsked
    <2>2. i = 1
      BY <1>1, <1>4, <2>1
    <2>3. QED  BY <1>1, <2>1, <2>2 DEF OnlyReads
  <1>5. QED  BY <1>1, <1>2, <1>3, <1>4 DEF OnlyReads

\* The one save that is under way goes on.
LEMMA OneGoes ==
    ASSUME StoreTypes, NEW w \in Writers, NEW p, NEW q \in {"put", "point", "delete", "over"}, Goes(w, p, q)
    PROVE  /\ saves' \in [Writers -> Seq({"put", "point", "delete"})]
           /\ ~NoSaves
           /\ \A x \in Writers : \A at : OneSave(x, at) =>
                 x = w /\ at = p /\ (IF q = "over" THEN NoSaves' ELSE OneSave(w, q)')
  <1>1. PICK i \in DOMAIN saves[w] :
           /\ saves[w][i] = p
           /\ saves' = [saves EXCEPT ![w] = IF q = "over" THEN RemoveAt(saves[w], i) ELSE [saves[w] EXCEPT ![i] = q]]
    BY DEF Goes
  <1> DEFINE S == saves[w]
             r == IF q = "over" THEN RemoveAt(S, i) ELSE [S EXCEPT ![i] = q]
             Stages == {"put", "point", "delete"}
  <1>2. S \in Seq(Stages) /\ i \in 1..Len(S) /\ Len(S) \in Nat
    BY DEF StoreTypes
  <1>3. r \in Seq(Stages)
    <2>1. CASE q = "over"
      <3>1. SubSeq(S, 1, i - 1) \in Seq(Stages)
        BY <1>2
      <3>2. SubSeq(S, i + 1, Len(S)) \in Seq(Stages)
        BY <1>2
      <3>3. r = SubSeq(S, 1, i - 1) \o SubSeq(S, i + 1, Len(S))
        BY <2>1 DEF RemoveAt
      <3> HIDE DEF S, r, Stages
      <3>4. QED  BY <3>1, <3>2, <3>3
    <2>2. CASE q # "over"
      <3>1. r = [S EXCEPT ![i] = q] /\ q \in Stages
        BY <2>2
      <3> HIDE DEF S, r, Stages
      <3>2. QED  BY <1>2, <3>1
    <2>3. QED  BY <2>1, <2>2
  <1>4. saves' = [saves EXCEPT ![w] = r]
    BY <1>1
  <1>5. S = <<p>> => r = IF q = "over" THEN <<>> ELSE <<q>>
    <2> SUFFICES ASSUME S = <<p>> PROVE r = IF q = "over" THEN <<>> ELSE <<q>>
      OBVIOUS
    <2>1. i = 1 /\ Len(S) = 1
      BY <1>2
    <2>2. SubSeq(S, 1, i - 1) = <<>> /\ SubSeq(S, i + 1, Len(S)) = <<>>
      BY <1>2, <2>1
    <2>3. CASE q = "over"
      <3>1. r = SubSeq(S, 1, i - 1) \o SubSeq(S, i + 1, Len(S))
        BY <2>3 DEF RemoveAt
      <3>2. <<>> \o <<>> = <<>>
        OBVIOUS
      <3> HIDE DEF S, r
      <3>3. r = <<>> \o <<>>
        BY <2>2, <3>1
      <3>4. QED  BY <2>3, <3>2, <3>3
    <2>4. CASE q # "over"
      <3>1. r = [S EXCEPT ![1] = q]
        BY <2>1, <2>4
      <3>2. QED  BY <2>4, <3>1
    <2>5. QED  BY <2>3, <2>4
  <1>6. S # <<>>
    BY <1>2
  <1>7. saves' \in [Writers -> Seq(Stages)]
    <2> HIDE DEF r, S
    <2>1. QED  BY <1>3, <1>4 DEF StoreTypes
  <1>8. ~NoSaves
    BY <1>6 DEF NoSaves
  <1>9. ASSUME NEW x \in Writers, NEW at, OneSave(x, at)
        PROVE  x = w /\ at = p /\ (IF q = "over" THEN NoSaves' ELSE OneSave(w, q)')
    <2>1. x = w
      BY <1>6, <1>9 DEF OneSave
    <2>2. S = <<at>>
      BY <1>9, <2>1 DEF OneSave
    <2>3. at = p
      BY <1>1, <1>2, <2>2
    <2>4. r = IF q = "over" THEN <<>> ELSE <<q>>
      BY <1>5, <2>2, <2>3
    <2> HIDE DEF r, S
    <2>5. \A y \in Writers : saves'[y] = IF y = w THEN r ELSE saves[y]
      BY <1>4 DEF StoreTypes
    <2>6. CASE q = "over"
      BY <1>9, <2>1, <2>3, <2>4, <2>5, <2>6 DEF OneSave, NoSaves
    <2>7. CASE q # "over"
      BY <1>9, <2>1, <2>3, <2>4, <2>5, <2>7 DEF OneSave, NoSaves
    <2>8. QED  BY <2>1, <2>3, <2>6, <2>7
  <1>10. QED  BY <1>7, <1>8, <1>9

\* Steps that have nothing to do with what is stored: at most a read is asked
\* for, or is answered.
LEMMA OthersKeep ==
    ASSUME SaveInv, UNCHANGED <<ls, db, saves, ghosts>>,
           \/ queue' = queue
           \/ \E o \in Requests : o.op = "get" /\ queue' = Append(queue, o)
           \/ queue # <<>> /\ Head(queue).op = "get" /\ queue' = Tail(queue)
    PROVE  SaveInv'
  <1>1. /\ ls' = ls /\ db' = db /\ saves' = saves /\ last' = last /\ before' = before
        /\ overlapped' = overlapped /\ cut' = cut /\ StoreTypes
    BY DEF ghosts, SaveInv
  <1>2. /\ queue' \in Seq(Requests) /\ (OnlyReads => OnlyReads')
        /\ \A r : r.op # "get" /\ OneAsked(r) => OneAsked(r)'
    <2>1. CASE queue' = queue
      BY <1>1, <2>1 DEF StoreTypes, OnlyReads, OneAsked
    <2>2. CASE \E o \in Requests : o.op = "get" /\ queue' = Append(queue, o)
      BY <1>1, <2>2, AskedMore
    <2>3. CASE queue # <<>> /\ Head(queue).op = "get" /\ queue' = Tail(queue)
      BY <1>1, <2>3, AskedLess
    <2>4. QED  BY <2>1, <2>2, <2>3
  <1>3. StoreTypes'
    BY <1>1, <1>2 DEF StoreTypes
  <1>4. Stored' = Stored /\ (NoSaves => NoSaves') /\ \A w, at : OneSave(w, at) => OneSave(w, at)'
    BY <1>1 DEF Stored, NoSaves, OneSave
  <1>5. Rests => Rests'
    BY <1>1, <1>2, <1>4 DEF Rests
  <1>6. ASSUME NEW w \in Writers PROVE (Puts(w) => Puts(w)') /\ (Points(w) => Points(w)') /\ (Deletes(w) => Deletes(w)')
    <2>1. /\ OneAsked(Op(w, "put", last)) => OneAsked(Op(w, "put", last))'
          /\ OneAsked(Op(w, "delete", Empty)) => OneAsked(Op(w, "delete", Empty))'
      <3>1. Op(w, "put", last).op # "get" /\ Op(w, "delete", Empty).op # "get" /\ Op(w, "put", last)' = Op(w, "put", last)
        BY <1>1 DEF Op
      <3>2. QED  BY <1>1, <1>2, <3>1 DEF OneAsked
    <2>2. QED  BY <1>1, <1>2, <1>4, <2>1 DEF Puts, Points, Deletes
  <1>7. QED  BY <1>1, <1>3, <1>5, <1>6 DEF SaveInv

LEMMA BeginningKeepsSaves ==
    ASSUME SaveInv, NEW w \in Writers, NEW l \in Lists, Begins(l, FALSE), Write(w, l), db' = db
    PROVE  SaveInv'
  <1> DEFINE o == IF l \in Big THEN Op(w, "put", l) ELSE Op(w, "delete", Empty)
             at == IF l \in Big THEN "put" ELSE "delete"
  <1>1. /\ queue' = Append(queue, o) /\ saves' = [saves EXCEPT ![w] = Append(saves[w], at)]
        /\ ls' = IF l \in Big THEN ls ELSE l
    BY DEF Write, SetLs
  <1>2. last' = l /\ StoreTypes /\ saves[w] \in Seq({"put", "point", "delete"})
    BY DEF Begins, SaveInv, StoreTypes
  <1>3. o \in Requests /\ o.op # "get" /\ at \in {"put", "point", "delete"}
    BY OverlayAssumption DEF Op, Requests
  <1> HIDE DEF o, at
  <1>4. StoreTypes'
    <2>1. queue' \in Seq(Requests)
      BY <1>1, <1>2, <1>3, AskedMore
    <2>2. Append(saves[w], at) \in Seq({"put", "point", "delete"})
      BY <1>2, <1>3
    <2>3. saves' \in [Writers -> Seq({"put", "point", "delete"})]
      BY <1>1, <1>2, <2>2 DEF StoreTypes
    <2>4. QED  BY <1>1, <1>2, <2>1, <2>3 DEF StoreTypes
  <1>5. CASE InFlight
    <2>1. overlapped'
      BY <1>5, Zenon DEF Begins
    <2>2. QED  BY <1>4, <2>1 DEF SaveInv
  <1>6. CASE ~InFlight
    <2>1. NoSaves /\ OnlyReads /\ before' = Stored
      BY <1>6 DEF InFlight, NoSaves, OnlyReads, Begins
    <2>2. OneAsked(o)'
      BY <1>1, <1>2, <1>3, <2>1, AskedMore
    <2>3. \A x \in Writers : saves'[x] = IF x = w THEN <<at>> ELSE <<>>
      <3>1. saves[w] = <<>> /\ Append(<<>>, at) = <<at>>
        BY <2>1 DEF NoSaves
      <3>2. QED  BY <1>1, <1>2, <2>1, <3>1 DEF NoSaves, StoreTypes
    <2>4. OneSave(w, at)'
      BY <2>3 DEF OneSave
    <2>5. CASE l \in Big
      <3>1. o = Op(w, "put", last') /\ at = "put" /\ Stored' = Stored
        BY <1>1, <1>2, <2>5 DEF o, at, Stored
      <3>2. OneAsked(Op(w, "put", last))'
        BY <2>2, <3>1 DEF OneAsked, Op
      <3>3. QED  BY <1>4, <2>1, <2>4, <3>1, <3>2 DEF SaveInv, Puts
    <2>6. CASE l \notin Big
      <3>1. o = Op(w, "delete", Empty) /\ at = "delete" /\ ls' = last'
        BY <1>1, <1>2, <2>6 DEF o, at
      <3>2. OneAsked(Op(w, "delete", Empty))'
        BY <2>2, <3>1 DEF OneAsked, Op
      <3>3. QED  BY <1>4, <2>4, <3>1, <3>2 DEF SaveInv, Deletes
    <2>7. QED  BY <2>5, <2>6
  <1>7. QED  BY <1>5, <1>6

\* A list that is refused at once leaves what was stored.
LEMMA RefusedAtOnceKeeps ==
    ASSUME SaveInv, NEW w \in Writers, NEW l \in Lists, WriteRefused(w, l), db' = db
    PROVE  SaveInv'
  <1>1. UNCHANGED <<ls, db, queue, saves>> /\ last' = l /\ cut' /\ StoreTypes
    BY DEF WriteRefused, Begins, SaveInv
  <1>2. StoreTypes'
    BY <1>1 DEF StoreTypes
  <1>3. CASE InFlight
    <2>1. overlapped'
      BY <1>3, Zenon DEF WriteRefused, Begins
    <2>2. QED  BY <1>2, <2>1 DEF SaveInv
  <1>4. CASE ~InFlight
    <2>1. NoSaves /\ OnlyReads /\ before' = Stored
      BY <1>4 DEF InFlight, NoSaves, OnlyReads, WriteRefused, Begins
    <2>2. Stored' = Stored /\ NoSaves' /\ OnlyReads'
      BY <1>1, <2>1 DEF Stored, NoSaves, OnlyReads
    <2>3. QED  BY <1>1, <1>2, <2>1, <2>2 DEF SaveInv, Rests
  <1>5. QED  BY <1>3, <1>4

\* What is stored is the list, once localStorage has it.
LEMMA ListIsStored == ASSUME SaveInv, ls \in Lists PROVE Stored = ls
  BY OverlayAssumption DEF Stored

LEMMA PuttingKeeps == ASSUME SaveInv, NEW w \in Writers, PutDb(w) PROVE SaveInv'
  <1>1. /\ queue # <<>> /\ Head(queue).op = "put" /\ Head(queue).by = w /\ db' = Head(queue).list
        /\ queue' = Tail(queue) /\ ls' = ls /\ last' = last /\ before' = before /\ overlapped' = overlapped /\ cut' = cut
    BY DEF PutDb, ghosts
  <1>2. /\ queue' \in Seq(Requests) /\ ~OnlyReads /\ Head(queue) \in Requests
        /\ \A r : OneAsked(r) => Head(queue) = r /\ OnlyReads'
    BY <1>1, AskedLess DEF SaveInv
  <1>3. \/ saves' = saves /\ \A i \in DOMAIN saves[w] : saves[w][i] # "put"
        \/ Goes(w, "put", "point")
    BY DEF PutDb
  <1>4. StoreTypes'
    <2>1. saves' \in [Writers -> Seq({"put", "point", "delete"})]
      BY <1>3, OneGoes DEF SaveInv, StoreTypes
    <2>2. QED  BY <1>1, <1>2, <2>1 DEF SaveInv, StoreTypes
  <1>5. ASSUME NEW x \in Writers, Puts(x) PROVE Rests' \/ Points(w)'
    <2>1. x = w /\ db' = last /\ OnlyReads'
      BY <1>1, <1>2, <1>5 DEF Puts, Op
    <2>2. Stored' = last' \/ Stored' = before'
      BY <1>1, <1>5, <2>1 DEF Puts, Stored
    <2>3. CASE NoSaves
      <3>1. ~Goes(w, "put", "point")
        BY <2>3, OneGoes DEF SaveInv
      <3>2. NoSaves' /\ cut
        BY <1>3, <1>5, <2>3, <3>1, OneGoes DEF Puts, NoSaves, OneSave
      <3>3. QED  BY <1>1, <2>1, <2>2, <3>2 DEF Rests
    <2>4. CASE OneSave(w, "put")
      <3>1. Goes(w, "put", "point")
        BY <1>3, <2>4 DEF OneSave
      <3>2. OneSave(w, "point")'
        BY <2>4, <3>1, OneGoes DEF SaveInv
      <3>3. QED  BY <1>1, <2>1, <2>2, <3>2 DEF Points
    <2>5. QED  BY <1>5, <2>1, <2>3, <2>4 DEF Puts
  <1>6. ASSUME NEW x \in Writers, Deletes(x) PROVE FALSE
    BY <1>1, <1>2, <1>6 DEF Deletes, Op
  <1>7. ASSUME NEW x \in Writers PROVE ~Points(x)
    BY <1>2 DEF Points
  <1>8. ~Rests
    BY <1>2 DEF Rests
  <1>9. QED  BY <1>1, <1>4, <1>5, <1>6, <1>7, <1>8 DEF SaveInv

LEMMA PointingKeeps == ASSUME SaveInv, NEW w \in Writers, PointAfterPut(w) PROVE SaveInv'
  <1>1. /\ Goes(w, "point", "over") /\ ls' = Pointer /\ db' = db /\ queue' = queue
        /\ last' = last /\ before' = before /\ overlapped' = overlapped /\ cut' = cut
    BY DEF PointAfterPut, SetLs, ghosts
  <1>2. StoreTypes' /\ ~NoSaves
    BY <1>1, OneGoes DEF SaveInv, StoreTypes
  <1>3. ASSUME NEW x \in Writers, Points(x) PROVE Rests'
    <2>1. NoSaves' /\ OnlyReads' /\ Stored' = last'
      BY <1>1, <1>3, OneGoes DEF SaveInv, Points, OnlyReads, Stored
    <2>2. QED  BY <2>1 DEF Rests
  <1>4. ASSUME NEW x \in Writers PROVE ~Puts(x) /\ ~Deletes(x)
    BY <1>1, <1>2, OneGoes DEF SaveInv, Puts, Deletes
  <1>5. QED  BY <1>1, <1>2, <1>3, <1>4 DEF SaveInv, Rests

LEMMA DeletingKeeps == ASSUME SaveInv, NEW w \in Writers, DeleteDb(w) PROVE SaveInv'
  <1>1. /\ queue # <<>> /\ Head(queue).op = "delete" /\ Head(queue).by = w /\ db' = None
        /\ queue' = Tail(queue) /\ ls' = ls /\ last' = last /\ before' = before /\ overlapped' = overlapped /\ cut' = cut
    BY DEF DeleteDb, ghosts
  <1>2. /\ queue' \in Seq(Requests) /\ ~OnlyReads /\ Head(queue) \in Requests
        /\ \A r : OneAsked(r) => Head(queue) = r /\ OnlyReads'
    BY <1>1, AskedLess DEF SaveInv
  <1>3. \/ saves' = saves /\ \A i \in DOMAIN saves[w] : saves[w][i] # "delete"
        \/ Goes(w, "delete", "over")
    BY DEF DeleteDb
  <1>4. StoreTypes'
    <2>1. saves' \in [Writers -> Seq({"put", "point", "delete"})]
      BY <1>3, OneGoes DEF SaveInv, StoreTypes
    <2>2. QED  BY <1>1, <1>2, <2>1 DEF SaveInv, StoreTypes
  <1>5. ASSUME NEW x \in Writers, Deletes(x) PROVE Rests'
    <2>1. x = w /\ ls' = last' /\ last' \in Lists /\ OnlyReads'
      BY <1>1, <1>2, <1>5 DEF Deletes, Op, SaveInv, StoreTypes
    <2>2. Stored' = last'
      BY <2>1, OverlayAssumption DEF Stored
    <2>3. CASE NoSaves
      <3>1. ~Goes(w, "delete", "over")
        BY <2>3, OneGoes DEF SaveInv
      <3>2. NoSaves'
        BY <1>3, <2>3, <3>1 DEF NoSaves
      <3>3. QED  BY <2>1, <2>2, <3>2 DEF Rests
    <2>4. CASE OneSave(w, "delete")
      <3>1. Goes(w, "delete", "over")
        BY <1>3, <2>4 DEF OneSave
      <3>2. NoSaves'
        BY <2>4, <3>1, OneGoes DEF SaveInv
      <3>3. QED  BY <2>1, <2>2, <3>2 DEF Rests
    <2>5. QED  BY <1>5, <2>1, <2>3, <2>4 DEF Deletes
  <1>6. ASSUME NEW x \in Writers, Puts(x) PROVE FALSE
    BY <1>1, <1>2, <1>6 DEF Puts, Op
  <1>7. ASSUME NEW x \in Writers PROVE ~Points(x)
    BY <1>2 DEF Points
  <1>8. ~Rests
    BY <1>2 DEF Rests
  <1>9. QED  BY <1>1, <1>4, <1>5, <1>6, <1>7, <1>8 DEF SaveInv

LEMMA RefusingKeeps == ASSUME SaveInv, NEW w \in Writers, Refuses(w) PROVE SaveInv'
  <1>1. ls' = ls /\ db' = db /\ last' = last /\ before' = before /\ overlapped' = overlapped /\ Stored' = Stored
    BY DEF Refuses, Stored
  <1>2. PICK p \in {"put", "delete", "point"} :
           /\ Goes(w, p, "over")
           /\ p # "delete" => cut' = TRUE
           /\ p # "point" => queue # <<>> /\ Head(queue).by = w /\ Head(queue).op = p /\ queue' = Tail(queue)
           /\ p = "point" => queue' = queue
    BY DEF Refuses
  <1>3. /\ saves' \in [Writers -> Seq({"put", "point", "delete"})] /\ ~NoSaves
        /\ \A x \in Writers : \A at : OneSave(x, at) => x = w /\ at = p /\ NoSaves'
    BY <1>2, OneGoes DEF SaveInv
  <1>4. /\ queue' \in Seq(Requests)
        /\ p # "point" => ~OnlyReads /\ \A r : OneAsked(r) => Head(queue) = r /\ OnlyReads'
    <2>1. CASE p = "point"
      BY <1>2, <2>1 DEF SaveInv, StoreTypes
    <2>2. CASE p # "point"
      BY <1>2, <2>2, AskedLess DEF SaveInv
    <2>3. QED  BY <2>1, <2>2
  <1>5. StoreTypes'
    BY <1>1, <1>3, <1>4 DEF SaveInv, StoreTypes
  <1>6. ASSUME NEW x \in Writers, Puts(x) PROVE Rests'
    BY <1>1, <1>2, <1>3, <1>4, <1>6 DEF Puts, Rests
  <1>7. ASSUME NEW x \in Writers, Points(x) PROVE Rests'
    BY <1>1, <1>2, <1>3, <1>7 DEF Points, Rests, OnlyReads
  <1>8. ASSUME NEW x \in Writers, Deletes(x) PROVE Rests'
    <2>1. Stored' = last'
      BY <1>1, <1>8, OverlayAssumption DEF Deletes, Stored, SaveInv, StoreTypes
    <2>2. QED  BY <1>2, <1>3, <1>4, <1>8, <2>1 DEF Deletes, Rests
  <1>9. QED  BY <1>1, <1>3, <1>5, <1>6, <1>7, <1>8 DEF SaveInv, Rests

LEMMA ReloadingKeeps == ASSUME SaveInv, NEW t \in Tabs, Reload(t) PROVE SaveInv'
  <1>1. /\ ls' = ls /\ db' = db /\ last' = last /\ before' = before /\ overlapped' = overlapped /\ Stored' = Stored
        /\ saves' = [saves EXCEPT ![t] = <<>>]
        /\ (cut \/ saves[t] # <<>>) => cut'
    BY DEF Reload, Stored
  <1>2. PICK S : /\ queue' = Only(queue, S)
                 /\ \A i \in DOMAIN queue : queue[i].by # t => queue[i] \in S
    <2> DEFINE all == {o \in ToSet(queue) : o.by # t}
               kept == {o \in ToSet(queue) : o.by # t \/ o.op # "get"}
    <2>1. queue' = Only(queue, all) \/ queue' = Only(queue, kept)
      BY DEF Reload
    <2>2. \A i \in DOMAIN queue : queue[i].by # t => queue[i] \in all /\ queue[i] \in kept
      BY DEF ToSet
    <2> HIDE DEF all, kept
    <2>3. QED  BY <2>1, <2>2
  <1> DEFINE Reads == {o \in Requests : o.op = "get"}
  <1>3. queue \in Seq(Requests)
    BY DEF SaveInv, StoreTypes
  <1>4. queue' \in Seq(Requests)
    <2>1. \A j \in DOMAIN queue : queue[j] \in Requests
      BY <1>3
    <2>2. 0 \in 0..Len(queue)
      BY <1>3
    <2>3. \A j \in DOMAIN queue \ {0} : queue[j] \in Requests
      BY <2>1
    <2>4. QED  BY <1>2, <1>3, <2>2, <2>3, OnlyLeaves
  <1>5. OnlyReads => OnlyReads'
    <2> SUFFICES ASSUME OnlyReads PROVE OnlyReads'
      OBVIOUS
    <2>1. 0 \in 0..Len(queue) /\ \A j \in DOMAIN queue \ {0} : queue[j] \in Reads
      BY <1>3 DEF OnlyReads
    <2> HIDE DEF Reads
    <2>2. \A k \in DOMAIN Only(queue, S) : Only(queue, S)[k] \in Reads
      BY <1>3, <2>1, OnlyLeaves
    <2>3. QED  BY <1>2, <2>2 DEF Reads, OnlyReads
  <1>6. ASSUME NEW r, OneAsked(r) PROVE OneAsked(r)' \/ (OnlyReads' /\ r.by = t)
    <2>1. PICK i \in DOMAIN queue : queue[i] = r /\ \A j \in DOMAIN queue \ {i} : queue[j].op = "get"
      BY <1>6 DEF OneAsked
    <2>2. i \in 0..Len(queue) /\ i # 0 /\ \A j \in DOMAIN queue \ {i} : queue[j] \in Reads
      BY <1>3, <2>1
    <2> HIDE DEF Reads
    <2>3. CASE r \in S
      <3>1. \E k \in DOMAIN Only(queue, S) :
               Only(queue, S)[k] = r /\ \A j \in DOMAIN Only(queue, S) \ {k} : Only(queue, S)[j] \in Reads
        <4>1. i # 0 /\ queue[i] \in S
          BY <2>1, <2>2, <2>3
        <4>2. \E k \in DOMAIN Only(queue, S) :
                 Only(queue, S)[k] = queue[i] /\ \A j \in DOMAIN Only(queue, S) \ {k} : Only(queue, S)[j] \in Reads
          BY <1>3, <2>2, <4>1, OnlyLeaves
        <4>3. QED  BY <2>1, <4>2
      <3>2. QED  BY <1>2, <3>1 DEF Reads, OneAsked
    <2>4. CASE r \notin S
      <3>1. \A k \in DOMAIN Only(queue, S) : Only(queue, S)[k] \in Reads
        BY <1>3, <2>1, <2>2, <2>4, OnlyLeaves
      <3>2. QED  BY <1>2, <2>1, <2>4, <3>1 DEF Reads, OnlyReads
    <2>5. QED  BY <2>3, <2>4
  <1>7. \A w \in Writers : saves'[w] = IF w = t THEN <<>> ELSE saves[w]
    BY <1>1 DEF SaveInv, StoreTypes, Writers
  <1>8. (NoSaves => NoSaves') /\ t \in Writers
    BY <1>7 DEF NoSaves, Writers
  <1>9. ASSUME NEW w \in Writers, NEW at, OneSave(w, at)
        PROVE  IF w = t THEN NoSaves' /\ cut' ELSE OneSave(w, at)'
    BY <1>1, <1>7, <1>8, <1>9 DEF OneSave, NoSaves
  <1>10. StoreTypes'
    <2>1. <<>> \in Seq({"put", "point", "delete"})
      OBVIOUS
    <2>2. saves' \in [Writers -> Seq({"put", "point", "delete"})]
      BY <1>1, <2>1 DEF SaveInv, StoreTypes
    <2>3. QED  BY <1>1, <1>4, <2>2 DEF SaveInv, StoreTypes
  <1>11. ASSUME Rests PROVE Rests'
    BY <1>1, <1>5, <1>8, <1>11 DEF Rests
  <1>12. ASSUME NEW w \in Writers, Puts(w) PROVE Rests' \/ Puts(w)'
    <2> DEFINE r == Op(w, "put", last)
    <2>1. (OneAsked(r)' /\ r' = r) \/ (OnlyReads' /\ w = t)
      BY <1>1, <1>6, <1>12 DEF Puts, Op
    <2>2. IF w = t THEN NoSaves' /\ cut' ELSE OneSave(w, "put")' \/ (NoSaves' /\ cut')
      BY <1>1, <1>8, <1>9, <1>12 DEF Puts
    <2> HIDE DEF r
    <2>3. CASE OneAsked(r)' /\ r' = r
      BY <1>1, <1>12, <2>2, <2>3 DEF Puts, r
    <2>4. CASE OnlyReads' /\ w = t
      BY <1>1, <1>12, <2>2, <2>4 DEF Puts, Rests
    <2>5. QED  BY <2>1, <2>3, <2>4
  <1>13. ASSUME NEW w \in Writers, Points(w) PROVE Rests' \/ Points(w)'
    BY <1>1, <1>5, <1>9, <1>13 DEF Points, Rests
  <1>14. ASSUME NEW w \in Writers, Deletes(w) PROVE Rests' \/ Deletes(w)'
    <2> DEFINE r == Op(w, "delete", Empty)
    <2>1. OneAsked(r)' \/ (OnlyReads' /\ w = t)
      BY <1>6, <1>14 DEF Deletes, Op
    <2>2. IF w = t THEN NoSaves' ELSE OneSave(w, "delete")' \/ NoSaves'
      BY <1>8, <1>9, <1>14 DEF Deletes
    <2>3. Stored' = last'
      BY <1>1, <1>14, OverlayAssumption DEF Deletes, Stored, SaveInv, StoreTypes
    <2>4. QED  BY <1>1, <1>14, <2>1, <2>2, <2>3 DEF Deletes, Rests
  <1>15. QED  BY <1>1, <1>10, <1>11, <1>12, <1>13, <1>14 DEF SaveInv

LEMMA SavesBegin == Init => SaveInv
  <1> SUFFICES ASSUME Init PROVE SaveInv
    OBVIOUS
  <1>1. <<>> \in Seq(Requests) /\ <<>> \in Seq({"put", "point", "delete"})
    OBVIOUS
  <1>2. StoreTypes
    BY <1>1, OverlayAssumption DEF Init, StoreTypes
  <1>3. Rests
    <2>1. NoSaves /\ OnlyReads
      BY DEF Init, NoSaves, OnlyReads
    <2>2. Stored = last
      BY DEF Init, Stored, None, Pointer
    <2>3. QED  BY <2>1, <2>2 DEF Rests
  <1>4. QED  BY <1>2, <1>3 DEF SaveInv

LEMMA SavesGoOn == SaveInv /\ [Next]_vars => SaveInv'
  <1> SUFFICES ASSUME SaveInv, [Next]_vars PROVE SaveInv'
    OBVIOUS
  <1>1. ASSUME NEW t \in Tabs, ReadLs(t) PROVE SaveInv'
    <2>1. UNCHANGED <<ls, db, saves, ghosts>> /\ (queue' = queue \/ queue' = Append(queue, Op(t, "get", Empty)))
      BY <1>1 DEF ReadLs
    <2>2. Op(t, "get", Empty) \in Requests /\ Op(t, "get", Empty).op = "get"
      BY OverlayAssumption DEF Op, Requests, Writers
    <2>3. QED  BY <2>1, <2>2, OthersKeep
  <1>2. ASSUME NEW t \in Tabs, GetDb(t) PROVE SaveInv'
    <2>1. UNCHANGED <<ls, db, saves, ghosts>> /\ queue # <<>> /\ Head(queue).op = "get" /\ queue' = Tail(queue)
      BY <1>2 DEF GetDb, Op
    <2>2. QED  BY <2>1, OthersKeep
  <1>3. ASSUME NEW t \in Tabs, Hear(t) \/ Click(t) \/ LateAnswer(t) PROVE SaveInv'
    BY <1>3, OthersKeep DEF Hear, Click, LateAnswer, shared
  <1>4. ASSUME NEW t \in Tabs, Edit(t) PROVE SaveInv'
    <2>1. PICK l \in Lists :
             /\ db' = db
             /\ \/ UNCHANGED <<ls, queue, saves, ghosts>>
                \/ Begins(l, FALSE) /\ Write(t, l)
                \/ WriteRefused(t, l)
      BY <1>4 DEF Edit, WriteBegins
    <2>2. CASE UNCHANGED <<ls, queue, saves, ghosts>>
      BY <2>1, <2>2, OthersKeep
    <2>3. CASE Begins(l, FALSE) /\ Write(t, l)
      BY <2>1, <2>3, BeginningKeepsSaves DEF Writers
    <2>4. CASE WriteRefused(t, l)
      BY <2>1, <2>4, RefusedAtOnceKeeps DEF Writers
    <2>5. QED  BY <2>1, <2>2, <2>3, <2>4
  <1>5. ASSUME NEW w \in Elsewhere, EditElsewhere(w) PROVE SaveInv'
    BY <1>5, BeginningKeepsSaves, RefusedAtOnceKeeps DEF EditElsewhere, WriteBegins, Writers
  <1>6. CASE UNCHANGED vars
    BY <1>6, OthersKeep DEF vars, shared
  <1>7. QED
    BY <1>1, <1>2, <1>3, <1>4, <1>5, <1>6, PuttingKeeps, PointingKeeps, DeletingKeeps, RefusingKeeps, ReloadingKeeps DEF Next, Due

(***************************************************************************)
(* When no save is under way, and the last one did not overlap with        *)
(* another, what is stored is the list it was of; or, if it was refused or *)
(* its page went away, that or what was stored before: never a pointer to  *)
(* nothing, however tabs, reloads and refusals come in between             *)
(* (writeStored and persist, overlay.js).                                  *)
(***************************************************************************)
THEOREM StoredIsOldOrNew == Spec => []SaveIsOldOrNew
  BY SavesBegin, SavesGoOn, SaveIsSafe, PTL DEF Spec

(***************************************************************************)
(* NewPage. The inductive invariant says of the form which texts and ticks *)
(* are the person's own and which are defaults, of the table which answer  *)
(* it is of, and of a job on its way what was shown when Build was         *)
(* pressed.                                                                *)
(***************************************************************************)
FieldNames == {"kind", "runtime", "template", "source", "mode", "targets", "boxes", "offline", "zip", "value", "default"}
FieldsShape(f) ==
    /\ DOMAIN f = FieldNames /\ DOMAIN f.value = DOMAIN Commands /\ DOMAIN f.default = DOMAIN Commands
    /\ f.kind \in {"repo", "write", "local"}

\* The launch fields: one that is owed has what was typed, the others their default.
LaunchOK ==
    /\ DOMAIN typed = DOMAIN Commands
    /\ \A r \in DOMAIN Commands :
          /\ typed[r] # Absent => fields.value[r] = typed[r] /\ typed[r] # fields.default[r]
          /\ typed[r] = Absent => fields.value[r] = fields.default[r]
    /\ fields.runtime \in DOMAIN Commands => fields.default[fields.runtime] = LaunchFor(fields)

BoxesOK == fields.boxes \subseteq HasBuild(fields, catalog)

FittedOK ==
    Fits(fields) =>
        /\ fields.targets \ TemplateFor(fields).platforms \subseteq ticked
        /\ unticked \cap TemplateFor(fields).platforms = {}

TableOK ==
    /\ catalogSeq \in DOMAIN fetches => fetches[catalogSeq] = apiAt
    /\ catalogSeq \notin DOMAIN fetches /\ ~missed => catalog.of = apiAt

IconNames == {"stage", "said", "moved"}
JobNames == IconNames \cup {"job", "meant", "built"}

\* What is under way goes where the page said, or something moved.
UnderWay ==
    submission # Idle =>
        /\ DOMAIN submission = IF submission.stage = "icon" THEN IconNames ELSE JobNames
        /\ submission.stage = "icon" => submission.said = PaintWhere(fields, apiAt) \/ submission.moved
        /\ submission.stage # "icon" =>
              /\ submission.said = (IF submission.job.upload THEN "page" ELSE apiAt) \/ submission.moved
              /\ submission.job.launch = submission.meant
              /\ submission.job.targets \subseteq submission.built

PostedOK ==
    posted # NothingSent =>
        /\ posted.to = posted.said \/ posted.moved
        /\ posted.job.launch = posted.meant
        /\ posted.job.targets \subseteq posted.built

FormOK == FieldsShape(fields) /\ LaunchOK /\ BoxesOK /\ FittedOK /\ maker = PaintWhere(fields, apiAt)
NewPageInv == FormOK /\ TableOK /\ UnderWay /\ PostedOK

\* g is f but for its launch fields, its boxes and its shape.
Alike(f, g) ==
    /\ FieldsShape(g)
    /\ g.kind = f.kind /\ g.runtime = f.runtime /\ g.template = f.template
    /\ g.source = f.source /\ g.mode = f.mode /\ g.offline = f.offline

LEMMA AlikeAgree ==
    ASSUME NEW f, NEW g, Alike(f, g)
    PROVE  /\ Fits(g) => Fits(f)
           /\ Fits(f) => Fits(g)
           /\ TemplateFor(g) = TemplateFor(f) /\ LaunchFor(g) = LaunchFor(f)
           /\ \A table : HasBuild(g, table) = HasBuild(f, table)
           /\ \A place : PaintWhere(g, place) = PaintWhere(f, place)
  BY DEF Alike, Fits, HasTemplate, TemplateFor, LaunchFor, HasBuild, PaintWhere

LEMMA SizePainted ==
    ASSUME NEW f, FieldsShape(f)
    PROVE  LET g == PaintOfflineSize(f) IN
           /\ Alike(f, g) /\ g.targets = f.targets /\ g.boxes = f.boxes /\ g.value = f.value /\ g.default = f.default
  BY DEF PaintOfflineSize, FieldsShape, FieldNames, Alike

LEMMA ArchesPainted ==
    ASSUME NEW f, FieldsShape(f), NEW table
    PROVE  LET g == PaintOfflineArches(f, table) IN
           /\ Alike(f, g) /\ g.targets = f.targets /\ g.value = f.value /\ g.default = f.default
           /\ g.boxes = f.boxes \cap HasBuild(f, table)
  BY DEF PaintOfflineArches, FieldsShape, FieldNames, Alike

LEMMA PlatformsFitted ==
    ASSUME NEW f, FieldsShape(f)
    PROVE  LET g == FitPlatforms(f) IN
           /\ Alike(f, g) /\ g.boxes = f.boxes /\ g.value = f.value /\ g.default = f.default
           /\ Fits(f) => g.targets \subseteq TemplateFor(f).platforms
  BY DEF FitPlatforms, FieldsShape, FieldNames, Alike

\* Where the field was left alone it moves with its default, elsewhere nothing does.
LEMMA LaunchSynced ==
    ASSUME NEW f, FieldsShape(f)
    PROVE  LET g == SyncLaunchDefault(f) IN
           /\ Alike(f, g) /\ g.targets = f.targets /\ g.boxes = f.boxes
           /\ \A r \in DOMAIN Commands \ {f.runtime} : g.value[r] = f.value[r] /\ g.default[r] = f.default[r]
           /\ f.runtime \in DOMAIN Commands =>
                 /\ g.default[f.runtime] = LaunchFor(f)
                 /\ g.value[f.runtime] = IF f.value[f.runtime] = f.default[f.runtime] THEN LaunchFor(f)
                                         ELSE f.value[f.runtime]
  <1> DEFINE r == f.runtime
             d == LaunchFor(f)
             v == IF f.value[r] = f.default[r] THEN d ELSE f.value[r]
             h == [f EXCEPT !.default[r] = d]
             g == [h EXCEPT !.value[r] = v]
  <1>1. CASE r \notin DOMAIN Commands
    BY <1>1 DEF SyncLaunchDefault, Alike
  <1>2. CASE r \in DOMAIN Commands
    <2>1. SyncLaunchDefault(f) = g
      BY <1>2 DEF SyncLaunchDefault, FieldsShape, FieldNames
    <2> HIDE DEF d, v
    <2>2. /\ DOMAIN h = FieldNames /\ h.default = [f.default EXCEPT ![r] = d] /\ h.value = f.value
          /\ \A x \in FieldNames \ {"default"} : h[x] = f[x]
      BY DEF FieldsShape, FieldNames
    <2> HIDE DEF h
    <2>3. /\ DOMAIN g = FieldNames /\ g.value = [f.value EXCEPT ![r] = v] /\ g.default = h.default
          /\ \A x \in FieldNames \ {"value"} : g[x] = h[x]
      BY <2>2 DEF FieldNames
    <2> HIDE DEF g
    <2>4. \A x \in FieldNames \ {"value", "default"} : g[x] = f[x]
      BY <2>2, <2>3
    <2>5. /\ g.kind = f.kind /\ g.runtime = f.runtime /\ g.template = f.template /\ g.targets = f.targets
          /\ g.source = f.source /\ g.mode = f.mode /\ g.offline = f.offline /\ g.boxes = f.boxes
      BY <2>4 DEF FieldNames
    <2>6. DOMAIN g.value = DOMAIN Commands /\ DOMAIN g.default = DOMAIN Commands
      BY <2>2, <2>3 DEF FieldsShape
    <2>7. Alike(f, g)
      BY <2>3, <2>5, <2>6 DEF Alike, FieldsShape
    <2>8. g.value[r] = v /\ g.default[r] = d
      BY <1>2, <2>2, <2>3 DEF FieldsShape
    <2>9. \A x \in DOMAIN Commands \ {r} : g.value[x] = f.value[x] /\ g.default[x] = f.default[x]
      BY <2>2, <2>3 DEF FieldsShape
    <2>10. QED  BY <2>1, <2>5, <2>7, <2>8, <2>9 DEF v, d
  <1>3. QED  BY <1>1, <1>2

\* The listeners of a change: the launch fields stay what they are owed.
LEMMA ChangedKeeps ==
    ASSUME LaunchOK, NEW f, FieldsShape(f), f.value = fields.value, f.default = fields.default,
           Changed(f), UNCHANGED apiAt
    PROVE  /\ FieldsShape(fields') /\ Alike(f, fields') /\ LaunchOK' /\ maker' = PaintWhere(fields', apiAt')
           /\ fields'.targets = f.targets /\ fields'.boxes = f.boxes
  <1> DEFINE h == SyncLaunchDefault(f)
             g == PaintOfflineSize(h)
  <1>1. fields' = g /\ maker' = PaintWhere(g, apiAt) /\ typed' = Owed(g, typed)
    BY DEF Changed
  <1>2. /\ Alike(f, h) /\ h.targets = f.targets /\ h.boxes = f.boxes
        /\ \A r \in DOMAIN Commands \ {f.runtime} : h.value[r] = f.value[r] /\ h.default[r] = f.default[r]
        /\ f.runtime \in DOMAIN Commands =>
              /\ h.default[f.runtime] = LaunchFor(f)
              /\ h.value[f.runtime] = IF f.value[f.runtime] = f.default[f.runtime] THEN LaunchFor(f)
                                      ELSE f.value[f.runtime]
    BY LaunchSynced
  <1> HIDE DEF h
  <1>3. /\ Alike(h, g) /\ g.targets = h.targets /\ g.boxes = h.boxes /\ g.value = h.value /\ g.default = h.default
    BY <1>2, SizePainted DEF Alike
  <1> HIDE DEF g
  <1>4. Alike(f, g) /\ g.targets = f.targets /\ g.boxes = f.boxes
    BY <1>2, <1>3 DEF Alike
  <1>5. LaunchFor(g) = LaunchFor(f)
    BY <1>4, AlikeAgree
  <1>6. DOMAIN typed' = DOMAIN Commands
        /\ \A r \in DOMAIN Commands : typed'[r] = IF typed[r] = g.default[r] THEN Absent ELSE typed[r]
    BY <1>1 DEF Owed
  <1>7. ASSUME NEW r \in DOMAIN Commands
        PROVE  /\ typed'[r] # Absent => g.value[r] = typed'[r] /\ typed'[r] # g.default[r]
               /\ typed'[r] = Absent => g.value[r] = g.default[r]
    <2>1. CASE r = f.runtime
      BY <1>2, <1>3, <1>6, <2>1 DEF LaunchOK
    <2>2. CASE r # f.runtime
      BY <1>2, <1>3, <1>6, <2>2 DEF LaunchOK
    <2>3. QED  BY <2>1, <2>2
  <1>8. g.runtime \in DOMAIN Commands => g.default[g.runtime] = LaunchFor(g)
    BY <1>2, <1>3, <1>4, <1>5 DEF Alike
  <1>9. LaunchOK'
    BY <1>1, <1>6, <1>7, <1>8 DEF LaunchOK, LaunchFor, HasTemplate, TemplateFor
  <1>10. QED  BY <1>1, <1>4, <1>9 DEF Alike

LEMMA MovedKeeps == ASSUME UnderWay, Moved PROVE UnderWay'
  <1>1. CASE submission = Idle
    BY <1>1 DEF UnderWay, Moved, Busy
  <1>2. CASE submission # Idle
    <2>1. submission' = [submission EXCEPT !.moved = TRUE]
      BY <1>2 DEF Moved, Busy
    <2>2. DOMAIN submission = IF submission.stage = "icon" THEN IconNames ELSE JobNames
      BY <1>2 DEF UnderWay
    <2>3. /\ DOMAIN submission' = DOMAIN submission /\ submission'.moved = TRUE
          /\ \A x \in DOMAIN submission \ {"moved"} : submission'[x] = submission[x]
      BY <2>1, <2>2 DEF IconNames, JobNames
    <2>4. CASE submission.stage = "icon"
      <3>1. submission'.stage = "icon"
        BY <2>2, <2>3, <2>4 DEF IconNames
      <3>2. QED  BY <2>2, <2>3, <2>4, <3>1 DEF UnderWay
    <2>5. CASE submission.stage # "icon"
      <3>1. /\ submission'.stage = submission.stage /\ submission'.job = submission.job
            /\ submission'.meant = submission.meant /\ submission'.built = submission.built
        BY <2>2, <2>3, <2>5 DEF IconNames, JobNames
      <3>2. QED  BY <1>2, <2>2, <2>3, <2>5, <3>1 DEF UnderWay
    <2>6. QED  BY <2>4, <2>5
  <1>3. QED  BY <1>1, <1>2

LEMMA ChooseKeeps ==
    ASSUME NewPageInv, NEW f, FieldsShape(f), f.value = fields.value, f.default = fields.default,
           f.boxes = fields.boxes, Choose(f)
    PROVE  NewPageInv'
  <1> DEFINE g == FitPlatforms(f)
             h == IF f.runtime = fields.runtime THEN g ELSE PaintOfflineArches(g, catalog)
  <1>1. /\ unticked' = UntickedBy(f) /\ Changed(h) /\ ticked' = {} /\ Moved
        /\ UNCHANGED <<apiAt, catalog, catalogSeq, missed, fetches, posted>>
    BY DEF Choose, RestOfPage
  <1>2. /\ Alike(f, g) /\ g.boxes = f.boxes /\ g.value = f.value /\ g.default = f.default
        /\ Fits(f) => g.targets \subseteq TemplateFor(f).platforms
    BY PlatformsFitted
  <1> HIDE DEF g
  <1>3. LET q == PaintOfflineArches(g, catalog) IN
        /\ Alike(g, q) /\ q.targets = g.targets /\ q.value = g.value /\ q.default = g.default
        /\ q.boxes = g.boxes \cap HasBuild(g, catalog)
    BY <1>2, ArchesPainted DEF Alike
  <1>4. /\ Alike(f, h) /\ h.value = f.value /\ h.default = f.default /\ h.targets = g.targets
        /\ h.boxes \subseteq HasBuild(h, catalog)
    <2>1. CASE f.runtime = fields.runtime
      BY <1>2, <2>1 DEF NewPageInv, FormOK, BoxesOK, HasBuild, Alike
    <2>2. CASE f.runtime # fields.runtime
      BY <1>2, <1>3, <2>2 DEF HasBuild, Alike
    <2>3. QED  BY <2>1, <2>2
  <1> HIDE DEF h
  <1>5. FieldsShape(h)
    BY <1>4 DEF Alike
  <1>6. /\ FieldsShape(fields') /\ Alike(h, fields') /\ LaunchOK' /\ maker' = PaintWhere(fields', apiAt')
        /\ fields'.targets = h.targets /\ fields'.boxes = h.boxes
    BY <1>1, <1>4, <1>5, ChangedKeeps DEF NewPageInv, FormOK
  <1>7. BoxesOK'
    BY <1>1, <1>4, <1>6 DEF BoxesOK, HasBuild, Alike
  <1>8. FittedOK'
    <2>1. Alike(f, fields')
      BY <1>4, <1>6 DEF Alike
    <2>2. (Fits(fields') => Fits(f)) /\ TemplateFor(fields') = TemplateFor(f)
      BY <2>1, AlikeAgree
    <2>3. Fits(f) => /\ fields'.targets \subseteq TemplateFor(f).platforms
                     /\ unticked' \cap TemplateFor(f).platforms = {}
      BY <1>1, <1>2, <1>4, <1>6 DEF UntickedBy
    <2>4. QED  BY <1>1, <2>2, <2>3 DEF FittedOK, Fits, HasTemplate, TemplateFor
  <1>9. FormOK'
    BY <1>6, <1>7, <1>8 DEF FormOK, FieldsShape, PaintWhere
  <1>10. TableOK' /\ PostedOK'
    BY <1>1 DEF NewPageInv, TableOK, PostedOK
  <1>11. UnderWay'
    BY <1>1, MovedKeeps DEF NewPageInv
  <1>12. QED  BY <1>9, <1>10, <1>11 DEF NewPageInv

LEMMA ChoosingKeeps ==
    ASSUME NewPageInv, ChooseSource \/ ChooseRuntime \/ ChooseTemplate
    PROVE  NewPageInv'
  <1>1. FieldsShape(fields)
    BY DEF NewPageInv, FormOK
  <1>2. ASSUME NEW k \in {"repo", "write", "local"}, Choose([fields EXCEPT !.kind = k])
        PROVE  NewPageInv'
    <2> DEFINE f == [fields EXCEPT !.kind = k]
    <2>1. FieldsShape(f) /\ f.value = fields.value /\ f.default = fields.default /\ f.boxes = fields.boxes
      BY <1>1 DEF FieldsShape, FieldNames
    <2>2. Choose(f)
      BY <1>2
    <2> HIDE DEF f
    <2>3. QED  BY <2>1, <2>2, ChooseKeeps
  <1>3. ASSUME NEW r, Choose([fields EXCEPT !.runtime = r])
        PROVE  NewPageInv'
    <2> DEFINE f == [fields EXCEPT !.runtime = r]
    <2>1. FieldsShape(f) /\ f.value = fields.value /\ f.default = fields.default /\ f.boxes = fields.boxes
      BY <1>1 DEF FieldsShape, FieldNames
    <2>2. Choose(f)
      BY <1>3
    <2> HIDE DEF f
    <2>3. QED  BY <2>1, <2>2, ChooseKeeps
  <1>4. ASSUME NEW t, Choose([fields EXCEPT !.template = t])
        PROVE  NewPageInv'
    <2> DEFINE f == [fields EXCEPT !.template = t]
    <2>1. FieldsShape(f) /\ f.value = fields.value /\ f.default = fields.default /\ f.boxes = fields.boxes
      BY <1>1 DEF FieldsShape, FieldNames
    <2>2. Choose(f)
      BY <1>4
    <2> HIDE DEF f
    <2>3. QED  BY <2>1, <2>2, ChooseKeeps
  <1>5. QED  BY <1>2, <1>3, <1>4 DEF ChooseSource, ChooseRuntime, ChooseTemplate

LEMMA BoxKeeps == ASSUME NewPageInv, Tick PROVE NewPageInv'
  <1>1. FieldsShape(fields) /\ BoxesOK
    BY DEF NewPageInv, FormOK
  <1>2. PICK f \in {[fields EXCEPT !.targets = IF p \in @ THEN @ \ {p} ELSE @ \cup {p}] : p \in Systems}
             \cup {[fields EXCEPT !.boxes = IF x \in @ THEN @ \ {x} ELSE @ \cup {x}] : x \in HasBuild(fields, catalog)}
             \cup {[fields EXCEPT !.offline = ~@]} :
        /\ Changed(f)
        /\ ticked' = (ticked \cup (f.targets \ fields.targets)) \cap f.targets
        /\ Moved /\ RestOfPage /\ UNCHANGED unticked
    BY DEF Tick
  <1>3. /\ FieldsShape(f) /\ f.value = fields.value /\ f.default = fields.default
        /\ f.kind = fields.kind /\ f.runtime = fields.runtime /\ f.template = fields.template
        /\ f.boxes \subseteq HasBuild(fields, catalog)
    <2>1. CASE \E p \in Systems : f = [fields EXCEPT !.targets = IF p \in @ THEN @ \ {p} ELSE @ \cup {p}]
      BY <1>1, <2>1 DEF FieldsShape, FieldNames, BoxesOK
    <2>2. CASE \E x \in HasBuild(fields, catalog) : f = [fields EXCEPT !.boxes = IF x \in @ THEN @ \ {x} ELSE @ \cup {x}]
      BY <1>1, <2>2 DEF FieldsShape, FieldNames, BoxesOK
    <2>3. CASE f = [fields EXCEPT !.offline = ~@]
      BY <1>1, <2>3 DEF FieldsShape, FieldNames, BoxesOK
    <2>4. QED  BY <2>1, <2>2, <2>3
  <1>4. UNCHANGED <<apiAt, catalog, catalogSeq, missed, fetches, posted, unticked>>
    BY <1>2 DEF RestOfPage
  <1>5. /\ FieldsShape(fields') /\ Alike(f, fields') /\ LaunchOK' /\ maker' = PaintWhere(fields', apiAt')
        /\ fields'.targets = f.targets /\ fields'.boxes = f.boxes
    BY <1>2, <1>3, <1>4, ChangedKeeps DEF NewPageInv, FormOK
  <1>6. BoxesOK'
    BY <1>3, <1>4, <1>5 DEF BoxesOK, HasBuild, Alike
  <1>7. FittedOK'
    <2>1. /\ fields'.kind = fields.kind /\ fields'.runtime = fields.runtime /\ fields'.template = fields.template
      BY <1>3, <1>5 DEF Alike
    <2>2. (Fits(fields') => Fits(fields)) /\ TemplateFor(fields') = TemplateFor(fields)
      BY <2>1 DEF Fits, HasTemplate, TemplateFor
    <2>3. QED  BY <1>2, <1>4, <1>5, <2>2 DEF NewPageInv, FormOK, FittedOK, Fits, HasTemplate, TemplateFor
  <1>8. FormOK'
    BY <1>5, <1>6, <1>7 DEF FormOK, FieldsShape, PaintWhere
  <1>9. TableOK' /\ PostedOK'
    BY <1>4 DEF NewPageInv, TableOK, PostedOK
  <1>10. UnderWay'
    BY <1>2, MovedKeeps DEF NewPageInv
  <1>11. QED  BY <1>8, <1>9, <1>10 DEF NewPageInv

\* What the rest of the page leaves alone.
LEMMA FittedStays ==
    ASSUME FittedOK, UNCHANGED <<unticked, ticked>>, fields'.targets = fields.targets,
           fields'.kind = fields.kind, fields'.runtime = fields.runtime, fields'.template = fields.template
    PROVE  FittedOK'
  <1>1. (Fits(fields') => Fits(fields)) /\ TemplateFor(fields') = TemplateFor(fields)
    BY DEF Fits, HasTemplate, TemplateFor
  <1>2. QED  BY <1>1 DEF FittedOK, Fits, HasTemplate, TemplateFor

LEMMA TypeLaunchKeeps == ASSUME NewPageInv, TypeLaunch PROVE NewPageInv'
  <1>1. PICK x \in Writes :
          LET f == SyncLaunchDefault([fields EXCEPT !.value[fields.runtime] = x])
          IN  fields' = f /\ typed' = Owed(f, [typed EXCEPT ![fields.runtime] = x])
    BY DEF TypeLaunch
  <1>2. /\ fields.runtime \in DOMAIN Commands /\ Moved
        /\ UNCHANGED <<apiAt, catalog, catalogSeq, missed, fetches, posted, unticked, maker, ticked>>
    BY DEF TypeLaunch, RestOfPage
  <1>3. x # Absent
    BY NewPageAssumption
  <1> DEFINE r == fields.runtime
             h == [fields EXCEPT !.value[r] = x]
             f == SyncLaunchDefault(h)
  <1>4. /\ FieldsShape(h) /\ h.default = fields.default /\ h.value = [fields.value EXCEPT ![r] = x]
        /\ Alike(fields, h) /\ h.boxes = fields.boxes /\ h.targets = fields.targets
    BY DEF NewPageInv, FormOK, FieldsShape, FieldNames, Alike
  <1>5. fields' = f /\ typed' = Owed(f, [typed EXCEPT ![r] = x])
    BY <1>1
  <1> HIDE DEF h
  <1>6. /\ Alike(h, f) /\ f.targets = h.targets /\ f.boxes = h.boxes
        /\ \A q \in DOMAIN Commands \ {h.runtime} : f.value[q] = h.value[q] /\ f.default[q] = h.default[q]
        /\ f.default[r] = LaunchFor(h)
        /\ f.value[r] = IF h.value[r] = h.default[r] THEN LaunchFor(h) ELSE h.value[r]
    <2>1. h.runtime = r
      BY <1>4 DEF Alike
    <2>2. FieldsShape(h)
      BY <1>4
    <2>3. /\ Alike(h, f) /\ f.targets = h.targets /\ f.boxes = h.boxes
          /\ \A q \in DOMAIN Commands \ {h.runtime} : f.value[q] = h.value[q] /\ f.default[q] = h.default[q]
          /\ h.runtime \in DOMAIN Commands =>
                /\ f.default[h.runtime] = LaunchFor(h)
                /\ f.value[h.runtime] = IF h.value[h.runtime] = h.default[h.runtime] THEN LaunchFor(h)
                                        ELSE h.value[h.runtime]
      BY <2>2, LaunchSynced
    <2> HIDE DEF f
    <2>4. QED  BY <1>2, <2>1, <2>3
  <1> HIDE DEF f
  <1>7. Alike(fields, f) /\ f.runtime = r
    BY <1>4, <1>6 DEF Alike
  <1>8. LaunchFor(f) = LaunchFor(fields) /\ LaunchFor(h) = LaunchFor(fields)
    BY <1>4, <1>7, AlikeAgree
  <1>9. fields.default[r] = LaunchFor(fields) /\ f.default[r] = fields.default[r]
    BY <1>2, <1>6, <1>8 DEF NewPageInv, FormOK, LaunchOK
  <1>10. /\ h.value[r] = x
         /\ \A q \in DOMAIN Commands \ {r} : h.value[q] = fields.value[q]
    BY <1>2, <1>4 DEF NewPageInv, FormOK, FieldsShape
  <1>11. f.value[r] = x
    BY <1>4, <1>6, <1>8, <1>9, <1>10
  <1>12. /\ DOMAIN typed' = DOMAIN Commands
         /\ typed'[r] = IF x = f.default[r] THEN Absent ELSE x
         /\ \A q \in DOMAIN Commands \ {r} : typed'[q] = IF typed[q] = f.default[q] THEN Absent ELSE typed[q]
    BY <1>2, <1>5 DEF Owed, NewPageInv, FormOK, LaunchOK
  <1>13. ASSUME NEW q \in DOMAIN Commands
         PROVE  /\ typed'[q] # Absent => f.value[q] = typed'[q] /\ typed'[q] # f.default[q]
                /\ typed'[q] = Absent => f.value[q] = f.default[q]
    <2>1. CASE q = r
      BY <1>3, <1>11, <1>12, <2>1
    <2>2. CASE q # r
      BY <1>4, <1>6, <1>7, <1>10, <1>12, <2>2 DEF NewPageInv, FormOK, LaunchOK, Alike
    <2>3. QED  BY <2>1, <2>2
  <1>14. LaunchOK'
    BY <1>5, <1>7, <1>8, <1>9, <1>12, <1>13 DEF LaunchOK, LaunchFor, HasTemplate, TemplateFor
  <1>15. BoxesOK' /\ FittedOK' /\ FieldsShape(fields)' /\ maker' = PaintWhere(fields, apiAt)'
    <2>1. /\ fields'.kind = fields.kind /\ fields'.runtime = fields.runtime /\ fields'.template = fields.template
          /\ fields'.targets = fields.targets /\ fields'.boxes = fields.boxes
      BY <1>4, <1>5, <1>6, <1>7 DEF Alike
    <2>2. FittedOK'
      BY <1>2, <2>1, FittedStays DEF NewPageInv, FormOK
    <2>3. FieldsShape(fields)'
      BY <1>5, <1>7 DEF Alike, FieldsShape
    <2>4. QED  BY <1>2, <2>1, <2>2, <2>3 DEF NewPageInv, FormOK, BoxesOK, HasBuild, PaintWhere
  <1>16. TableOK' /\ PostedOK'
    BY <1>2 DEF NewPageInv, TableOK, PostedOK
  <1>17. UnderWay'
    BY <1>2, MovedKeeps DEF NewPageInv
  <1>18. QED  BY <1>14, <1>15, <1>16, <1>17 DEF NewPageInv, FormOK

LEMMA TypeSourceKeeps == ASSUME NewPageInv, TypeSource PROVE NewPageInv'
  <1>1. PICK s : fields' = [fields EXCEPT !.source = s]
    BY DEF TypeSource
  <1>2. /\ Moved
        /\ UNCHANGED <<apiAt, catalog, catalogSeq, missed, fetches, posted, unticked, maker, typed, ticked>>
    BY DEF TypeSource, RestOfPage
  <1>3. /\ FieldsShape(fields)' /\ fields'.kind = fields.kind /\ fields'.runtime = fields.runtime
        /\ fields'.template = fields.template /\ fields'.targets = fields.targets /\ fields'.boxes = fields.boxes
        /\ fields'.value = fields.value /\ fields'.default = fields.default
    BY <1>1 DEF NewPageInv, FormOK, FieldsShape, FieldNames
  <1>4. LaunchFor(fields)' = LaunchFor(fields)
    BY <1>3 DEF LaunchFor, HasTemplate, TemplateFor
  <1>5. LaunchOK'
    BY <1>2, <1>3, <1>4 DEF NewPageInv, FormOK, LaunchOK
  <1>6. FittedOK'
    BY <1>2, <1>3, FittedStays DEF NewPageInv, FormOK
  <1>7. FormOK'
    BY <1>2, <1>3, <1>5, <1>6 DEF NewPageInv, FormOK, BoxesOK, HasBuild, PaintWhere
  <1>8. TableOK' /\ PostedOK'
    BY <1>2 DEF NewPageInv, TableOK, PostedOK
  <1>9. UnderWay'
    BY <1>2, MovedKeeps DEF NewPageInv
  <1>10. QED  BY <1>7, <1>8, <1>9 DEF NewPageInv

\* What is under way, when neither the kind of the source nor the place moves.
LEMMA UnderWayStays ==
    ASSUME UnderWay, UNCHANGED <<submission, apiAt>>, fields'.kind = fields.kind
    PROVE  UnderWay'
  BY DEF UnderWay, PaintWhere

LEMMA PickArchiveKeeps == ASSUME NewPageInv, PickArchive PROVE NewPageInv'
  <1>1. /\ Changed(fields)
        /\ UNCHANGED <<unticked, apiAt, catalog, catalogSeq, missed, fetches, submission, posted, ticked>>
    BY DEF PickArchive
  <1>2. /\ FieldsShape(fields') /\ Alike(fields, fields') /\ LaunchOK' /\ maker' = PaintWhere(fields', apiAt')
        /\ fields'.targets = fields.targets /\ fields'.boxes = fields.boxes
    BY <1>1, ChangedKeeps DEF NewPageInv, FormOK
  <1>3. FittedOK'
    BY <1>1, <1>2, FittedStays DEF NewPageInv, FormOK, Alike
  <1>4. FormOK'
    BY <1>1, <1>2, <1>3 DEF NewPageInv, FormOK, BoxesOK, HasBuild, PaintWhere, FieldsShape, Alike
  <1>5. TableOK' /\ PostedOK'
    BY <1>1 DEF NewPageInv, TableOK, PostedOK
  <1>6. UnderWay'
    BY <1>1, <1>2, UnderWayStays DEF NewPageInv, Alike
  <1>7. QED  BY <1>4, <1>5, <1>6 DEF NewPageInv

\* The parts that speak of the form, when the form and what is owed stay.
LEMMA FormStays ==
    ASSUME FormOK, UNCHANGED <<fields, catalog, typed, unticked, ticked>>, maker' = PaintWhere(fields, apiAt')
    PROVE  FormOK'
  BY DEF FormOK, FieldsShape, LaunchOK, BoxesOK, FittedOK, PaintWhere, LaunchFor, Fits, HasTemplate, TemplateFor, HasBuild

LEMMA PlaceKeeps == ASSUME NewPageInv, PlaceChanges \/ CatalogChanges PROVE NewPageInv'
  <1>1. PICK place : /\ apiAt' = place /\ maker' = PaintWhere(fields, place) /\ FetchCatalog(place)
                     /\ Moved \/ UNCHANGED <<submission, apiAt>>
                     /\ UNCHANGED <<fields, unticked, catalog, posted, typed, ticked>>
    BY DEF PlaceChanges, CatalogChanges, NewPageInv, FormOK
  <1>2. FormOK'
    BY <1>1, FormStays DEF NewPageInv
  <1>3. TableOK'
    <2>1. catalogSeq' \in DOMAIN fetches' /\ fetches'[catalogSeq'] = place
      BY <1>1 DEF FetchCatalog
    <2>2. QED  BY <1>1, <2>1 DEF TableOK
  <1>4. UnderWay'
    BY <1>1, MovedKeeps, UnderWayStays DEF NewPageInv
  <1>5. PostedOK'
    BY <1>1 DEF NewPageInv, PostedOK
  <1>6. QED  BY <1>2, <1>3, <1>4, <1>5 DEF NewPageInv

LEMMA AnswersKeep == ASSUME NewPageInv, CatalogAnswers PROVE NewPageInv'
  <1>1. PICK n \in DOMAIN fetches :
          LET table == [of |-> fetches[n], seq |-> n]
          IN  /\ fetches' = [m \in DOMAIN fetches \ {n} |-> fetches[m]]
              /\ \/ missed' = (missed \/ n = catalogSeq) /\ UNCHANGED <<catalog, fields>>
                 \/ /\ Wanted(n)
                    /\ catalog' = table
                    /\ fields' = PaintOfflineSize(PaintOfflineArches(fields, table))
                    /\ UNCHANGED missed
                 \/ ~Wanted(n) /\ UNCHANGED <<catalog, fields, missed>>
    BY DEF CatalogAnswers
  <1>2. UNCHANGED <<unticked, localPick, reads, apiAt, catalogSeq, maker, submission, posted, typed, ticked>>
    BY DEF CatalogAnswers
  <1>3. CASE UNCHANGED <<catalog, fields>> /\ (missed' = (missed \/ n = catalogSeq) \/ (~Wanted(n) /\ UNCHANGED missed))
    <2>1. FormOK'
      BY <1>2, <1>3, FormStays DEF NewPageInv, FormOK
    <2>2. TableOK'
      BY <1>1, <1>2, <1>3 DEF NewPageInv, TableOK, Wanted
    <2>3. UnderWay' /\ PostedOK'
      BY <1>2, <1>3, UnderWayStays DEF NewPageInv, PostedOK
    <2>4. QED  BY <2>1, <2>2, <2>3 DEF NewPageInv
  <1>4. CASE /\ Wanted(n) /\ catalog' = [of |-> fetches[n], seq |-> n] /\ UNCHANGED missed
             /\ fields' = PaintOfflineSize(PaintOfflineArches(fields, [of |-> fetches[n], seq |-> n]))
    <2>1. PICK table : table = [of |-> fetches[n], seq |-> n]
      OBVIOUS
    <2> DEFINE h == PaintOfflineArches(fields, table)
    <2>2. /\ Alike(fields, h) /\ h.targets = fields.targets /\ h.value = fields.value /\ h.default = fields.default
          /\ h.boxes = fields.boxes \cap HasBuild(fields, table)
      BY ArchesPainted DEF NewPageInv, FormOK
    <2>3. fields' = PaintOfflineSize(h)
      BY <1>4, <2>1
    <2> HIDE DEF h
    <2>4. LET g == PaintOfflineSize(h) IN
          /\ Alike(h, g) /\ g.targets = h.targets /\ g.boxes = h.boxes /\ g.value = h.value /\ g.default = h.default
      BY <2>2, SizePainted DEF Alike
    <2>5. /\ FieldsShape(fields') /\ Alike(fields, fields') /\ fields'.targets = fields.targets
          /\ fields'.value = fields.value /\ fields'.default = fields.default
          /\ fields'.boxes = fields.boxes \cap HasBuild(fields, table)
      BY <2>2, <2>3, <2>4 DEF Alike
    <2>6. LaunchFor(fields') = LaunchFor(fields) /\ HasBuild(fields', table) = HasBuild(fields, table)
          /\ PaintWhere(fields', apiAt) = PaintWhere(fields, apiAt)
      BY <2>5, AlikeAgree
    <2>7. LaunchOK'
      BY <1>2, <2>5, <2>6 DEF NewPageInv, FormOK, LaunchOK, LaunchFor, HasTemplate, TemplateFor, Alike
    <2>8. BoxesOK'
      BY <1>4, <2>1, <2>5, <2>6 DEF BoxesOK, HasBuild
    <2>9. FittedOK'
      BY <1>2, <2>5, FittedStays DEF NewPageInv, FormOK, Alike
    <2>10. FormOK'
      BY <1>2, <2>5, <2>6, <2>7, <2>8, <2>9 DEF NewPageInv, FormOK, FieldsShape, PaintWhere
    <2>11. TableOK'
      BY <1>1, <1>2, <1>4 DEF NewPageInv, TableOK, Wanted
    <2>12. UnderWay' /\ PostedOK'
      BY <1>2, <2>5, UnderWayStays DEF NewPageInv, PostedOK, Alike
    <2>13. QED  BY <2>10, <2>11, <2>12 DEF NewPageInv
  <1>5. QED  BY <1>1, <1>3, <1>4

LEMMA SubmitKeeps == ASSUME NewPageInv, Submit PROVE NewPageInv'
  <1>1. /\ submission' = [stage |-> "icon", said |-> maker, moved |-> FALSE]
        /\ UNCHANGED <<fields, catalog, typed, unticked, ticked, maker, apiAt, catalogSeq, missed, fetches, posted>>
    BY DEF Submit, RestOfPage
  <1>2. FormOK' /\ TableOK' /\ PostedOK'
    BY <1>1, FormStays DEF NewPageInv, FormOK, TableOK, PostedOK
  <1>3. UnderWay'
    BY <1>1 DEF NewPageInv, FormOK, UnderWay, IconNames, PaintWhere
  <1>4. QED  BY <1>2, <1>3 DEF NewPageInv

\* A form that is sent starts what is meant and packs what has a build.
LEMMA JobIsMeant ==
    ASSUME FormOK, ProblemsOf(fields, Uploaded(fields)) = {}
    PROVE  LET job == JobFromForm(fields, Uploaded(fields)) IN
           /\ job.launch = Meant(fields) /\ job.targets \subseteq HasBuild(fields, catalog)
           /\ PaintWhere(fields, apiAt) = IF job.upload THEN "page" ELSE apiAt
  <1> DEFINE job == JobFromForm(fields, Uploaded(fields))
             r == fields.runtime
  <1>1. fields.kind = "write" => HasTemplate(fields)
    <2>1. "template" \notin ProblemsOf(fields, Uploaded(fields))
      OBVIOUS
    <2>2. QED  BY <2>1 DEF ProblemsOf
  <1>2. job.launch = Meant(fields)
    <2>1. job.launch = IF fields.kind = "write" /\ ~LaunchEdited(fields) THEN TemplateFor(fields).launch
                       ELSE IF r \in DOMAIN Commands THEN fields.value[r] ELSE Absent
      BY DEF JobFromForm
    <2>2. CASE r \in DOMAIN Commands
      <3>1. fields.default[r] = LaunchFor(fields)
        BY <2>2 DEF FormOK, LaunchOK
      <3>2. CASE typed[r] # Absent
        <4>1. fields.value[r] = typed[r] /\ LaunchEdited(fields)
          BY <2>2, <3>2 DEF FormOK, LaunchOK, LaunchEdited
        <4>2. QED  BY <2>1, <2>2, <3>2, <4>1 DEF Meant
      <3>3. CASE typed[r] = Absent
        <4>1. fields.value[r] = LaunchFor(fields) /\ ~LaunchEdited(fields)
          BY <2>2, <3>1, <3>3 DEF FormOK, LaunchOK, LaunchEdited
        <4>2. fields.kind = "write" => TemplateFor(fields).launch = LaunchFor(fields)
          BY <1>1 DEF LaunchFor
        <4>3. QED  BY <2>1, <2>2, <3>3, <4>1, <4>2 DEF Meant
      <3>4. QED  BY <3>2, <3>3
    <2>3. CASE r \notin DOMAIN Commands
      <3>1. fields.kind = "write" => TemplateFor(fields).launch = LaunchFor(fields)
        BY <1>1 DEF LaunchFor
      <3>2. ~LaunchEdited(fields)
        BY <2>3 DEF LaunchEdited
      <3>3. QED  BY <2>1, <2>3, <3>1, <3>2 DEF Meant
    <2>4. QED  BY <2>2, <2>3
  <1>3. job.targets \subseteq fields.boxes
    BY DEF JobFromForm
  <1>4. fields.boxes \subseteq HasBuild(fields, catalog)
    BY DEF FormOK, BoxesOK
  <1>5. job.upload = (fields.kind = "local")
    BY DEF JobFromForm
  <1>6. PaintWhere(fields, apiAt) = IF job.upload THEN "page" ELSE apiAt
    BY <1>5 DEF PaintWhere
  <1>7. QED  BY <1>2, <1>3, <1>4, <1>6

LEMMA IconReadKeeps == ASSUME NewPageInv, IconRead PROVE NewPageInv'
  <1>1. UNCHANGED <<fields, catalog, typed, unticked, ticked, maker, apiAt, catalogSeq, missed, fetches, posted>>
    BY DEF IconRead, RestOfPage
  <1>2. FormOK' /\ TableOK' /\ PostedOK'
    BY <1>1, FormStays DEF NewPageInv, FormOK, TableOK, PostedOK
  <1>3. UnderWay'
    <2>1. CASE submission' = Idle
      BY <2>1 DEF UnderWay
    <2>2. CASE submission' # Idle
      <3> DEFINE job == JobFromForm(fields, Uploaded(fields))
      <3>1. /\ ProblemsOf(fields, Uploaded(fields)) = {} /\ submission # Idle /\ submission.stage = "icon"
            /\ submission' = [stage |-> IF job.offline /\ apiAt = "page" THEN "ask" ELSE "send", job |-> job,
                              said |-> submission.said, moved |-> submission.moved,
                              meant |-> Meant(fields), built |-> HasBuild(fields, catalog)]
        BY <2>2 DEF IconRead, Busy
      <3>2. /\ job.launch = Meant(fields) /\ job.targets \subseteq HasBuild(fields, catalog)
            /\ PaintWhere(fields, apiAt) = IF job.upload THEN "page" ELSE apiAt
        BY <3>1, JobIsMeant DEF NewPageInv
      <3>3. submission.said = PaintWhere(fields, apiAt) \/ submission.moved
        BY <3>1 DEF NewPageInv, UnderWay
      <3>4. PICK j : j = job
        OBVIOUS
      <3>5. PICK m, b : m = Meant(fields) /\ b = HasBuild(fields, catalog)
        OBVIOUS
      <3> HIDE DEF job
      <3>6. /\ DOMAIN submission' = JobNames /\ submission'.stage # "icon" /\ submission'.job = j
            /\ submission'.said = submission.said /\ submission'.moved = submission.moved
            /\ submission'.meant = m /\ submission'.built = b
        BY <3>1, <3>4, <3>5 DEF JobNames, IconNames
      <3>7. QED  BY <1>1, <3>2, <3>3, <3>4, <3>5, <3>6 DEF UnderWay
    <2>3. QED  BY <2>1, <2>2
  <1>4. QED  BY <1>2, <1>3 DEF NewPageInv

LEMMA AskedKeeps == ASSUME NewPageInv, Asked PROVE NewPageInv'
  <1>1. UNCHANGED <<fields, catalog, typed, unticked, ticked, maker, apiAt, catalogSeq, missed, fetches, posted>>
    BY DEF Asked, RestOfPage
  <1>2. FormOK' /\ TableOK' /\ PostedOK'
    BY <1>1, FormStays DEF NewPageInv, FormOK, TableOK, PostedOK
  <1>3. /\ submission # Idle /\ submission.stage = "ask" /\ submission' = [submission EXCEPT !.stage = "send"]
    BY DEF Asked, Busy
  <1>4. DOMAIN submission = JobNames
    BY <1>3 DEF NewPageInv, UnderWay
  <1>5. /\ DOMAIN submission' = JobNames /\ submission'.stage = "send" /\ submission'.job = submission.job
        /\ submission'.said = submission.said /\ submission'.moved = submission.moved
        /\ submission'.meant = submission.meant /\ submission'.built = submission.built
    BY <1>3, <1>4 DEF JobNames, IconNames
  <1>6. UnderWay'
    BY <1>1, <1>3, <1>5 DEF NewPageInv, UnderWay
  <1>7. QED  BY <1>2, <1>6 DEF NewPageInv

LEMMA SendKeeps == ASSUME NewPageInv, Send PROVE NewPageInv'
  <1>1. /\ submission # Idle /\ submission.stage = "send" /\ submission' = Idle
        /\ posted' = [to |-> IF submission.job.upload THEN "page" ELSE apiAt, job |-> submission.job,
                      said |-> submission.said, moved |-> submission.moved,
                      meant |-> submission.meant, built |-> submission.built]
        /\ UNCHANGED <<fields, catalog, typed, unticked, ticked, maker, apiAt, catalogSeq, missed, fetches>>
    BY DEF Send, Busy
  <1>2. FormOK' /\ TableOK'
    BY <1>1, FormStays DEF NewPageInv, FormOK, TableOK
  <1>3. UnderWay'
    BY <1>1 DEF UnderWay
  <1>4. PostedOK'
    <2>1. /\ submission.said = (IF submission.job.upload THEN "page" ELSE apiAt) \/ submission.moved
          /\ submission.job.launch = submission.meant /\ submission.job.targets \subseteq submission.built
      BY <1>1 DEF NewPageInv, UnderWay
    <2>2. QED  BY <1>1, <2>1 DEF PostedOK
  <1>5. QED  BY <1>2, <1>3, <1>4 DEF NewPageInv

LEMMA NewPageStarts == InitNewPage => NewPageInv
  <1> SUFFICES ASSUME InitNewPage PROVE NewPageInv
    OBVIOUS
  <1> DEFINE r == CHOOSE q \in DOMAIN Commands : TRUE
             on == {x \in DOMAIN Packable : Packable[x].on}
             opened == [kind |-> "repo", runtime |-> r,
                        template |-> "script", source |-> Absent, mode |-> "C",
                        targets |-> {}, boxes |-> on, offline |-> FALSE, zip |-> FALSE,
                        value |-> Commands, default |-> Commands]
  <1>1. PICK p \in Computers, m \in {"A", "C"} : fields = [opened EXCEPT !.targets = {p}, !.mode = m]
    BY DEF InitNewPage
  <1>2. /\ maker = PaintWhere(fields, apiAt) /\ catalogSeq = 1 /\ fetches = [n \in {1} |-> apiAt]
        /\ catalog = NoTable /\ submission = Idle /\ posted = NothingSent
        /\ typed = [q \in DOMAIN Commands |-> Absent] /\ unticked = {}
    BY DEF InitNewPage
  <1>3. /\ FieldsShape(fields) /\ fields.kind = "repo" /\ fields.boxes = on
        /\ fields.value = Commands /\ fields.default = Commands
    BY <1>1 DEF FieldsShape, FieldNames
  <1>4. LaunchOK
    BY <1>2, <1>3 DEF LaunchOK, LaunchFor
  <1>5. BoxesOK
    BY <1>2, <1>3 DEF BoxesOK, HasBuild
  <1>6. FittedOK /\ UnderWay /\ PostedOK /\ TableOK
    BY <1>2, <1>3 DEF FittedOK, Fits, UnderWay, PostedOK, TableOK
  <1>7. QED  BY <1>2, <1>3, <1>4, <1>5, <1>6 DEF NewPageInv, FormOK

LEMMA NewPageStutters == ASSUME NewPageInv, UNCHANGED newPageVars PROVE NewPageInv'
  <1>1. UNCHANGED <<fields, catalog, typed, unticked, ticked, maker, apiAt, catalogSeq, missed, fetches, posted, submission>>
    BY DEF newPageVars
  <1>2. FormOK' /\ TableOK' /\ PostedOK' /\ UnderWay'
    BY <1>1, FormStays, UnderWayStays DEF NewPageInv, FormOK, TableOK, PostedOK
  <1>3. QED  BY <1>2 DEF NewPageInv

LEMMA ArchiveReadKeeps == ASSUME NewPageInv, ArchiveRead PROVE NewPageInv'
  <1>1. UNCHANGED <<fields, catalog, typed, unticked, ticked, maker, apiAt, catalogSeq, missed, fetches, posted, submission>>
    BY DEF ArchiveRead
  <1>2. FormOK' /\ TableOK' /\ PostedOK' /\ UnderWay'
    BY <1>1, FormStays, UnderWayStays DEF NewPageInv, FormOK, TableOK, PostedOK
  <1>3. QED  BY <1>2 DEF NewPageInv

LEMMA NewPageInvariant == SpecNewPage => []NewPageInv
  <1>1. NewPageInv /\ [NextNewPage]_newPageVars => NewPageInv'
    <2> SUFFICES ASSUME NewPageInv, [NextNewPage]_newPageVars PROVE NewPageInv'
      OBVIOUS
    <2>1. CASE ChooseSource \/ ChooseRuntime \/ ChooseTemplate  BY <2>1, ChoosingKeeps
    <2>2. CASE Tick  BY <2>2, BoxKeeps
    <2>3. CASE TypeLaunch  BY <2>3, TypeLaunchKeeps
    <2>4. CASE TypeSource  BY <2>4, TypeSourceKeeps
    <2>5. CASE PickArchive  BY <2>5, PickArchiveKeeps
    <2>6. CASE ArchiveRead  BY <2>6, ArchiveReadKeeps
    <2>7. CASE PlaceChanges \/ CatalogChanges  BY <2>7, PlaceKeeps
    <2>8. CASE CatalogAnswers  BY <2>8, AnswersKeep
    <2>9. CASE Submit  BY <2>9, SubmitKeeps
    <2>10. CASE IconRead  BY <2>10, IconReadKeeps
    <2>11. CASE Asked  BY <2>11, AskedKeeps
    <2>12. CASE Send  BY <2>12, SendKeeps
    <2>13. CASE UNCHANGED newPageVars  BY <2>13, NewPageStutters
    <2>14. QED
      BY <2>1, <2>2, <2>3, <2>4, <2>5, <2>6, <2>7, <2>8, <2>9, <2>10, <2>11, <2>12, <2>13 DEF NextNewPage
  <1>2. QED  BY <1>1, NewPageStarts, PTL DEF SpecNewPage

(***************************************************************************)
(* In whatever order source, language and template are chosen and texts    *)
(* arrive, a launch command that was edited is sent as edited, and one     *)
(* that was left alone is that of what is chosen (syncLaunchDefault and    *)
(* jobFromForm, new.js).                                                   *)
(***************************************************************************)
THEOREM LaunchIsWhatWasMeant == SpecNewPage => []LaunchIsMeant
  <1>1. NewPageInv => LaunchIsMeant
    BY DEF NewPageInv, FormOK, LaunchOK, PostedOK, LaunchIsMeant
  <1>2. QED  BY <1>1, NewPageInvariant, PTL

(***************************************************************************)
(* A job goes to the place that stood at the Build button and packs only   *)
(* what the table that was shown has, unless the person or the place       *)
(* moved; ticks fit the template that is chosen; and the table is of the   *)
(* place in use once its answer is in (paintWhere, paintOfflineArches,     *)
(* fitPlatforms and fetchCatalog, new.js).                                 *)
(***************************************************************************)
THEOREM JobsGoWhereThePageSaid == SpecNewPage => []SentAsPainted
  <1>1. NewPageInv => SentAsPainted
    BY DEF NewPageInv, FormOK, FittedOK, TableOK, PostedOK, SentAsPainted
  <1>2. QED  BY <1>1, NewPageInvariant, PTL
=============================================================================
