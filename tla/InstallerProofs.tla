--------------------------- MODULE InstallerProofs ----------------------------
(***************************************************************************)
(* Proofs about what is made of an installer in the page and sent for it:  *)
(* SignPanel, SignServices and EditPage in the page, Admission and         *)
(* Outgoing at the server it asks. For any number of files, signings,      *)
(* orders, callers and redirects.                                          *)
(***************************************************************************)
EXTENDS SignPanel, EditPage, SignServices, Admission, Outgoing, FiniteSetTheorems, TLAPS

(***************************************************************************)
(* SignPanel. The inductive invariant: what each signing is at work on,    *)
(* that it is steady unless disturbed, and what the credentials, the       *)
(* waiting installer and the file to release belong to.                    *)
(***************************************************************************)
Signs == {"pfx", "remote", "paste", "service", "pgp"}
ChecksOf == {"checkRemote", "checkPaste"}
Signing ==
    [by : Nat, means : Signs \cup ChecksOf, service : DOMAIN Services \cup {""}, of : Nat, call : Nat,
     obj : Nat, misread : BOOLEAN, pc : {"certs", "build", "hash", "call", "finish", "check", "ended"},
     disturbed : BOOLEAN, failed : BOOLEAN]
WaiterFor == {Nobody} \cup [of : Nat, by : Nat \ {0}, disturbed : BOOLEAN]
Ways == {"remote", "paste"}

PanelTypeOK ==
    /\ opened \in Nat
    /\ choice \in {"pfx", "remote", "service"}
    /\ service \in DOMAIN Services
    /\ creds \in Nat
    /\ signings \in Seq(Signing)
    /\ waiting \in [Ways -> WaiterFor]

BegunSignings == 1..Len(signings)
IsCheck(s) == s.means \in ChecksOf
WayOf(s) == IF s.means = "checkRemote" THEN "remote" ELSE "paste"

\* What a signing that nothing came between may rely on.
Steady(j) ==
    LET s == signings[j] IN
    /\ s.pc \in {"hash", "call", "finish"} => s.of = opened
    /\ s.means \in {"service", "paste"} /\ s.pc \in {"build", "hash"} => creds = j /\ j \notin blank
    /\ s.means = "service" /\ s.pc \in {"call", "finish"} => s.obj = j /\ j \notin blank
    /\ \A i \in BegunSignings : i # j /\ AtWork(i) => IsCheck(signings[i])

SigningOK(j) ==
    LET s == signings[j] IN
    /\ s.pc = "check" => IsCheck(s)
    /\ IsCheck(s) => s.pc \in {"check", "ended"}
    /\ s.misread => s.disturbed
    /\ AtWork(j) /\ ~IsCheck(s) /\ ~s.disturbed => Steady(j)
    /\ s.means = "service" => s.pc # "certs"
    /\ s.pc = "call" => s.means = "service"
    /\ s.pc = "finish" => s.means \notin {"remote", "paste"}
    /\ s.pc = "check" =>
          /\ s.by \in BegunSignings /\ ~AtWork(s.by)
          /\ \A w \in Ways : w = WayOf(s) /\ waiting[w].by = s.by => waiting[w].of = s.of
    /\ ~IsCheck(s) => s.by = j

CredsOK ==
    creds # 0 =>
        /\ creds \in BegunSignings
        /\ signings[creds].means \in {"service", "paste"} /\ signings[creds].pc # "certs"
        /\ AtWork(creds) \/ (signings[creds].means = "paste" /\ signings[creds].failed)

BlankOK == \A j \in blank : j \in BegunSignings /\ signings[j].pc # "certs"

WaitingOK ==
    \A w \in Ways : waiting[w] # Nobody =>
        /\ waiting[w].of = opened \/ waiting[w].disturbed
        /\ waiting[w].by \in BegunSignings /\ ~AtWork(waiting[w].by)

ReleaseOK == release # Nobody => release.named = release.of \/ release.disturbed

PanelInv ==
    /\ PanelTypeOK
    /\ \A j \in BegunSignings : SigningOK(j)
    /\ BlankOK
    /\ CredsOK
    /\ WaitingOK
    /\ ReleaseOK

LEMMA SigningIs ==
    ASSUME PanelTypeOK, NEW j \in BegunSignings
    PROVE  signings[j] \in Signing
  BY DEF PanelTypeOK, BegunSignings

LEMMA DisturbedIs ==
    ASSUME PanelTypeOK
    PROVE  /\ Disturbed \in Seq(Signing) /\ Len(Disturbed) = Len(signings)
           /\ \A i \in BegunSignings : AtWork(i) => Disturbed[i] = [signings[i] EXCEPT !.disturbed = TRUE]
           /\ \A i \in BegunSignings : ~AtWork(i) => Disturbed[i] = signings[i]
  <1>1. DOMAIN signings = BegunSignings /\ Len(signings) \in Nat
    BY DEF PanelTypeOK, BegunSignings
  <1>2. \A i \in BegunSignings : Disturbed[i] \in Signing
    BY <1>1, SigningIs, ZenonT(60) DEF Disturbed, Signing
  <1>3. Disturbed = [i \in 1..Len(signings) |-> Disturbed[i]]
    BY <1>1 DEF Disturbed, BegunSignings
  <1>4. Disturbed \in [1..Len(signings) -> Signing]
    BY <1>2, <1>3 DEF BegunSignings
  <1>5. Disturbed \in Seq(Signing) /\ Len(Disturbed) = Len(signings)
    BY <1>1, <1>4
  <1>6. QED  BY <1>1, <1>5 DEF Disturbed

\* Everything at work is disturbed, credentials are dropped, and what waits is
\* what waited or nothing.
LEMMA TurnKeeps ==
    ASSUME PanelInv, Forget, signings' = Disturbed, release' = release,
           opened' \in Nat, choice' \in {"pfx", "remote", "service"}, service' \in DOMAIN Services,
           waiting' \in [Ways -> WaiterFor],
           \A w \in Ways : waiting'[w] = Nobody \/ (waiting'[w] = waiting[w] /\ opened' = opened)
    PROVE  PanelInv'
  <1>1. /\ Disturbed \in Seq(Signing) /\ Len(Disturbed) = Len(signings)
        /\ \A i \in BegunSignings : AtWork(i) => Disturbed[i] = [signings[i] EXCEPT !.disturbed = TRUE]
        /\ \A i \in BegunSignings : ~AtWork(i) => Disturbed[i] = signings[i]
    BY DisturbedIs DEF PanelInv
  <1>2. BegunSignings' = BegunSignings
    BY <1>1 DEF BegunSignings
  <1>3. ASSUME NEW i \in BegunSignings
        PROVE  LET s == signings[i]
                   t == signings'[i]
               IN  /\ t.by = s.by /\ t.means = s.means /\ t.of = s.of /\ t.obj = s.obj /\ t.pc = s.pc
                   /\ t.misread = s.misread /\ t.failed = s.failed
                   /\ s.disturbed => t.disturbed
                   /\ AtWork(i) => t.disturbed
                   /\ AtWork(i)' <=> AtWork(i)
    <2>1. signings[i] \in Signing
      BY SigningIs DEF PanelInv
    <2>2. CASE AtWork(i)
      <3> DEFINE t == signings'[i]
      <3>1. t = [signings[i] EXCEPT !.disturbed = TRUE]
        BY <1>1, <2>2
      <3> HIDE DEF t
      <3>2. t \in Signing /\ t.disturbed = TRUE
        BY <2>1, <3>1 DEF Signing
      <3>3. QED  BY <2>1, <3>1, <3>2 DEF Signing, AtWork, t
    <2>3. CASE ~AtWork(i)
      BY <1>1, <2>1, <2>3 DEF Signing, AtWork
    <2>4. QED  BY <2>2, <2>3
  <1>4. PanelTypeOK'
    BY <1>1 DEF PanelInv, PanelTypeOK, Forget
  <1>5. ASSUME NEW j \in BegunSignings PROVE SigningOK(j)'
    <2> DEFINE s == signings[j]
               t == signings'[j]
    <2>1. /\ t.by = s.by /\ t.means = s.means /\ t.of = s.of /\ t.pc = s.pc /\ t.misread = s.misread
          /\ s.disturbed => t.disturbed
          /\ AtWork(j) => t.disturbed
          /\ AtWork(j)' <=> AtWork(j)
      BY <1>3
    <2>2. SigningOK(j)
      BY DEF PanelInv
    <2>3. t.pc = "check" =>
          /\ t.by \in BegunSignings' /\ signings'[t.by].pc = "ended"
          /\ \A w \in Ways : w = WayOf(t) /\ waiting'[w].by = t.by => waiting'[w].of = t.of
      <3>1. SUFFICES ASSUME t.pc = "check"
                     PROVE  /\ t.by \in BegunSignings' /\ signings'[t.by].pc = "ended"
                            /\ \A w \in Ways : w = WayOf(t) /\ waiting'[w].by = t.by => waiting'[w].of = t.of
        OBVIOUS
      <3>2. /\ s.by \in BegunSignings /\ ~AtWork(s.by)
            /\ \A w \in Ways : w = WayOf(s) /\ waiting[w].by = s.by => waiting[w].of = s.of
        BY <2>1, <2>2, <3>1 DEF SigningOK
      <3>3. t.by \in BegunSignings' /\ signings'[t.by].pc = "ended"
        BY <1>2, <1>3, <2>1, <3>2 DEF AtWork
      <3>4. t.by # 0 /\ WayOf(t) = WayOf(s)
        BY <2>1, <3>2 DEF BegunSignings, WayOf
      <3>5. QED  BY <2>1, <3>2, <3>3, <3>4 DEF Nobody
    <2>4. QED  BY <2>1, <2>2, <2>3 DEF SigningOK, IsCheck, AtWork
  <1>6. CredsOK' /\ BlankOK'
    BY <1>2, <1>3 DEF Forget, CredsOK, BlankOK, PanelInv
  <1>7. WaitingOK'
    BY <1>2, <1>3 DEF PanelInv, WaitingOK
  <1>8. QED  BY <1>2, <1>4, <1>5, <1>6, <1>7 DEF PanelInv, ReleaseOK

\* One signing goes on as r; the others stay as they are, or are disturbed.
Moves(j, r) ==
    /\ signings' \in Seq(Signing) /\ Len(signings') = Len(signings)
    /\ signings'[j] = r
    /\ \A i \in BegunSignings \ {j} :
          signings'[i] = signings[i] \/ (AtWork(i) /\ signings'[i] = [signings[i] EXCEPT !.disturbed = TRUE])

\* What r is to be, that went on from s.
Fits(j, r) ==
    LET s == signings[j] IN
    /\ r.by = s.by /\ r.means = s.means
    /\ r.pc \notin {"check", "certs"} /\ (IsCheck(s) => r.pc = "ended")
    /\ r.pc = "call" => r.means = "service"
    /\ r.pc = "finish" => r.means \notin {"remote", "paste"}
    /\ s.disturbed => r.disturbed
    /\ r.misread => r.disturbed
    /\ r.pc # "ended" /\ ~r.disturbed =>
          /\ r.pc \in {"hash", "call", "finish"} => r.of = opened
          /\ r.means \in {"service", "paste"} /\ r.pc \in {"build", "hash"} => creds' = j /\ j \notin blank'
          /\ r.means = "service" /\ r.pc \in {"call", "finish"} => r.obj = j /\ j \notin blank'

\* Something waits, of a signing that has just ended.
Awaits(j, r) ==
    /\ waiting' \in [Ways -> WaiterFor]
    /\ \A w \in Ways :
          \/ waiting'[w] \in {waiting[w], Nobody}
          \/ /\ waiting'[w].by = j /\ r.pc = "ended" /\ ~IsCheck(signings[j])
             /\ waiting'[w].of = opened \/ waiting'[w].disturbed

LEMMA Alone ==
    ASSUME PanelInv, NEW i \in BegunSignings, NEW j \in BegunSignings, i # j, AtWork(i), AtWork(j),
           ~IsCheck(signings[i]), ~IsCheck(signings[j])
    PROVE  signings[i].disturbed
  BY DEF PanelInv, SigningOK, Steady

LEMMA StepKeeps ==
    ASSUME PanelInv, NEW j \in BegunSignings, AtWork(j), NEW r \in Signing, Moves(j, r), Fits(j, r), Awaits(j, r),
           UNCHANGED <<opened, choice, service>>, creds' \in Nat,
           blank' \subseteq blank \cup ({creds} \ {0}),
           \A i \in BegunSignings \ {j} : AtWork(i) /\ ~IsCheck(signings[i]) =>
               signings'[i].disturbed \/ (creds' = creds /\ blank' = blank),
           CredsOK', ReleaseOK'
    PROVE  PanelInv'
  <1>1. BegunSignings' = BegunSignings
    BY DEF BegunSignings, Moves
  <1>2. PanelTypeOK'
    BY DEF PanelInv, PanelTypeOK, Moves, Awaits
  <1>3. ASSUME NEW i \in BegunSignings, i # j
        PROVE  LET s == signings[i]
                   t == signings'[i]
               IN  /\ t.by = s.by /\ t.means = s.means /\ t.of = s.of /\ t.obj = s.obj /\ t.pc = s.pc
                   /\ t.misread = s.misread /\ t.failed = s.failed
                   /\ s.disturbed => t.disturbed
    <2> DEFINE s == signings[i]
               t == signings'[i]
    <2>1. s \in Signing
      BY SigningIs DEF PanelInv
    <2>2. t = s \/ t = [s EXCEPT !.disturbed = TRUE]
      BY <1>3 DEF Moves
    <2> HIDE DEF s, t
    <2>3. t = s \/ (t = [s EXCEPT !.disturbed = TRUE] /\ t.disturbed = TRUE)
      BY <2>1, <2>2 DEF Signing
    <2>4. QED  BY <2>1, <2>3 DEF Signing, s, t
  <1>4. \A i \in BegunSignings : ~AtWork(i) => signings'[i].pc = "ended"
    BY <1>3 DEF AtWork
  <1>5. SigningOK(j)'
    <2>1. signings'[j] = r /\ r.pc # "check"
      BY DEF Moves, Fits
    <2>2. SigningOK(j)
      BY DEF PanelInv
    <2>3. AtWork(j)' /\ ~IsCheck(r) /\ ~r.disturbed => Steady(j)'
      <3>1. SUFFICES ASSUME r.pc # "ended", ~IsCheck(r), ~r.disturbed  PROVE Steady(j)'
        BY <2>1 DEF AtWork
      <3>2. ~signings[j].disturbed /\ ~IsCheck(signings[j])
        BY <3>1 DEF Fits, IsCheck
      <3>3. ASSUME NEW i \in BegunSignings, i # j, AtWork(i)'  PROVE IsCheck(signings[i])
        <4>1. AtWork(i)
          BY <1>4, <3>3 DEF AtWork
        <4>2. QED  BY <4>1, <3>2, <3>3, <2>2 DEF SigningOK, Steady
      <3>4. QED  BY <1>1, <1>3, <2>1, <3>1, <3>3 DEF Fits, Steady, IsCheck
    <2>4. QED  BY <2>1, <2>2, <2>3 DEF SigningOK, Fits, IsCheck
  <1>6. ASSUME NEW i \in BegunSignings, i # j  PROVE SigningOK(i)'
    <2> DEFINE s == signings[i]
               t == signings'[i]
    <2>1. /\ t.by = s.by /\ t.means = s.means /\ t.of = s.of /\ t.obj = s.obj /\ t.pc = s.pc
          /\ t.misread = s.misread /\ t.failed = s.failed
          /\ s.disturbed => t.disturbed
      BY <1>3, <1>6
    <2>2. SigningOK(i)
      BY DEF PanelInv
    <2>3. t.pc # "ended" /\ ~IsCheck(t) /\ ~t.disturbed => Steady(i)'
      <3>1. SUFFICES ASSUME t.pc # "ended", ~IsCheck(t), ~t.disturbed  PROVE Steady(i)'
        OBVIOUS
      <3>2. AtWork(i) /\ ~IsCheck(s) /\ ~s.disturbed
        BY <2>1, <3>1 DEF AtWork, IsCheck
      <3>3. Steady(i) /\ creds' = creds /\ blank' = blank
        BY <2>2, <3>1, <3>2, <1>6 DEF SigningOK
      <3>4. IsCheck(signings[j])
        BY <3>3, <1>6 DEF Steady
      <3>5. ASSUME NEW k \in BegunSignings, k # i, AtWork(k)'  PROVE IsCheck(signings'[k])
        <4>1. AtWork(k)
          BY <1>4, <3>5 DEF AtWork
        <4>2. IsCheck(signings[k])
          BY <4>1, <3>3, <3>5 DEF Steady
        <4>3. signings'[k].means = signings[k].means
          BY <1>3 DEF Moves, Fits
        <4>4. QED  BY <4>2, <4>3 DEF IsCheck
      <3>6. QED  BY <1>1, <2>1, <3>3, <3>5 DEF Steady
    <2>4. ASSUME t.pc = "check"
          PROVE  /\ t.by \in BegunSignings /\ signings'[t.by].pc = "ended"
                 /\ \A w \in Ways : w = WayOf(t) /\ waiting'[w].by = t.by => waiting'[w].of = t.of
      <3>1. /\ s.by \in BegunSignings /\ ~AtWork(s.by)
            /\ \A w \in Ways : w = WayOf(s) /\ waiting[w].by = s.by => waiting[w].of = s.of
        BY <2>1, <2>2, <2>4 DEF SigningOK
      <3>2. t.by \in BegunSignings /\ signings'[t.by].pc = "ended"
        BY <1>4, <2>1, <3>1
      <3>3. t.by # 0 /\ t.by # j /\ WayOf(t) = WayOf(s)
        BY <2>1, <3>1 DEF BegunSignings, WayOf
      <3>4. QED  BY <2>1, <3>1, <3>2, <3>3 DEF Nobody, Awaits
    <2>5. QED  BY <1>1, <2>1, <2>2, <2>3, <2>4 DEF SigningOK, IsCheck, AtWork
  <1>7. WaitingOK'
    <2>1. SUFFICES ASSUME NEW w \in Ways, waiting'[w] # Nobody
                   PROVE  /\ waiting'[w].of = opened \/ waiting'[w].disturbed
                          /\ waiting'[w].by \in BegunSignings /\ signings'[waiting'[w].by].pc = "ended"
      BY <1>1 DEF WaitingOK, AtWork
    <2>2. CASE waiting'[w] = waiting[w]
      BY <2>1, <2>2, <1>4 DEF PanelInv, WaitingOK
    <2>3. CASE waiting'[w] # waiting[w]
      BY <2>1, <2>3 DEF Awaits, Moves
    <2>4. QED  BY <2>2, <2>3
  <1>8. BlankOK'
    BY <1>1, <1>3 DEF PanelInv, BlankOK, CredsOK, Moves, Fits
  <1>9. QED  BY <1>1, <1>2, <1>5, <1>6, <1>7, <1>8 DEF PanelInv

LEMMA GoesMoves ==
    ASSUME PanelInv, NEW j \in BegunSignings, NEW r \in Signing, Goes(j, r)
    PROVE  Moves(j, r)
  BY DEF PanelInv, PanelTypeOK, BegunSignings, Goes, Moves

LEMMA EndsIs ==
    ASSUME PanelInv, NEW j \in BegunSignings, NEW failed \in BOOLEAN
    PROVE  LET s == signings[j]
               r == Ends(j, failed)
           IN  /\ r \in Signing
               /\ r.by = s.by /\ r.means = s.means /\ r.pc = "ended" /\ r.failed = failed
               /\ r.misread = s.misread /\ r.disturbed = s.disturbed
  <1> DEFINE s == signings[j]
             t == [s EXCEPT !.pc = "ended", !.failed = failed]
             r == Ends(j, failed)
  <1>1. s \in Signing
    BY SigningIs DEF PanelInv
  <1>2. r = [t EXCEPT !.service = "", !.of = 0, !.call = 0, !.obj = 0]
    BY <1>1 DEF Ends, Signing
  <1> HIDE DEF s, r
  <1>3. /\ t \in Signing
        /\ t.by = s.by /\ t.means = s.means /\ t.pc = "ended" /\ t.failed = failed
        /\ t.misread = s.misread /\ t.disturbed = s.disturbed
    BY <1>1 DEF Signing
  <1> HIDE DEF t
  <1>4. /\ r \in Signing
        /\ r.by = t.by /\ r.means = t.means /\ r.pc = t.pc /\ r.failed = t.failed
        /\ r.misread = t.misread /\ r.disturbed = t.disturbed
    BY <1>2, <1>3 DEF Signing
  <1>5. QED  BY <1>3, <1>4 DEF s, r

\* What is so when one signing ends with the others disturbed, or not.
LEMMA OthersMove ==
    ASSUME PanelInv, NEW j \in BegunSignings, NEW r \in Signing,
           NEW heard \in BOOLEAN,
           signings' = [i \in DOMAIN signings |->
                          IF i = j THEN r ELSE IF heard THEN Disturbed[i] ELSE signings[i]]
    PROVE  /\ Moves(j, r)
           /\ \A i \in BegunSignings \ {j} : heard /\ AtWork(i) => signings'[i].disturbed
  <1>1. /\ Disturbed \in Seq(Signing) /\ Len(Disturbed) = Len(signings)
        /\ \A i \in BegunSignings : AtWork(i) => Disturbed[i] = [signings[i] EXCEPT !.disturbed = TRUE]
        /\ \A i \in BegunSignings : ~AtWork(i) => Disturbed[i] = signings[i]
    BY DisturbedIs DEF PanelInv
  <1>2. DOMAIN signings = BegunSignings /\ Len(signings) \in Nat
    BY DEF PanelInv, PanelTypeOK, BegunSignings
  <1>3. signings' \in [1..Len(signings) -> Signing]
    BY <1>1, <1>2, SigningIs DEF PanelInv, BegunSignings
  <1>4. signings' \in Seq(Signing) /\ Len(signings') = Len(signings)
    BY <1>2, <1>3
  <1>5. Moves(j, r)
    BY <1>1, <1>2, <1>4 DEF Moves
  <1>6. ASSUME NEW i \in BegunSignings \ {j}, heard, AtWork(i)
        PROVE  signings'[i].disturbed
    <2>1. signings'[i] = [signings[i] EXCEPT !.disturbed = TRUE]
      BY <1>1, <1>2, <1>6
    <2>2. signings[i] \in Signing
      BY SigningIs DEF PanelInv
    <2>3. QED  BY <2>1, <2>2 DEF Signing
  <1>7. QED  BY <1>5, <1>6

\* Ending is a move, and who holds no more credentials has been told.
LEMMA EndedMoves ==
    ASSUME PanelInv, NEW j \in BegunSignings, NEW failed \in BOOLEAN, Ended(j, failed)
    PROVE  /\ Moves(j, Ends(j, failed))
           /\ creds' \in Nat /\ blank' \subseteq blank \cup ({creds} \ {0})
           /\ \A i \in BegunSignings \ {j} : AtWork(i) /\ ~IsCheck(signings[i]) =>
                  signings'[i].disturbed \/ (creds' = creds /\ blank' = blank)
           /\ creds' = 0 \/ (creds' = creds /\ signings[j].means # "service")
  <1>1. Ends(j, failed) \in Signing
    BY EndsIs
  <1>2. creds \in Nat
    BY DEF PanelInv, PanelTypeOK
  <1>3. CASE signings[j].means = "service"
    <2>1. signings' = [i \in DOMAIN signings |->
                          IF i = j THEN Ends(j, failed) ELSE IF TRUE THEN Disturbed[i] ELSE signings[i]]
      BY <1>3 DEF Ended
    <2>2. /\ Moves(j, Ends(j, failed))
          /\ \A i \in BegunSignings \ {j} : AtWork(i) => signings'[i].disturbed
      BY <1>1, <2>1, OthersMove
    <2>3. QED  BY <1>2, <1>3, <2>2 DEF Ended, Forget
  <1>4. CASE signings[j].means # "service"
    <2>1. signings' = [i \in DOMAIN signings |->
                          IF i = j THEN Ends(j, failed) ELSE IF FALSE THEN Disturbed[i] ELSE signings[i]]
      BY <1>4 DEF Ended
    <2>2. Moves(j, Ends(j, failed))
      BY <1>1, <2>1, OthersMove
    <2>3. QED  BY <1>2, <1>4, <2>2 DEF Ended
  <1>5. QED  BY <1>3, <1>4

\* Credentials that stay are still those of a signing at work, or of a paste
\* that failed.
LEMMA CredsStay ==
    ASSUME PanelInv, NEW j \in BegunSignings, NEW r, Moves(j, r), r.means = signings[j].means,
           creds' \in {0, creds},
           creds' = j /\ j # 0 => r.pc \notin {"certs", "ended"} \/ (r.pc = "ended" /\ r.means = "paste" /\ r.failed)
    PROVE  CredsOK'
  <1>1. SUFFICES ASSUME creds # 0, creds' = creds  PROVE CredsOK'
    BY DEF CredsOK
  <1>2. BegunSignings' = BegunSignings /\ creds \in BegunSignings
    BY <1>1 DEF PanelInv, CredsOK, BegunSignings, Moves
  <1>3. CASE creds = j
    BY <1>1, <1>2, <1>3 DEF PanelInv, CredsOK, Moves, AtWork
  <1>4. CASE creds # j
    <2>1. signings[creds] \in Signing
      BY <1>2, SigningIs DEF PanelInv
    <2>2. signings'[creds] = signings[creds] \/ signings'[creds] = [signings[creds] EXCEPT !.disturbed = TRUE]
      BY <1>2, <1>4 DEF Moves
    <2>3. /\ signings'[creds].means = signings[creds].means /\ signings'[creds].pc = signings[creds].pc
          /\ signings'[creds].failed = signings[creds].failed
      BY <2>1, <2>2 DEF Signing
    <2>4. QED  BY <1>1, <1>2, <2>3 DEF PanelInv, CredsOK, AtWork
  <1>5. QED  BY <1>3, <1>4

LEMMA InitPanelInv == InitPanel => PanelInv
  <1>1. SUFFICES ASSUME InitPanel PROVE PanelInv
    OBVIOUS
  <1>2. Nobody \in WaiterFor
    BY DEF WaiterFor
  <1>3. waiting \in [Ways -> WaiterFor] /\ \A w \in Ways : waiting[w] = Nobody
    BY <1>1, <1>2 DEF InitPanel, Ways
  <1>4. service \in DOMAIN Services
    BY <1>1 DEF InitPanel, Offered
  <1>5. opened = 0 /\ choice = "pfx" /\ creds = 0 /\ blank = {} /\ signings = <<>> /\ release = Nobody
    BY <1>1 DEF InitPanel
  <1>6. signings \in Seq(Signing) /\ BegunSignings = {}
    BY <1>5 DEF BegunSignings
  <1>7. PanelTypeOK
    BY <1>3, <1>4, <1>5, <1>6 DEF PanelTypeOK
  <1>8. BlankOK /\ CredsOK /\ WaitingOK /\ ReleaseOK
    BY <1>3, <1>5 DEF BlankOK, CredsOK, WaitingOK, ReleaseOK
  <1>9. QED  BY <1>6, <1>7, <1>8 DEF PanelInv

LEMMA TurningKeeps ==
    ASSUME PanelInv,
           \/ Open \/ ServerChanged \/ Hide \/ Cancel("paste")
           \/ \E s \in {"pfx", "remote", "service"} : ChooseSource(s)
           \/ \E s \in DOMAIN Services : ChooseService(s)
    PROVE  PanelInv'
  <1>1. PanelTypeOK /\ Nobody \in WaiterFor
    BY DEF PanelInv, WaiterFor
  <1>2. CASE Open
    BY <1>1, <1>2, TurnKeeps DEF Open, Cancelled, PanelTypeOK, Ways
  <1>3. CASE ServerChanged
    BY <1>1, <1>3, TurnKeeps DEF ServerChanged, Offered, PanelTypeOK, Ways
  <1>4. CASE Hide
    BY <1>1, <1>4, TurnKeeps DEF Hide, PanelTypeOK, Ways
  <1>5. CASE Cancel("paste")
    BY <1>1, <1>5, TurnKeeps DEF Cancel, PanelTypeOK, Ways
  <1>6. ASSUME NEW s \in {"pfx", "remote", "service"}, ChooseSource(s)
        PROVE  PanelInv'
    BY <1>1, <1>6, TurnKeeps DEF ChooseSource, Cancelled, PanelTypeOK, Ways
  <1>7. ASSUME NEW s \in DOMAIN Services, ChooseService(s)
        PROVE  PanelInv'
    BY <1>1, <1>7, TurnKeeps DEF ChooseService, PanelTypeOK, Ways
  <1>8. QED  BY <1>2, <1>3, <1>4, <1>5, <1>6, <1>7

LEMMA IdlingKeeps ==
    ASSUME PanelInv,
           \/ Cancel("remote") \/ UNCHANGED panelVars
           \/ \E k \in {"pfx", "pgp"} : OpenKey(k)
    PROVE  PanelInv'
  <1>1. /\ UNCHANGED <<opened, choice, service, blank, creds, signings, release>>
        /\ waiting' \in [Ways -> WaiterFor]
        /\ \A w \in Ways : waiting'[w] \in {waiting[w], Nobody}
    BY DEF PanelInv, PanelTypeOK, Cancel, OpenKey, panelVars, Ways, WaiterFor
  <1>2. PanelTypeOK' /\ BlankOK' /\ CredsOK' /\ ReleaseOK' /\ WaitingOK' /\ BegunSignings' = BegunSignings
    BY <1>1 DEF PanelInv, PanelTypeOK, BlankOK, CredsOK, ReleaseOK, WaitingOK, BegunSignings, AtWork
  <1>3. ASSUME NEW j \in BegunSignings PROVE SigningOK(j)'
    <2>1. SigningOK(j)
      BY DEF PanelInv
    <2>2. ASSUME signings[j].pc = "check", NEW w \in Ways, w = WayOf(signings[j]),
                 waiting'[w].by = signings[j].by
          PROVE  waiting'[w].of = signings[j].of
      <3>1. signings[j].by # 0
        BY <2>1, <2>2 DEF SigningOK, BegunSignings
      <3>2. waiting'[w] = waiting[w]
        BY <1>1, <2>2, <3>1 DEF Nobody
      <3>3. QED  BY <2>1, <2>2, <3>2 DEF SigningOK
    <2>3. Steady(j) => Steady(j)'
      BY <1>1, <1>2 DEF Steady, AtWork
    <2>4. QED  BY <1>1, <1>2, <2>1, <2>2, <2>3 DEF SigningOK, AtWork, IsCheck
  <1>4. QED  BY <1>2, <1>3 DEF PanelInv

LEMMA ReadingKeeps ==
    ASSUME PanelInv, NEW j \in BegunSignings, CertsRead(j)
    PROVE  PanelInv'
  <1> DEFINE s == signings[j]
             r == [s EXCEPT !.pc = "build"]
  <1>1. s \in Signing /\ SigningOK(j) /\ AtWork(j) /\ s.pc = "certs" /\ ~IsCheck(s) /\ j \notin blank /\ PanelTypeOK
    BY SigningIs DEF PanelInv, CertsRead, AtWork, SigningOK, BlankOK
  <1>2. /\ r \in Signing /\ r.pc = "build" /\ r.by = s.by /\ r.means = s.means
        /\ r.misread = s.misread /\ r.disturbed = s.disturbed
    BY <1>1 DEF Signing
  <1>3. Moves(j, r)
    BY <1>2, GoesMoves DEF CertsRead
  <1> HIDE DEF s, r
  <1>4. Fits(j, r)
    BY <1>1, <1>2 DEF Fits, SigningOK, CertsRead, s, IsCheck
  <1>5. Awaits(j, r)
    BY <1>1 DEF CertsRead, Awaits, PanelTypeOK
  <1>6. \A i \in BegunSignings \ {j} : AtWork(i) /\ ~IsCheck(signings[i]) => signings'[i].disturbed
    <2>1. SUFFICES ASSUME NEW i \in BegunSignings \ {j}, AtWork(i), ~IsCheck(signings[i])  PROVE signings'[i].disturbed
      OBVIOUS
    <2>2. signings[i].disturbed
      BY <1>1, <2>1, Alone DEF s
    <2>3. signings'[i] = signings[i]
      BY <2>1 DEF CertsRead, Goes, BegunSignings, PanelInv, PanelTypeOK
    <2>4. QED  BY <2>2, <2>3
  <1>7. CredsOK'
    <2>1. CASE s.means = "paste"
      <3>1. creds' = j /\ BegunSignings' = BegunSignings /\ signings'[j] = r
        BY <1>3, <2>1 DEF CertsRead, Moves, BegunSignings, s
      <3>2. QED  BY <1>2, <2>1, <3>1 DEF CredsOK, AtWork
    <2>2. CASE s.means # "paste"
      <3>1. creds' = creds
        BY <2>2 DEF CertsRead, s
      <3>2. QED  BY <1>2, <1>3, <3>1, CredsStay DEF s
    <2>3. QED  BY <2>1, <2>2
  <1>8. /\ UNCHANGED <<opened, choice, service, blank, release>> /\ creds' \in Nat
    BY <1>1 DEF CertsRead, Same, PanelTypeOK, BegunSignings
  <1>9. ReleaseOK'
    BY <1>8 DEF PanelInv, ReleaseOK
  <1>10. QED
    BY <1>1, <1>2, <1>3, <1>4, <1>5, <1>6, <1>7, <1>8, <1>9, StepKeeps

\* A signing that goes on by itself, with credentials and what waits left alone.
LEMMA AloneKeeps ==
    ASSUME PanelInv, NEW j \in BegunSignings, AtWork(j), NEW r \in Signing, Goes(j, r),
           UNCHANGED <<opened, choice, service, blank, creds, waiting>>, ReleaseOK',
           LET s == signings[j] IN
             /\ r.by = s.by /\ r.means = s.means /\ r.pc \notin {"check", "certs"}
             /\ IsCheck(s) => r.pc = "ended"
             /\ r.pc = "call" => r.means = "service"
             /\ r.pc = "finish" => r.means \notin {"remote", "paste"}
             /\ s.disturbed => r.disturbed
             /\ r.misread => r.disturbed
             /\ creds = j => r.pc # "ended"
             /\ r.pc # "ended" /\ ~r.disturbed =>
                   /\ r.pc \in {"hash", "call", "finish"} => r.of = opened
                   /\ r.means \in {"service", "paste"} /\ r.pc \in {"build", "hash"} => creds = j /\ j \notin blank
                   /\ r.means = "service" /\ r.pc \in {"call", "finish"} => r.obj = j /\ j \notin blank
    PROVE  PanelInv'
  <1>1. Moves(j, r)
    BY GoesMoves
  <1>2. Fits(j, r)
    BY DEF Fits
  <1>3. Awaits(j, r)
    BY DEF Awaits, PanelInv, PanelTypeOK
  <1>4. CredsOK'
    BY <1>1, CredsStay
  <1>5. creds' \in Nat
    BY DEF PanelInv, PanelTypeOK
  <1>6. QED  BY <1>1, <1>2, <1>3, <1>4, <1>5, StepKeeps

LEMMA EndingAloneKeeps ==
    ASSUME PanelInv, NEW j \in BegunSignings, CertsBad(j) \/ PasteWrong(j)
    PROVE  PanelInv'
  <1> DEFINE r == Ends(j, TRUE)
  <1>1. /\ r \in Signing
        /\ r.by = signings[j].by /\ r.means = signings[j].means /\ r.pc = "ended"
        /\ r.misread = signings[j].misread /\ r.disturbed = signings[j].disturbed
    BY EndsIs
  <1> HIDE DEF r
  <1>2. AtWork(j) /\ Goes(j, r) /\ UNCHANGED <<opened, choice, service, blank, creds, waiting, release>>
    BY DEF CertsBad, PasteWrong, AtWork, Same, r
  <1>3. ReleaseOK' /\ SigningOK(j)
    BY <1>2 DEF PanelInv, ReleaseOK
  <1>4. creds # j
    <2>1. CASE signings[j].pc = "certs"
      BY <2>1 DEF PanelInv, CredsOK, BegunSignings
    <2>2. CASE signings[j].pc = "check"
      BY <2>2, <1>3 DEF PanelInv, CredsOK, BegunSignings, SigningOK, IsCheck, ChecksOf
    <2>3. QED  BY <2>1, <2>2 DEF CertsBad, PasteWrong
  <1>5. QED  BY <1>1, <1>2, <1>3, <1>4, AloneKeeps DEF SigningOK

LEMMA BuiltKeeps ==
    ASSUME PanelInv, NEW j \in BegunSignings, Built(j)
    PROVE  PanelInv'
  <1> DEFINE s == signings[j]
             r == [s EXCEPT !.of = opened, !.pc = "hash"]
  <1>1. s \in Signing /\ opened \in Nat /\ SigningOK(j) /\ AtWork(j) /\ s.pc = "build" /\ ~IsCheck(s)
    BY SigningIs DEF PanelInv, PanelTypeOK, Built, AtWork, SigningOK
  <1>2. /\ r \in Signing /\ r.pc = "hash" /\ r.by = s.by /\ r.means = s.means /\ r.of = opened
        /\ r.misread = s.misread /\ r.disturbed = s.disturbed
    BY <1>1 DEF Signing
  <1>3. Goes(j, r) /\ UNCHANGED <<opened, choice, service, blank, creds, waiting, release>>
    BY DEF Built, Same
  <1> HIDE DEF s, r
  <1>4. ReleaseOK'
    BY <1>3 DEF PanelInv, ReleaseOK
  <1>5. ~s.disturbed /\ s.means \in {"service", "paste"} => creds = j /\ j \notin blank
    BY <1>1 DEF SigningOK, Steady, s
  <1>6. QED  BY <1>1, <1>2, <1>3, <1>4, <1>5, AloneKeeps DEF SigningOK, s

LEMMA CallKeeps ==
    ASSUME PanelInv, NEW j \in BegunSignings, Call(j)
    PROVE  PanelInv'
  <1> DEFINE s == signings[j]
             calls == Services[s.service].calls
             wrong == s.misread \/ (calls[s.call + 1] /\ s.obj \notin {j} \ blank)
             next == IF s.call + 1 = Len(calls) THEN "finish" ELSE "call"
             n == s.call + 1
             u == [s EXCEPT !.call = n]
             t == [u EXCEPT !.pc = next]
             r == [s EXCEPT !.call = @ + 1, !.pc = next, !.misread = wrong]
  <1>1. s \in Signing /\ SigningOK(j) /\ AtWork(j) /\ s.pc = "call" /\ s.means = "service"
    BY SigningIs DEF PanelInv, Call, AtWork, SigningOK
  <1>2. Goes(j, r) /\ UNCHANGED <<opened, choice, service, blank, creds, waiting, release>>
    BY DEF Call, Same
  <1>3. wrong \in BOOLEAN
    OBVIOUS
  <1>4. wrong => s.misread \/ s.obj # j \/ j \in blank
    OBVIOUS
  <1>9. next \in {"finish", "call"}
    OBVIOUS
  <1>10. r = [t EXCEPT !.misread = wrong]
    BY <1>1 DEF Signing
  <1>15. s \in Signing
    BY <1>1
  <1> HIDE DEF calls, next, s, r
  <1>16. s.call \in Nat
    BY <1>15 DEF Signing
  <1>14. n \in Nat
    BY <1>16
  <1> HIDE DEF n
  <1>13. /\ u \in Signing /\ u.by = s.by /\ u.means = s.means /\ u.of = s.of
         /\ u.obj = s.obj /\ u.disturbed = s.disturbed
    BY <1>1, <1>14 DEF Signing
  <1> HIDE DEF u
  <1>11. /\ t \in Signing /\ t.pc = next /\ t.by = s.by /\ t.means = s.means /\ t.of = s.of
         /\ t.obj = s.obj /\ t.disturbed = s.disturbed
    BY <1>9, <1>13 DEF Signing
  <1>12. PICK b \in BOOLEAN : b = wrong
    BY <1>3
  <1> HIDE DEF wrong, t
  <1>5. /\ r \in Signing /\ r.pc = next /\ r.by = s.by /\ r.means = s.means /\ r.of = s.of
        /\ r.obj = s.obj /\ r.misread = b /\ r.disturbed = s.disturbed
    BY <1>10, <1>11, <1>12 DEF Signing
  <1>6. ReleaseOK'
    BY <1>2 DEF PanelInv, ReleaseOK
  <1>7. ~s.disturbed => s.of = opened /\ s.obj = j /\ j \notin blank /\ ~s.misread
    BY <1>1 DEF SigningOK, Steady, IsCheck, ChecksOf, s
  <1>8. QED  BY <1>1, <1>2, <1>4, <1>5, <1>6, <1>7, <1>9, <1>12, AloneKeeps DEF s, IsCheck, ChecksOf

\* A signing that ends with a service's way of ending.
LEMMA EndingKeeps ==
    ASSUME PanelInv, NEW j \in BegunSignings, AtWork(j), ~IsCheck(signings[j]), NEW failed \in BOOLEAN,
           Ended(j, failed), UNCHANGED <<opened, choice, service, waiting>>, ReleaseOK',
           creds = j => failed
    PROVE  PanelInv'
  <1> DEFINE r == Ends(j, failed)
  <1>1. /\ r \in Signing
        /\ r.by = signings[j].by /\ r.means = signings[j].means /\ r.pc = "ended" /\ r.failed = failed
        /\ r.misread = signings[j].misread /\ r.disturbed = signings[j].disturbed
    BY EndsIs
  <1>2. /\ Moves(j, r)
        /\ creds' \in Nat /\ blank' \subseteq blank \cup ({creds} \ {0})
        /\ \A i \in BegunSignings \ {j} : AtWork(i) /\ ~IsCheck(signings[i]) =>
               signings'[i].disturbed \/ (creds' = creds /\ blank' = blank)
        /\ creds' = 0 \/ (creds' = creds /\ signings[j].means # "service")
    BY EndedMoves
  <1> HIDE DEF r
  <1>3. SigningOK(j)
    BY DEF PanelInv
  <1>4. Fits(j, r)
    BY <1>1, <1>3 DEF Fits, SigningOK
  <1>5. Awaits(j, r)
    BY DEF Awaits, PanelInv, PanelTypeOK
  <1>6. creds = j /\ signings[j].means # "service" => signings[j].means = "paste"
    BY DEF PanelInv, CredsOK, BegunSignings
  <1>7. CredsOK'
    BY <1>1, <1>2, <1>6, CredsStay
  <1>8. QED  BY <1>1, <1>2, <1>4, <1>5, <1>7, StepKeeps

LEMMA SigningFails ==
    ASSUME PanelInv, NEW j \in BegunSignings, NotBuilt(j) \/ Refused(j)
    PROVE  PanelInv'
  <1>1. SigningOK(j)
    BY DEF PanelInv
  <1>2. AtWork(j) /\ ~IsCheck(signings[j]) /\ Ended(j, TRUE)
    BY <1>1 DEF NotBuilt, Refused, AtWork, SigningOK
  <1>3. UNCHANGED <<opened, choice, service, waiting, release>>
    BY DEF NotBuilt, Refused, Same
  <1>4. ReleaseOK'
    BY <1>3 DEF PanelInv, ReleaseOK
  <1>5. QED  BY <1>2, <1>3, <1>4, EndingKeeps

LEMMA SignedKeeps ==
    ASSUME PanelInv, NEW j \in BegunSignings, Signed(j)
    PROVE  PanelInv'
  <1>1. SigningOK(j)
    BY DEF PanelInv
  <1>2. AtWork(j) /\ ~IsCheck(signings[j]) /\ Ended(j, FALSE)
    BY <1>1 DEF Signed, AtWork, SigningOK
  <1>3. UNCHANGED <<opened, choice, service, waiting>>
    BY DEF Signed, Same
  <1>4. ReleaseOK'
    BY DEF Signed, ReleaseOK
  <1>5. CASE signings[j].means = "service"
    <2> DEFINE r == Ends(j, FALSE)
    <2>1. /\ r \in Signing
          /\ r.by = signings[j].by /\ r.means = signings[j].means /\ r.pc = "ended"
          /\ r.misread = signings[j].misread /\ r.disturbed = signings[j].disturbed
      BY EndsIs
    <2>2. /\ Moves(j, r)
          /\ creds' \in Nat /\ blank' \subseteq blank \cup ({creds} \ {0})
          /\ \A i \in BegunSignings \ {j} : AtWork(i) /\ ~IsCheck(signings[i]) =>
                 signings'[i].disturbed \/ (creds' = creds /\ blank' = blank)
          /\ creds' = 0 \/ (creds' = creds /\ signings[j].means # "service")
      BY <1>2, EndedMoves
    <2> HIDE DEF r
    <2>3. Fits(j, r)
      BY <1>1, <2>1 DEF Fits, SigningOK
    <2>4. Awaits(j, r)
      BY <1>3 DEF Awaits, PanelInv, PanelTypeOK
    <2>5. CredsOK'
      BY <1>5, <2>2 DEF CredsOK
    <2>6. QED  BY <1>2, <1>3, <1>4, <2>1, <2>2, <2>3, <2>4, <2>5, StepKeeps
  <1>6. CASE signings[j].means # "service"
    <2>1. signings[j].means \notin {"service", "paste"}
      BY <1>1, <1>6 DEF Signed, SigningOK
    <2>2. creds # j
      BY <2>1 DEF PanelInv, CredsOK, BegunSignings
    <2>3. QED  BY <1>2, <1>3, <1>4, <2>2, EndingKeeps
  <1>7. QED  BY <1>5, <1>6

\* It ends with its commands written, and its signature is waited for.
LEMMA WaitingBeginsKeeps ==
    ASSUME PanelInv, NEW j \in BegunSignings, signings[j].pc = "hash", ~IsCheck(signings[j]),
           NEW w \in Ways, Waits(w, signings[j]),
           NEW r \in Signing, Goes(j, r), r.by = signings[j].by, r.means = signings[j].means, r.pc = "ended",
           signings[j].disturbed => r.disturbed,
           r.misread => r.disturbed,
           UNCHANGED <<opened, choice, service, release>>,
           \/ Forget
           \/ UNCHANGED <<blank, creds>> /\ creds # j
    PROVE  PanelInv'
  <1> DEFINE s == signings[j]
             wt == [of |-> s.of, by |-> s.by, disturbed |-> s.disturbed]
  <1>1. s \in Signing /\ SigningOK(j) /\ AtWork(j)
    BY SigningIs DEF PanelInv, AtWork
  <1>2. s.by = j /\ (s.of = opened \/ s.disturbed)
    BY <1>1 DEF SigningOK, Steady
  <1>15. j \in Nat \ {0} /\ s \in Signing
    BY <1>1 DEF BegunSignings, PanelInv, PanelTypeOK
  <1>16. s.of \in Nat /\ s.disturbed \in BOOLEAN
    BY <1>15 DEF Signing
  <1>14. s.of \in Nat /\ s.by \in Nat \ {0} /\ s.disturbed \in BOOLEAN
    BY <1>2, <1>15, <1>16
  <1>3. wt \in WaiterFor
    BY <1>14 DEF WaiterFor
  <1>4. waiting' = [waiting EXCEPT ![w] = wt]
    BY DEF Waits
  <1>5. wt.by = j /\ (wt.of = opened \/ wt.disturbed)
    BY <1>2
  <1> HIDE DEF wt, s
  <1>6. Awaits(j, r)
    BY <1>3, <1>4, <1>5 DEF Awaits, PanelInv, PanelTypeOK
  <1>7. Moves(j, r)
    BY GoesMoves
  <1>8. Fits(j, r)
    BY <1>1 DEF Fits
  <1>9. ReleaseOK'
    BY DEF PanelInv, ReleaseOK
  <1>10. creds' \in Nat /\ blank' \subseteq blank \cup ({creds} \ {0})
    BY DEF PanelInv, PanelTypeOK, Forget
  <1>11. CredsOK'
    BY <1>7, CredsStay DEF Forget
  <1>12. \A i \in BegunSignings \ {j} : AtWork(i) /\ ~IsCheck(signings[i]) => signings'[i].disturbed
    <2>1. SUFFICES ASSUME NEW i \in BegunSignings \ {j}, AtWork(i), ~IsCheck(signings[i])  PROVE signings'[i].disturbed
      OBVIOUS
    <2>2. signings[i].disturbed
      BY <1>1, <2>1, Alone
    <2>3. signings'[i] = signings[i]
      BY <2>1 DEF Goes, BegunSignings, PanelInv, PanelTypeOK
    <2>4. QED  BY <2>2, <2>3
  <1>13. QED  BY <1>1, <1>6, <1>7, <1>8, <1>9, <1>10, <1>11, <1>12, StepKeeps

LEMMA HashedKeeps ==
    ASSUME PanelInv, NEW j \in BegunSignings, Hashed(j)
    PROVE  PanelInv'
  <1> DEFINE s == signings[j]
  <1>1. s \in Signing /\ SigningOK(j) /\ AtWork(j) /\ s.pc = "hash" /\ ~IsCheck(s) /\ s.by = j
    BY SigningIs DEF PanelInv, AtWork, Hashed, SigningOK
  <1>2. UNCHANGED <<opened, choice, service, release>> /\ ReleaseOK'
    BY DEF Hashed, Same, PanelInv, ReleaseOK
  <1>3. ~s.disturbed => /\ s.of = opened
                        /\ s.means \in {"service", "paste"} => creds = j /\ j \notin blank
    BY <1>1 DEF SigningOK, Steady
  <1>4. creds \in Nat /\ j # 0
    BY DEF PanelInv, PanelTypeOK, BegunSignings
  <1>5. CASE s.means = "remote"
    <2>1. /\ Waits("remote", s) /\ Goes(j, Ends(j, FALSE)) /\ UNCHANGED <<blank, creds>>
      BY <1>5 DEF Hashed
    <2>2. creds # j
      BY <1>4, <1>5 DEF PanelInv, CredsOK
    <2>3. LET r == Ends(j, FALSE) IN
             /\ r \in Signing /\ r.by = s.by /\ r.means = s.means /\ r.pc = "ended"
             /\ r.misread = s.misread /\ r.disturbed = s.disturbed
      BY EndsIs
    <2>4. QED
      BY <1>1, <1>2, <2>1, <2>2, <2>3, WaitingBeginsKeeps DEF Ways, SigningOK
  <1>6. CASE s.means = "paste"
    <2> DEFINE failed == creds = 0
               e == Ends(j, failed)
               odd == creds # j
               r == [e EXCEPT !.misread = odd]
    <2>1. /\ Waits("paste", s) /\ Goes(j, r)
          /\ IF creds = 0 THEN UNCHANGED <<blank, creds>> ELSE Forget
      BY <1>6 DEF Hashed
    <2>2. failed \in BOOLEAN /\ odd \in BOOLEAN
      OBVIOUS
    <2>3. odd => s.disturbed
      BY <1>3, <1>6
    <2> HIDE DEF failed
    <2>4. e \in Signing /\ e.by = s.by /\ e.means = s.means /\ e.pc = "ended" /\ e.disturbed = s.disturbed
      BY <2>2, EndsIs
    <2>5. PICK b \in BOOLEAN : b = odd
      BY <2>2
    <2> HIDE DEF e, odd
    <2>6. r \in Signing /\ r.by = s.by /\ r.means = s.means /\ r.pc = "ended" /\ r.disturbed = s.disturbed
          /\ r.misread = b
      BY <2>4, <2>5 DEF Signing
    <2> HIDE DEF r
    <2>7. \/ Forget
          \/ UNCHANGED <<blank, creds>> /\ creds # j
      BY <1>4, <2>1
    <2>8. QED
      BY <1>1, <1>2, <2>1, <2>3, <2>5, <2>6, <2>7, WaitingBeginsKeeps DEF Ways
  <1>7. CASE s.means = "service" /\ creds = 0
    <2>1. Ended(j, TRUE) /\ UNCHANGED waiting
      BY <1>7 DEF Hashed
    <2>2. QED  BY <1>1, <1>2, <2>1, EndingKeeps
  <1>8. CASE s.means = "service" /\ creds # 0
    <2> DEFINE r == [s EXCEPT !.pc = "call", !.obj = creds]
    <2>1. Goes(j, r) /\ UNCHANGED <<blank, creds, waiting>>
      BY <1>8 DEF Hashed
    <2>2. /\ r \in Signing /\ r.by = s.by /\ r.means = s.means /\ r.pc = "call" /\ r.obj = creds
          /\ r.of = s.of /\ r.misread = s.misread /\ r.disturbed = s.disturbed
      BY <1>1, <1>4 DEF Signing
    <2> HIDE DEF r
    <2>3. QED
      BY <1>1, <1>2, <1>3, <1>8, <2>1, <2>2, AloneKeeps DEF SigningOK
  <1>9. CASE s.means \notin {"remote", "paste", "service"}
    <2> DEFINE r == [s EXCEPT !.pc = "finish"]
    <2>1. Goes(j, r) /\ UNCHANGED <<blank, creds, waiting>>
      BY <1>9 DEF Hashed
    <2>2. /\ r \in Signing /\ r.by = s.by /\ r.means = s.means /\ r.pc = "finish"
          /\ r.of = s.of /\ r.misread = s.misread /\ r.disturbed = s.disturbed
      BY <1>1 DEF Signing
    <2> HIDE DEF r
    <2>3. QED
      BY <1>1, <1>2, <1>3, <1>9, <2>1, <2>2, AloneKeeps DEF SigningOK
  <1>10. QED  BY <1>5, <1>6, <1>7, <1>8, <1>9

LEMMA PastedKeeps ==
    ASSUME PanelInv, NEW j \in BegunSignings, Pasted(j)
    PROVE  PanelInv'
  <1> DEFINE s == signings[j]
             w == WayOf(s)
             r == Ends(j, FALSE)
  <1>1. s \in Signing /\ SigningOK(j) /\ AtWork(j) /\ s.pc = "check" /\ IsCheck(s)
    BY SigningIs DEF PanelInv, AtWork, Pasted, SigningOK
  <1>2. UNCHANGED <<opened, choice, service>> /\ creds \in Nat /\ w \in Ways
    BY DEF Pasted, Same, PanelInv, PanelTypeOK, WayOf, Ways
  <1>3. creds # j
    BY <1>1 DEF PanelInv, CredsOK, BegunSignings, IsCheck, ChecksOf
  <1>4. CASE waiting[w] = Nobody
    <2> DEFINE e == Ends(j, TRUE)
    <2>1. /\ e \in Signing /\ e.by = s.by /\ e.means = s.means /\ e.pc = "ended"
          /\ e.misread = s.misread /\ e.disturbed = s.disturbed
      BY EndsIs
    <2>2. Goes(j, e) /\ UNCHANGED <<blank, creds, waiting, release>>
      BY <1>4 DEF Pasted, WayOf
    <2>3. ReleaseOK'
      BY <2>2 DEF PanelInv, ReleaseOK
    <2> HIDE DEF e, s
    <2>4. QED  BY <1>1, <1>2, <1>3, <2>1, <2>2, <2>3, AloneKeeps DEF SigningOK, s
  <1>5. CASE waiting[w] # Nobody
    <2>1. /\ r \in Signing /\ r.by = s.by /\ r.means = s.means /\ r.pc = "ended"
          /\ r.misread = s.misread /\ r.disturbed = s.disturbed
      BY EndsIs
    <2>2. /\ release' = [by |-> s.by, of |-> s.of, named |-> waiting[w].of,
                         disturbed |-> s.disturbed \/ waiting[w].by # s.by]
          /\ waiting' = [waiting EXCEPT ![w] = Nobody]
          /\ w = "paste" => Forget /\ signings' = [i \in DOMAIN signings |-> IF i = j THEN r ELSE Disturbed[i]]
          /\ w = "remote" => Goes(j, r) /\ UNCHANGED <<blank, creds>>
      BY <1>5 DEF Pasted, WayOf
    <2>3. waiting[w].by = s.by => waiting[w].of = s.of
      BY <1>1, <1>2 DEF SigningOK
    <2>4. ReleaseOK'
      BY <2>2, <2>3 DEF ReleaseOK
    <2>5. Awaits(j, r)
      BY <1>2, <2>2 DEF PanelInv, PanelTypeOK, Awaits, WaiterFor
    <2>6. CASE w = "paste"
      <3>1. signings' = [i \in DOMAIN signings |->
                           IF i = j THEN r ELSE IF TRUE THEN Disturbed[i] ELSE signings[i]]
        BY <2>2, <2>6
      <3> HIDE DEF r, w, s
      <3>2. /\ Moves(j, r)
            /\ \A i \in BegunSignings \ {j} : AtWork(i) => signings'[i].disturbed
        BY <2>1, <3>1, OthersMove
      <3>3. creds' = 0 /\ blank' \subseteq blank \cup ({creds} \ {0})
        BY <2>2, <2>6 DEF Forget
      <3>4. Fits(j, r)
        BY <1>1, <2>1 DEF Fits, SigningOK, s
      <3>5. CredsOK'
        BY <3>3 DEF CredsOK
      <3>6. QED  BY <1>1, <1>2, <2>1, <2>4, <2>5, <3>2, <3>3, <3>4, <3>5, StepKeeps
    <2>7. CASE w = "remote"
      <3>1. Goes(j, r) /\ UNCHANGED <<blank, creds>>
        BY <2>2, <2>7
      <3> HIDE DEF r, w, s
      <3>2. Moves(j, r)
        BY <2>1, <3>1, GoesMoves
      <3>3. Fits(j, r)
        BY <1>1, <2>1 DEF Fits, SigningOK, s
      <3>4. CredsOK'
        BY <1>3, <2>1, <3>1, <3>2, CredsStay DEF s
      <3>5. QED  BY <1>1, <1>2, <2>1, <2>4, <2>5, <3>1, <3>2, <3>3, <3>4, StepKeeps
    <2>8. QED  BY <2>6, <2>7 DEF WayOf
  <1>6. QED  BY <1>4, <1>5

\* A signing is what it was, but it may have been disturbed.
SigningKept(s, t) ==
    /\ t.by = s.by /\ t.means = s.means /\ t.of = s.of /\ t.obj = s.obj /\ t.pc = s.pc
    /\ t.misread = s.misread /\ t.failed = s.failed
    /\ s.disturbed => t.disturbed

\* A signing more: those before it are what they were, or disturbed.
LEMMA OneMore ==
    ASSUME PanelInv, NEW q \in Seq(Signing), Len(q) = Len(signings), NEW r \in Signing,
           NEW n, n = Len(signings) + 1,
           \A i \in BegunSignings : q[i] = signings[i] \/ (AtWork(i) /\ q[i] = [signings[i] EXCEPT !.disturbed = TRUE]),
           signings' = Append(q, r)
    PROVE  /\ n \in Nat \ {0} /\ n \notin BegunSignings /\ BegunSignings' = BegunSignings \cup {n} /\ BegunSignings \subseteq Nat \ {0}
           /\ signings' \in Seq(Signing) /\ signings'[n] = r
           /\ \A i \in BegunSignings : signings'[i] = q[i] /\ SigningKept(signings[i], signings'[i])
  <1>1. Len(signings) \in Nat
    BY DEF PanelInv, PanelTypeOK
  <1>2. /\ signings' \in Seq(Signing) /\ Len(signings') = Len(signings) + 1
        /\ signings'[Len(signings) + 1] = r
        /\ \A i \in BegunSignings : signings'[i] = q[i]
    BY <1>1 DEF BegunSignings
  <1>3. ASSUME NEW i \in BegunSignings
        PROVE  signings'[i] = q[i] /\ SigningKept(signings[i], signings'[i])
    <2> DEFINE s == signings[i]
               t == signings'[i]
    <2>1. s \in Signing /\ t = q[i]
      BY <1>2, SigningIs DEF PanelInv
    <2>2. t = s \/ t = [s EXCEPT !.disturbed = TRUE]
      BY <2>1
    <2> HIDE DEF s, t
    <2>3. t = s \/ (t = [s EXCEPT !.disturbed = TRUE] /\ t.disturbed = TRUE)
      BY <2>1, <2>2 DEF Signing
    <2>4. QED  BY <2>1, <2>3 DEF Signing, SigningKept, s, t
  <1>4. QED  BY <1>1, <1>2, <1>3 DEF BegunSignings

LEMMA ClickKeeps ==
    ASSUME PanelInv, Click
    PROVE  PanelInv'
  <1>0. PICK n : n = Len(signings) + 1
    OBVIOUS
  <1> DEFINE others == \E i \in DOMAIN signings : AtWork(i)
             m == Means
             p == IF Means \in {"remote", "paste"} THEN "certs" ELSE "build"
             r == [by |-> n, means |-> m, service |-> service, of |-> 0, call |-> 0, obj |-> 0, misread |-> FALSE,
                   pc |-> p, disturbed |-> others, failed |-> FALSE]
  <1>1. /\ signings' = Append(Disturbed, r)
        /\ creds' = IF m = "service" THEN n ELSE creds
        /\ UNCHANGED <<opened, choice, service, blank, waiting, release>>
        /\ m # "none"
    BY <1>0 DEF Click
  <1>2. DOMAIN signings = BegunSignings /\ n \in Nat /\ service \in DOMAIN Services
    BY <1>0 DEF PanelInv, PanelTypeOK, BegunSignings
  <1>3. m \in Signs
    <2>1. choice \in {"pfx", "remote", "service"}
      BY DEF PanelInv, PanelTypeOK
    <2>2. QED  BY <1>1, <2>1 DEF Means, Signs
  <1>4. p = (IF m \in {"remote", "paste"} THEN "certs" ELSE "build")
    OBVIOUS
  <1>5. PICK b \in BOOLEAN : b = others
    OBVIOUS
  <1>6. ~b => \A i \in BegunSignings : ~AtWork(i)
    BY <1>2, <1>5
  <1> HIDE DEF others, m, p
  <1>7. /\ r \in Signing /\ r.by = n /\ r.means = m /\ r.pc = p /\ r.disturbed = b
        /\ r.misread = FALSE /\ r.of = 0 /\ r.failed = FALSE
    BY <1>2, <1>3, <1>4, <1>5 DEF Signing
  <1> HIDE DEF r
  <1>8. /\ Disturbed \in Seq(Signing) /\ Len(Disturbed) = Len(signings)
        /\ \A i \in BegunSignings : AtWork(i) => Disturbed[i] = [signings[i] EXCEPT !.disturbed = TRUE]
        /\ \A i \in BegunSignings : ~AtWork(i) => Disturbed[i] = signings[i]
    BY DisturbedIs DEF PanelInv
  <1>9. /\ n \in Nat \ {0} /\ n \notin BegunSignings /\ BegunSignings' = BegunSignings \cup {n} /\ BegunSignings \subseteq Nat \ {0}
        /\ signings' \in Seq(Signing) /\ signings'[n] = r
        /\ \A i \in BegunSignings : signings'[i] = Disturbed[i] /\ SigningKept(signings[i], signings'[i])
    BY <1>0, <1>1, <1>7, <1>8, OneMore
  <1>10. \A i \in BegunSignings : AtWork(i) => signings'[i].disturbed
    <2>1. SUFFICES ASSUME NEW i \in BegunSignings, AtWork(i)  PROVE signings'[i].disturbed
      OBVIOUS
    <2>2. signings'[i] = [signings[i] EXCEPT !.disturbed = TRUE]
      BY <1>8, <1>9, <2>1
    <2>3. signings[i] \in Signing
      BY SigningIs DEF PanelInv
    <2>4. QED  BY <2>2, <2>3 DEF Signing
  <1>11. PanelTypeOK' /\ ReleaseOK'
    BY <1>1, <1>9 DEF PanelInv, PanelTypeOK, ReleaseOK
  <1>18. \A i \in BegunSignings : i \in BegunSignings' /\ signings'[i].pc = signings[i].pc
    BY <1>9 DEF SigningKept
  <1>19. blank' = blank /\ waiting' = waiting /\ opened' = opened
    BY <1>1
  <1>12. BlankOK'
    BY <1>18, <1>19 DEF PanelInv, BlankOK
  <1>13. CredsOK'
    <2>1. CASE m = "service"
      BY <1>1, <1>4, <1>7, <1>9, <2>1 DEF CredsOK, AtWork
    <2>2. CASE m # "service"
      BY <1>1, <1>9, <2>2 DEF PanelInv, CredsOK, AtWork, SigningKept
    <2>3. QED  BY <2>1, <2>2
  <1>14. WaitingOK'
    BY <1>18, <1>19 DEF PanelInv, WaitingOK, AtWork
  <1>15. ASSUME NEW i \in BegunSignings PROVE SigningOK(i)'
    <2>1. SigningOK(i)
      BY DEF PanelInv
    <2>2. ~(signings'[i].pc # "ended" /\ ~signings'[i].disturbed)
      BY <1>9, <1>10 DEF AtWork, SigningKept
    <2>3. ASSUME signings[i].pc = "check"
          PROVE  signings'[i].by \in BegunSignings' /\ signings'[signings'[i].by].pc = "ended"
      BY <1>9, <2>1, <2>3 DEF SigningOK, AtWork, SigningKept
    <2>4. WayOf(signings'[i]) = WayOf(signings[i])
      BY <1>9 DEF WayOf, SigningKept
    <2>5. SigningKept(signings[i], signings'[i])
      BY <1>9
    <2>6. QED  BY <1>1, <2>1, <2>2, <2>3, <2>4, <2>5 DEF SigningOK, AtWork, IsCheck, SigningKept
  <1>16. SigningOK(n)'
    <2>1. m \notin ChecksOf /\ p \in {"certs", "build"}
      BY <1>3, <1>4 DEF Signs, ChecksOf
    <2>2. ~b => Steady(n)'
      <3>1. SUFFICES ASSUME ~b PROVE Steady(n)'
        OBVIOUS
      <3>2. \A i \in BegunSignings : signings'[i].pc = "ended"
        BY <1>6, <1>9, <3>1 DEF AtWork, SigningKept
      <3>3. n \notin blank'
        BY <1>1, <1>9 DEF PanelInv, BlankOK, SigningKept
      <3>4. signings'[n].pc \in {"certs", "build"} /\ (signings'[n].pc = "build" => m \notin {"remote", "paste"})
            /\ signings'[n].means = m
        BY <1>4, <1>7, <1>9
      <3>5. m = "service" => creds' = n
        BY <1>1
      <3>6. QED  BY <1>9, <3>2, <3>3, <3>4, <3>5 DEF Steady, AtWork
    <2>3. QED  BY <1>4, <1>7, <1>9, <2>1, <2>2 DEF SigningOK, IsCheck
  <1>17. QED  BY <1>9, <1>11, <1>12, <1>13, <1>14, <1>15, <1>16 DEF PanelInv

LEMMA PasteKeeps ==
    ASSUME PanelInv, NEW w \in Ways, Paste(w)
    PROVE  PanelInv'
  <1>0. PICK n : n = Len(signings) + 1
    OBVIOUS
  <1> DEFINE wt == waiting[w]
             m == IF w = "remote" THEN "checkRemote" ELSE "checkPaste"
             r == [by |-> wt.by, means |-> m, service |-> service, of |-> wt.of, call |-> 0, obj |-> 0,
                   misread |-> FALSE, pc |-> "check", disturbed |-> FALSE, failed |-> FALSE]
  <1>1. /\ signings' = Append(signings, r) /\ wt # Nobody
        /\ UNCHANGED <<opened, choice, service, blank, creds, waiting, release>>
    BY DEF Paste, Same
  <1>2. service \in DOMAIN Services /\ signings \in Seq(Signing) /\ wt \in WaiterFor
    BY DEF PanelInv, PanelTypeOK
  <1>3. wt.of \in Nat /\ wt.by \in Nat \ {0}
    BY <1>1, <1>2 DEF WaiterFor
  <1>4. wt.by \in BegunSignings /\ ~AtWork(wt.by)
    BY <1>1 DEF PanelInv, WaitingOK
  <1>5. m \in ChecksOf
    BY DEF ChecksOf
  <1>6. \A x : x.means = m => WayOf(x) = w
    BY DEF WayOf, Ways
  <1> HIDE DEF wt, m
  <1>7. /\ r \in Signing /\ r.by = wt.by /\ r.means = m /\ r.pc = "check" /\ r.of = wt.of
        /\ r.misread = FALSE
    BY <1>2, <1>3, <1>5 DEF Signing
  <1> HIDE DEF r
  <1>8. /\ n \in Nat \ {0} /\ n \notin BegunSignings /\ BegunSignings' = BegunSignings \cup {n} /\ BegunSignings \subseteq Nat \ {0}
        /\ signings' \in Seq(Signing) /\ signings'[n] = r
        /\ \A i \in BegunSignings : signings'[i] = signings[i]
    BY <1>0, <1>1, <1>2, <1>7, OneMore
  <1>9. PanelTypeOK' /\ ReleaseOK' /\ BlankOK' /\ CredsOK' /\ WaitingOK'
    BY <1>1, <1>8, ZenonT(60) DEF PanelInv, PanelTypeOK, ReleaseOK, BlankOK, CredsOK, WaitingOK, AtWork
  <1>10. ASSUME NEW i \in BegunSignings PROVE SigningOK(i)'
    <2>1. SigningOK(i)
      BY DEF PanelInv
    <2>2. Steady(i) => Steady(i)'
      BY <1>1, <1>5, <1>7, <1>8 DEF Steady, AtWork, IsCheck
    <2>3. QED  BY <1>1, <1>8, <2>1, <2>2, ZenonT(60) DEF SigningOK, AtWork
  <1>11. SigningOK(n)'
    BY <1>1, <1>4, <1>5, <1>6, <1>7, <1>8 DEF SigningOK, IsCheck, AtWork, wt
  <1>12. QED  BY <1>8, <1>9, <1>10, <1>11 DEF PanelInv

LEMMA NextPanelInv == PanelInv /\ [NextPanel]_panelVars => PanelInv'
  <1>1. SUFFICES ASSUME PanelInv, [NextPanel]_panelVars PROVE PanelInv'
    OBVIOUS
  <1>2. DOMAIN signings = BegunSignings /\ DOMAIN waiting = Ways
    BY <1>1 DEF PanelInv, PanelTypeOK, BegunSignings
  <1>3. CASE UNCHANGED panelVars
    BY <1>1, <1>3, IdlingKeeps
  <1>4. CASE Open \/ ServerChanged \/ Hide
    BY <1>1, <1>4, TurningKeeps
  <1>5. CASE Click
    BY <1>1, <1>5, ClickKeeps
  <1>6. CASE \/ \E s \in {"pfx", "remote", "service"} : ChooseSource(s)
             \/ \E s \in DOMAIN Services : ChooseService(s)
    BY <1>1, <1>6, TurningKeeps
  <1>7. CASE \E k \in {"pfx", "pgp"} : OpenKey(k)
    BY <1>1, <1>7, IdlingKeeps
  <1>8. ASSUME NEW w \in Ways, Paste(w) \/ Cancel(w)
        PROVE  PanelInv'
    BY <1>1, <1>8, PasteKeeps, TurningKeeps, IdlingKeeps DEF Ways
  <1>9. ASSUME NEW j \in BegunSignings,
               \/ CertsRead(j) \/ CertsBad(j) \/ Built(j) \/ Hashed(j) \/ NotBuilt(j)
               \/ Call(j) \/ Refused(j) \/ Signed(j) \/ Pasted(j) \/ PasteWrong(j)
        PROVE  PanelInv'
    BY <1>1, <1>9, ReadingKeeps, EndingAloneKeeps, BuiltKeeps, HashedKeeps, SigningFails, CallKeeps,
       SignedKeeps, PastedKeeps
  <1>10. QED
    BY <1>1, <1>2, <1>3, <1>4, <1>5, <1>6, <1>7, <1>8, <1>9 DEF NextPanel

LEMMA PanelInvariant == SpecPanel => []PanelInv
  BY InitPanelInv, NextPanelInv, PTL DEF SpecPanel

(***************************************************************************)
(* Credentials are read only by the signing they were typed for, and are   *)
(* gone when it ends, unless the panel was turned to something else        *)
(* meanwhile (forgetCreds, signWithService and startServicePaste, sign-    *)
(* ui.js).                                                                 *)
(***************************************************************************)
THEOREM CredentialsAreForOneSigning == SpecPanel => []CredentialsServeOneSigning
  <1>1. ASSUME PanelInv PROVE CredentialsServeOneSigning
    <2>1. DOMAIN signings = BegunSignings
      BY <1>1 DEF PanelInv, PanelTypeOK, BegunSignings
    <2>2. QED  BY <1>1, <2>1 DEF PanelInv, SigningOK, CredsOK, CredentialsServeOneSigning
  <1>2. QED  BY <1>1, PanelInvariant, PTL

(***************************************************************************)
(* What waits for a signature is the installer on the page, and a signed   *)
(* file keeps its own name, unless something else was turned to meanwhile  *)
(* (startRemote, finishRemote, cancelRemote and paintSign, sign-ui.js).    *)
(***************************************************************************)
THEOREM WhatIsShownIsSigned == SpecPanel => []SignedIsWhatWasShown
  <1>1. ASSUME PanelInv PROVE SignedIsWhatWasShown
    <2>1. DOMAIN waiting = Ways
      BY <1>1 DEF PanelInv, PanelTypeOK
    <2>2. QED  BY <1>1, <2>1 DEF PanelInv, WaitingOK, ReleaseOK, SignedIsWhatWasShown
  <1>2. QED  BY <1>1, PanelInvariant, PTL

(***************************************************************************)
(* SignServices. The inductive invariant: the stage of a call tells which  *)
(* service it is and what has been paid.                                   *)
(***************************************************************************)
Usual == {"idle", "token", "list", "info", "authorize", "signHash", "kms", "start", "poll", "generic", "over", "done"}

\* Which service a call is one of, and what it sends.
StageOK ==
    /\ stage \in Usual
    /\ order \in Orders
    /\ stage \in {"token", "list", "info", "authorize", "signHash"} => order.service = "sslcom"
    /\ stage = "signHash" => got.sad = "digest"
    /\ stage = "kms" => order.service \in {"gcpkms", "awskms"} /\ (order.service = "awskms" => order.alg \in Writable)
    /\ stage \in {"start", "poll"} => order.service = "azurets" /\ order.alg \in Writable
    /\ stage = "poll" => got.signature = [of |-> "digest", alg |-> order.alg]
    /\ stage = "generic" => order.service = "generic"

\* Nothing is signed before the last call, and one thing by it.
PaidOK ==
    /\ stage \notin {"over", "done"} => performed = <<>> /\ outcome = Pending
    /\ stage = "over" => outcome.is \in {"signature", "failed"}
    /\ performed = <<>> \/ Len(performed) = 1
    /\ outcome.is \in {"signature", "file", "no certificate"} => Len(performed) = 1
    /\ performed # <<>> /\ ~excuse /\ order.service \notin {"gcpkms", "generic"} =>
          /\ stage = "over" => UsableSignature(outcome)
          /\ stage = "done" => \/ outcome.is = "file"
                              \/ (order.certificate # "its" /\ order.service \in {"awskms", "azurets"})

ServicesInv == StageOK /\ PaidOK

LEMMA OneIsAppended ==
    ASSUME NEW s
    PROVE  Len(Append(<<>>, s)) = 1 /\ Append(<<>>, s) # <<>>
  <1>1. <<>> \in Seq({s})
    OBVIOUS
  <1>2. Len(Append(<<>>, s)) = 1
    BY <1>1
  <1>3. QED  BY <1>2

\* A signature comes back the way it was sent.
LEMMA Decoded ==
    ASSUME NEW s
    PROVE  DecodeSignature(Encoded(s, "base64"), "base64") = [is |-> "signature", of |-> s]
  <1> DEFINE v == Encoded(s, "base64")
  <1>1. v.of = s /\ v.how = "base64"
    BY DEF Encoded
  <1>2. v # Absent
    <2>1. "of" \in DOMAIN v
      BY DEF Encoded
    <2>2. "of" \notin DOMAIN Absent
      BY DEF Absent
    <2>3. QED  BY <2>1, <2>2
  <1> HIDE DEF v
  <1>3. DecodeSignature(v, "base64") = [is |-> "signature", of |-> v.of]
    BY <1>1, <1>2 DEF DecodeSignature
  <1>4. QED  BY <1>1, <1>3 DEF v

\* What a step is that settles with the signature made, or without one.
Concludes(alg) ==
    /\ stage' = "over" /\ UNCHANGED order
    /\ \/ performed' = <<>> /\ outcome' = Failed
       \/ performed' = Append(<<>>, [of |-> "digest", alg |-> alg])
          /\ outcome' = [is |-> "signature", of |-> [of |-> "digest", alg |-> alg]]
       \/ excuse' /\ outcome' = Failed /\ performed' \in {<<>>, Append(<<>>, [of |-> "digest", alg |-> alg])}

LEMMA ConcludingKeeps ==
    ASSUME ServicesInv, NEW alg, Concludes(alg), alg \in Writable \/ order.service \in {"gcpkms", "generic"}
    PROVE  ServicesInv'
  <1> DEFINE s == [of |-> "digest", alg |-> alg]
  <1>1. s.of = "digest" /\ s.alg = alg
    OBVIOUS
  <1> HIDE DEF s
  <1>2. Len(Append(<<>>, s)) = 1 /\ Append(<<>>, s) # <<>> /\ Len(<<>>) = 0
    BY OneIsAppended
  <1>3. StageOK'
    BY DEF ServicesInv, StageOK, Concludes, Usual
  <1>4. \/ performed' = <<>> /\ outcome' = Failed
        \/ performed' = Append(<<>>, s) /\ outcome' = [is |-> "signature", of |-> s]
        \/ excuse' /\ outcome' = Failed /\ performed' \in {<<>>, Append(<<>>, s)}
    BY DEF Concludes, s
  <1>5. stage' = "over" /\ order' = order
    BY DEF Concludes
  <1>6. PaidOK'
    <2>1. CASE outcome' = Failed
      BY <1>2, <1>4, <1>5, <2>1 DEF PaidOK, Failed
    <2>2. CASE outcome' # Failed
      <3>1. performed' = Append(<<>>, s) /\ outcome' = [is |-> "signature", of |-> s]
        BY <1>4, <2>2
      <3>2. outcome'.is = "signature" /\ outcome'.of = s /\ Len(performed') = 1
        BY <1>2, <3>1
      <3>3. order'.service \notin {"gcpkms", "generic"} => UsableSignature(outcome)'
        BY <1>1, <1>5, <3>2 DEF UsableSignature
      <3>4. QED  BY <1>5, <3>2, <3>3 DEF PaidOK
    <2>3. QED  BY <2>1, <2>2
  <1>7. QED  BY <1>3, <1>6 DEF ServicesInv

\* A step that goes on to another call, with nothing signed yet.
LEMMA ProceedingKeeps ==
    ASSUME ServicesInv, stage \notin {"over", "done"}, stage' \notin {"over", "done"},
           UNCHANGED <<outcome, performed>>, StageOK'
    PROVE  ServicesInv'
  BY DEF ServicesInv, PaidOK

LEMMA FailingKeeps ==
    ASSUME ServicesInv, UNCHANGED order, stage' = "over", outcome' = Failed,
           performed' = <<>>
    PROVE  ServicesInv'
  <1>1. StageOK'
    BY DEF ServicesInv, StageOK, Usual
  <1>2. Len(<<>>) = 0
    OBVIOUS
  <1>3. PaidOK'
    BY <1>2 DEF PaidOK, Failed
  <1>4. QED  BY <1>1, <1>3 DEF ServicesInv

LEMMA StandingKeeps ==
    ASSUME ServicesInv, Press \/ HalfMinute \/ UNCHANGED servicesVars
    PROVE  ServicesInv'
  <1>1. CASE Press
    <2>1. Len(<<>>) = 0
      OBVIOUS
    <2>2. QED  BY <1>1, <2>1 DEF ServicesInv, StageOK, PaidOK, Press, Rest, Pending, Usual
  <1>2. CASE HalfMinute \/ UNCHANGED servicesVars
    BY <1>2 DEF ServicesInv, StageOK, PaidOK, HalfMinute, servicesVars, UsableSignature
  <1>3. QED  BY <1>1, <1>2

LEMMA BeginningKeeps ==
    ASSUME ServicesInv, SslcomBegins \/ KmsBegins \/ AzureBegins \/ GenericBegins
    PROVE  ServicesInv'
  <1>1. /\ stage = "idle" /\ UNCHANGED <<order, performed>> /\ performed = <<>>
        /\ stage' # "over" => UNCHANGED outcome /\ stage' # "done"
        /\ stage' = "over" => outcome' = Failed
    BY DEF SslcomBegins, KmsBegins, AzureBegins, GenericBegins, Begins, Settles, Proceeds, Free, Rest,
           ServicesInv, PaidOK
  <1>2. CASE stage' = "over"
    BY <1>1, <1>2, FailingKeeps
  <1>3. CASE stage' # "over"
    <2>1. StageOK'
      BY <1>1, <1>3 DEF ServicesInv, StageOK, SslcomBegins, KmsBegins, AzureBegins, GenericBegins, Begins,
             Settles, Proceeds, RefuseUnwritable, Usual
    <2>2. QED  BY <1>1, <1>3, <2>1, ProceedingKeeps
  <1>4. QED  BY <1>2, <1>3

LEMMA SslcomKeeps ==
    ASSUME ServicesInv, SslcomToken \/ SslcomList \/ SslcomInfo \/ SslcomAuthorize
    PROVE  ServicesInv'
  <1>1. /\ stage \notin {"idle", "over", "done"} /\ UNCHANGED <<order, performed>> /\ performed = <<>>
        /\ stage' # "over" => UNCHANGED outcome /\ stage' \in {"list", "info", "authorize", "signHash"}
        /\ stage' = "over" => outcome' = Failed
        /\ order.service = "sslcom"
    <2>1. CASE SslcomToken
      BY <2>1 DEF SslcomToken, Settles, Proceeds, Free, Rest, ServicesInv, StageOK, PaidOK, Trouble
    <2>2. CASE SslcomList
      BY <2>2 DEF SslcomList, Settles, Proceeds, Free, Rest, ServicesInv, StageOK, PaidOK, Trouble
    <2>3. CASE SslcomInfo
      BY <2>3 DEF SslcomInfo, Settles, Proceeds, Free, Rest, ServicesInv, StageOK, PaidOK, Trouble
    <2>4. CASE SslcomAuthorize
      BY <2>4 DEF SslcomAuthorize, Settles, Proceeds, Free, Rest, ServicesInv, StageOK, PaidOK, Trouble
    <2>5. QED  BY <2>1, <2>2, <2>3, <2>4
  <1>2. stage' = "signHash" => got'.sad = "digest"
    BY DEF SslcomToken, SslcomList, SslcomInfo, SslcomAuthorize, Settles, Proceeds, Trouble
  <1>3. CASE stage' = "over"
    BY <1>1, <1>3, FailingKeeps
  <1>4. CASE stage' # "over"
    <2>1. StageOK'
      BY <1>1, <1>2, <1>4 DEF ServicesInv, StageOK, Usual
    <2>2. QED  BY <1>1, <1>4, <2>1, ProceedingKeeps
  <1>5. QED  BY <1>3, <1>4

LEMMA SigningKeeps ==
    ASSUME ServicesInv, SslcomSign \/ KmsSign \/ AzurePoll
    PROVE  ServicesInv'
  <1>1. CASE SslcomSign
    <2>1. /\ order.service = "sslcom" /\ got.sad = "digest" /\ performed = <<>> /\ order.keyType \in Writable
      BY <1>1, SignServicesAssumption DEF ServicesInv, StageOK, PaidOK, SslcomSign
    <2>2. CASE order.keyType = Found.keyType
      <3>1. Concludes(order.keyType)
        BY <1>1, <2>1, <2>2, Decoded DEF SslcomSign, Concludes, Trouble, Settles, Rest, Free
      <3>2. QED  BY <2>1, <3>1, ConcludingKeeps
    <2>3. CASE order.keyType # Found.keyType
      <3> DEFINE s == [of |-> got.sad, alg |-> Found.keyType]
      <3>1. /\ stage' = "over" /\ UNCHANGED order /\ outcome' = Failed
            /\ performed' = <<>> \/ (excuse' /\ performed' = Append(<<>>, s))
        BY <1>1, <2>1, <2>3 DEF SslcomSign, Trouble, Settles, Rest, Free
      <3> HIDE DEF s
      <3>2. Len(Append(<<>>, s)) = 1 /\ Len(<<>>) = 0
        BY OneIsAppended
      <3>3. StageOK'
        BY <3>1 DEF ServicesInv, StageOK, Usual
      <3>4. PaidOK'
        BY <3>1, <3>2 DEF PaidOK, Failed
      <3>5. QED  BY <3>3, <3>4 DEF ServicesInv
    <2>4. QED  BY <2>2, <2>3
  <1>2. CASE KmsSign
    <2> DEFINE alg == IF order.service = "gcpkms" THEN Found.alg ELSE order.alg
    <2>1. /\ performed = <<>> /\ (alg \in Writable \/ order.service \in {"gcpkms", "generic"})
      BY <1>2 DEF ServicesInv, StageOK, PaidOK, KmsSign
    <2>2. Concludes(alg)
      BY <1>2, <2>1, Decoded DEF KmsSign, Concludes, Trouble, Settles, Rest, Free
    <2> HIDE DEF alg
    <2>3. QED  BY <2>1, <2>2, ConcludingKeeps
  <1>3. CASE AzurePoll
    <2>1. /\ performed = <<>> /\ order.alg \in Writable
          /\ got.signature = [of |-> "digest", alg |-> order.alg]
      BY <1>3 DEF ServicesInv, StageOK, PaidOK, AzurePoll
    <2>2. Concludes(order.alg)
      BY <1>3, <2>1, Decoded DEF AzurePoll, Concludes, Trouble, Settles, Rest, Free
    <2>3. QED  BY <2>1, <2>2, ConcludingKeeps
  <1>4. QED  BY <1>1, <1>2, <1>3

LEMMA AzureStartKeeps == ASSUME ServicesInv, AzureStart PROVE ServicesInv'
  <1>1. stage = "start" /\ performed = <<>> /\ order.service = "azurets" /\ order.alg \in Writable
    BY DEF ServicesInv, StageOK, PaidOK, AzureStart
  <1> DEFINE s == [of |-> "digest", alg |-> order.alg]
  <1>2. /\ UNCHANGED order
        /\ \/ stage' = "over" /\ outcome' = Failed /\ performed' = <<>>
           \/ stage' = "over" /\ outcome' = Failed /\ excuse' /\ performed' \in {<<>>, Append(<<>>, s)}
           \/ stage' = "poll" /\ UNCHANGED <<outcome, performed>> /\ got'.signature = s
    BY <1>1 DEF AzureStart, Trouble, Settles, Proceeds, Rest, Free
  <1>3. CASE stage' = "poll"
    <2>1. StageOK'
      BY <1>1, <1>2, <1>3 DEF ServicesInv, StageOK, Usual
    <2>2. QED  BY <1>1, <1>2, <1>3, <2>1, ProceedingKeeps
  <1>4. CASE stage' # "poll"
    <2>1. Concludes(order.alg)
      BY <1>2, <1>4 DEF Concludes
    <2>2. QED  BY <1>1, <2>1, ConcludingKeeps
  <1>5. QED  BY <1>3, <1>4

\* What a described service signed, and how it is read, is the person's word.
LEMMA GenericKeeps == ASSUME ServicesInv, GenericAnswer PROVE ServicesInv'
  <1>1. stage = "generic" /\ performed = <<>> /\ order.service = "generic"
    BY DEF ServicesInv, StageOK, PaidOK, GenericAnswer
  <1>2. /\ UNCHANGED order /\ stage' = "over"
        /\ outcome' = Failed \/ outcome'.is = "signature"
        /\ \E s : \/ performed' = Append(<<>>, s)
                  \/ outcome' = Failed /\ performed' \in {<<>>, Append(<<>>, s)}
    <2>1. \A v, how : DecodeSignature(v, how) = Failed \/ DecodeSignature(v, how).is = "signature"
      BY DEF DecodeSignature
    <2>2. outcome' = Failed \/ outcome'.is = "signature"
      <3>1. outcome' = Failed \/ (\E v, how : outcome' = DecodeSignature(v, how))
        BY DEF GenericAnswer, Trouble, Settles
      <3>2. QED  BY <2>1, <3>1
    <2>3. UNCHANGED order /\ stage' = "over"
      BY DEF GenericAnswer, Trouble, Settles, Rest
    <2>4. \E s : \/ performed' = Append(<<>>, s)
                 \/ (outcome' = Failed /\ performed' \in {<<>>, Append(<<>>, s)})
      BY <1>1 DEF GenericAnswer, Trouble, Settles
    <2>5. QED  BY <2>2, <2>3, <2>4
  <1>3. PICK s : \/ performed' = Append(<<>>, s)
                 \/ outcome' = Failed /\ performed' \in {<<>>, Append(<<>>, s)}
    BY <1>2
  <1>4. Len(Append(<<>>, s)) = 1 /\ Len(<<>>) = 0
    BY OneIsAppended
  <1>5. StageOK'
    BY <1>2 DEF ServicesInv, StageOK, Usual
  <1>6. performed' = <<>> \/ Len(performed') = 1
    BY <1>3, <1>4
  <1>7. outcome' # Failed => Len(performed') = 1
    BY <1>3, <1>4
  <1>8. Failed.is = "failed"
    BY DEF Failed
  <1>9. PaidOK'
    BY <1>1, <1>2, <1>6, <1>7, <1>8 DEF PaidOK
  <1>10. QED  BY <1>5, <1>9 DEF ServicesInv

\* A signature becomes a file with the certificate of its key, sent or given.
LEMMA WritingKeeps == ASSUME ServicesInv, WriteFile PROVE ServicesInv'
  <1>1. /\ stage = "over" /\ outcome.is = "signature" /\ stage' = "done" /\ UNCHANGED <<order, performed, excuse>>
        /\ order \in Orders
    BY DEF WriteFile, Free, Rest, ServicesInv, StageOK
  <1>2. PICK sent \in SendsCertificate :
          outcome' = IF ~sent /\ order.certificate = "none" THEN [is |-> "no certificate"]
                     ELSE IF UsableSignature(outcome) /\ (sent \/ order.certificate = "its") THEN [is |-> "file"]
                     ELSE Failed
    BY DEF WriteFile
  <1>3. Len(performed) = 1
    BY <1>1 DEF ServicesInv, PaidOK
  <1>4. StageOK'
    BY <1>1 DEF StageOK, Usual
  <1>5. ASSUME ~excuse, order.service \notin {"gcpkms", "generic"}, performed # <<>>
        PROVE  outcome'.is = "file" \/ (order.certificate # "its" /\ order.service \in {"awskms", "azurets"})
    <2>1. UsableSignature(outcome)
      BY <1>1, <1>5 DEF ServicesInv, PaidOK
    <2>2. CASE order.service = "sslcom"
      <3>1. sent
        BY <2>2 DEF SendsCertificate
      <3>2. outcome' = [is |-> "file"]
        BY <1>2, <2>1, <3>1
      <3>3. QED  BY <3>2
    <2>3. CASE order.certificate = "its"
      <3>1. outcome' = [is |-> "file"]
        BY <1>2, <2>1, <2>3
      <3>2. QED  BY <3>1
    <2>4. order.service \in {"sslcom", "awskms", "azurets"}
      BY <1>1, <1>5, SignServicesAssumption
    <2>5. QED  BY <2>2, <2>3, <2>4
  <1>6. PaidOK'
    BY <1>1, <1>3, <1>5 DEF PaidOK
  <1>7. QED  BY <1>4, <1>6 DEF ServicesInv

LEMMA InitServicesInv == InitServices => ServicesInv
  <1>1. Len(<<>>) = 0
    OBVIOUS
  <1>2. QED  BY <1>1 DEF InitServices, ServicesFor, ServicesInv, StageOK, PaidOK, Pending, Usual

LEMMA ServicesInvariant == SpecServices => []ServicesInv
  <1>1. ServicesInv /\ [NextServices]_servicesVars => ServicesInv'
    BY StandingKeeps, BeginningKeeps, SslcomKeeps, SigningKeeps, AzureStartKeeps, GenericKeeps,
       WritingKeeps DEF NextServices
  <1>2. QED  BY <1>1, InitServicesInv, PTL DEF SpecServices

(***************************************************************************)
(* For any orders and answers of the services: at most one signature is    *)
(* made for a press of the button, and one that was made and not lost on   *)
(* the way is one the page can write and becomes a file, or fails for want *)
(* of the certificate of its key, which the page reads only afterwards     *)
(* (the services of sign-services.js, signWithService of sign-ui.js).      *)
(***************************************************************************)
THEOREM PaidForOnce == SpecServices => []PaidSignatureIsUsable
  <1>1. Len(<<>>) = 0
    OBVIOUS
  <1>2. ServicesInv => PaidSignatureIsUsable
    <2>1. SUFFICES ASSUME ServicesInv PROVE PaidSignatureIsUsable
      OBVIOUS
    <2>2. performed = <<>> \/ Len(performed) = 1
      BY <2>1 DEF ServicesInv, PaidOK
    <2>3. Len(performed) <= 1
      BY <1>1, <2>2
    <2>4. performed # <<>> => stage \in {"over", "done"}
      BY <2>1 DEF ServicesInv, PaidOK
    <2>5. outcome.is \in {"signature", "file", "no certificate"} => Len(performed) = 1
      BY <2>1 DEF ServicesInv, PaidOK
    <2>6. ASSUME performed # <<>>, ~excuse, order.service \notin {"gcpkms", "generic"}
          PROVE  /\ stage = "over" => UsableSignature(outcome)
                 /\ stage = "done" => \/ outcome.is = "file"
                                     \/ (order.certificate # "its" /\ order.service \in {"awskms", "azurets"})
      BY <2>1, <2>6 DEF ServicesInv, PaidOK
    <2>7. QED  BY <2>3, <2>4, <2>5, <2>6 DEF PaidSignatureIsUsable
  <1>3. QED  BY <1>2, ServicesInvariant, PTL

(***************************************************************************)
(* EditPage. The inductive invariant: each thing that is being read or     *)
(* saved carries which installer it was begun with, and whether another    *)
(* was opened since.                                                       *)
(***************************************************************************)
RecordText == [of : Nat, edited : BOOLEAN]
BaseFile == [of : Nat, icon : BOOLEAN]
Inst == [file : Openable, base : BaseFile, signed : BOOLEAN, mixed : BOOLEAN]
PackedFile == [of : Nat, late : BOOLEAN]
Packing == [pc : {"pack"}, by : Nat, listed : BOOLEAN, named : BOOLEAN]
BoundPlan == {No} \cup [of : Nat, names : RecordText, edited : BOOLEAN, sig : BOOLEAN]
Binding == [pc : {"bind"}, record : RecordText, plan : RecordText, ack : BOOLEAN, overlap : BOOLEAN]
Writing ==
    [pc : {"write"}, record : RecordText, plan : BoundPlan, base : BaseFile, packs : SUBSET PackedFile,
     unasked : BOOLEAN, overlap : BOOLEAN]

Opened == 1..Len(insts)

PageOK ==
    /\ insts \in Seq(Inst) /\ current = Len(insts)
    /\ reading \subseteq Openable
    /\ \A n \in Opened : insts[n].base.of = n \/ insts[n].mixed
    /\ recordText \in RecordText /\ recordText.of = current
    /\ planText \in RecordText /\ planText.of \in {0, current}
    /\ ack \in BOOLEAN
    /\ packs \subseteq PackedFile /\ \A m \in packs : m.of = current \/ m.late
    /\ adding \in Nat

\* The icon: it is written to an installer no older than the one it was picked
\* for.
IconOK ==
    /\ icon.pc = "pack" => icon \in Packing
    /\ icon.pc \in {"raster", "build", "write"} => icon.by \in Opened
    /\ icon.pc = "write" =>
          /\ icon.on \in Opened /\ icon.by <= icon.on /\ icon.base \in BaseFile
          /\ icon.base.of = icon.on \/ insts[icon.on].mixed

\* A plan names the record it was bound to.
PlanNames(p, r) ==
    p # No => p.names = r /\ (p.sig => ~p.edited /\ r = [of |-> p.of, edited |-> FALSE])

\* What a save that nothing came between has of the installer on the page.
SavingOK ==
    /\ saving.pc \in {"idle", "bind", "write"}
    /\ saving.pc # "idle" => current # 0
    /\ saving.pc = "bind" =>
          /\ saving \in Binding
          /\ ~saving.overlap =>
                /\ saving.record.of = current /\ saving.plan.of \in {0, current}
                /\ insts[current].signed => saving.ack
    /\ saving.pc = "write" =>
          /\ saving \in Writing /\ PlanNames(saving.plan, saving.record)
          /\ ~saving.overlap =>
                /\ saving.base.of = current /\ saving.record.of = current
                /\ saving.plan.of \in {0, current}
                /\ \A m \in saving.packs : m.of = current
                /\ ~saving.unasked

SavedOK ==
    saved # No =>
        /\ PlanNames(saved.plan, saved.record)
        /\ ~saved.overlap => saved.of \in Opened /\ OneInstaller(saved)

EditInv == PageOK /\ IconOK /\ SavingOK /\ SavedOK

LEMMA InitEditInv == InitEdit => EditInv
  <1>1. SUFFICES ASSUME InitEdit PROVE EditInv
    OBVIOUS
  <1>2. insts = <<>> /\ insts \in Seq(Inst) /\ Len(insts) = 0
    BY <1>1 DEF InitEdit
  <1>5. recordText \in RecordText /\ recordText.of = 0 /\ planText = recordText
    BY <1>1 DEF InitEdit, RecordText
  <1>6. Opened = {}
    BY <1>2 DEF Opened
  <1>3. PageOK
    BY <1>1, <1>2, <1>5, <1>6 DEF InitEdit, PageOK
  <1>4. IconOK /\ SavingOK /\ SavedOK
    BY <1>1 DEF InitEdit, IconOK, SavingOK, SavedOK, Idle
  <1>7. QED  BY <1>3, <1>4 DEF EditInv

\* What a step leaves alone stays right.
LEMMA RestKeeps ==
    ASSUME EditInv, UNCHANGED <<insts, current>>
    PROVE  /\ UNCHANGED icon => IconOK'
           /\ UNCHANGED saving => SavingOK'
           /\ UNCHANGED saved => SavedOK'
  BY DEF EditInv, IconOK, SavingOK, SavedOK, Opened, OneInstaller, KindOf

LEMMA InstIs ==
    ASSUME EditInv, NEW n \in Opened
    PROVE  /\ insts[n] \in Inst /\ n \in Nat \ {0} /\ n <= current
           /\ insts[n].base \in BaseFile /\ insts[n].base.of \in Nat
           /\ insts[n].signed \in BOOLEAN /\ insts[n].mixed \in BOOLEAN
  <1>1. insts[n] \in Inst /\ n \in Nat \ {0} /\ n <= current
    BY DEF EditInv, PageOK, Opened
  <1>2. QED  BY <1>1 DEF Inst, BaseFile

LEMMA CurrentIs ==
    ASSUME EditInv
    PROVE  current \in Nat /\ (current # 0 => current \in Opened) /\ (Opened # {} => current \in Opened)
  BY DEF EditInv, PageOK, Opened

\* The steps that touch neither the installers nor what is being saved.
LEMMA PageStepKeeps ==
    ASSUME EditInv,
           \/ \E f \in Openable : Pick(f) \/ ReadFails(f)
           \/ EditRecord \/ EditPlan \/ Acknowledge \/ AddFile \/ FileAdded \/ RemovePacked
           \/ UNCHANGED editVars
    PROVE  EditInv'
  <1>1. UNCHANGED <<insts, current, icon, saving, saved>>
    BY DEF Pick, ReadFails, EditRecord, EditPlan, Acknowledge, AddFile, FileAdded, RemovePacked, editVars
  <1>2. IconOK' /\ SavingOK' /\ SavedOK'
    BY <1>1, RestKeeps
  <1>3. PageOK /\ current \in Nat /\ Opened' = Opened
    BY <1>1, CurrentIs DEF EditInv, Opened
  <1>4. PageOK'
    <2>1. ASSUME NEW f \in Openable, Pick(f) \/ ReadFails(f)  PROVE PageOK'
      BY <1>3, <2>1 DEF PageOK, Pick, ReadFails
    <2>2. CASE EditRecord
      <3>1. recordText' \in RecordText /\ recordText'.of = recordText.of
        BY <1>3, <2>2 DEF PageOK, EditRecord, RecordText
      <3>2. QED  BY <1>3, <2>2, <3>1 DEF PageOK, EditRecord
    <2>3. CASE EditPlan
      BY <1>3, <2>3 DEF PageOK, EditPlan, RecordText
    <2>4. CASE Acknowledge
      BY <1>3, <2>4 DEF PageOK, Acknowledge
    <2>5. CASE AddFile
      BY <1>3, <2>5 DEF PageOK, AddFile
    <2>6. CASE FileAdded
      <3> DEFINE b == adding # current
                 m == [of |-> adding, late |-> b]
      <3>1. m \in PackedFile /\ (m.of = current \/ m.late)
        BY <1>3 DEF PageOK, PackedFile
      <3> HIDE DEF m
      <3>2. QED  BY <1>3, <2>6, <3>1 DEF PageOK, FileAdded, m
    <2>7. CASE RemovePacked
      BY <1>3, <2>7 DEF PageOK, RemovePacked
    <2>8. CASE UNCHANGED editVars
      BY <1>3, <2>8 DEF PageOK, editVars
    <2>9. QED  BY <2>1, <2>2, <2>3, <2>4, <2>5, <2>6, <2>7, <2>8
  <1>5. QED  BY <1>2, <1>4 DEF EditInv

LEMMA EditRawKeeps == ASSUME EditInv, EditRaw PROVE EditInv'
  <1>1. UNCHANGED <<insts, current, saving, saved>>
    BY DEF EditRaw
  <1>2. SavingOK' /\ SavedOK' /\ Opened' = Opened
    BY <1>1, RestKeeps DEF Opened
  <1>3. recordText' \in RecordText /\ recordText'.of = recordText.of
    BY DEF EditInv, PageOK, EditRaw, RecordText
  <1>4. PageOK'
    BY <1>2, <1>3 DEF EditInv, PageOK, EditRaw
  <1>5. IconOK'
    <2>1. CASE icon.pc = "pack"
      BY <2>1 DEF EditInv, IconOK, EditRaw, Packing
    <2>2. CASE icon.pc # "pack"
      BY <1>2, <2>2 DEF EditInv, IconOK, EditRaw
    <2>3. QED  BY <2>1, <2>2
  <1>6. QED  BY <1>2, <1>4, <1>5 DEF EditInv

\* Another installer comes to the page, and what was under way is told.
LEMMA LoadKeeps == ASSUME EditInv, NEW f \in Openable, Load(f) PROVE EditInv'
  <1>0. PICK n : n = Len(insts) + 1
    OBVIOUS
  <1> DEFINE i == [file |-> f, base |-> [of |-> n, icon |-> FALSE], signed |-> f.signed, mixed |-> FALSE]
  <1>1. insts \in Seq(Inst) /\ current = Len(insts) /\ current \in Nat /\ n \in Nat \ {0} /\ n = current + 1
    BY <1>0 DEF EditInv, PageOK
  <1>2. insts' = Append(insts, i) /\ current' = n
    BY <1>0 DEF Load
  <1>3. i \in Inst /\ i.base.of = n /\ i.file = f
    BY <1>1, EditAssumption DEF Inst, BaseFile
  <1> HIDE DEF i
  <1>4. /\ insts' \in Seq(Inst) /\ Len(insts') = n /\ insts'[n] = i
        /\ \A m \in Opened : insts'[m] = insts[m]
        /\ Opened' = Opened \cup {n} /\ n \notin Opened
    BY <1>0, <1>1, <1>2, <1>3 DEF Opened
  <1>5. PageOK'
    <2>1. recordText' = [of |-> n, edited |-> FALSE] /\ recordText' \in RecordText
      BY <1>0, <1>1 DEF Load, RecordText
    <2>2. planText' = [of |-> IF f.plan THEN n ELSE 0, edited |-> FALSE]
      BY <1>0 DEF Load
    <2>3. planText' \in RecordText /\ planText'.of \in {0, n}
      BY <1>1, <2>2 DEF RecordText
    <2>4. packs' = {[of |-> n, late |-> FALSE]}
      BY <1>0 DEF Load, OpenedPacks
    <2>5. packs' \subseteq PackedFile /\ \A m \in packs' : m.of = n
      BY <1>1, <2>4 DEF PackedFile
    <2>6. reading' \subseteq Openable /\ ack' = FALSE /\ adding' = adding
      BY DEF Load, EditInv, PageOK
    <2>7. \A m \in Opened' : insts'[m].base.of = m \/ insts'[m].mixed
      BY <1>3, <1>4 DEF EditInv, PageOK
    <2>8. QED  BY <1>2, <1>4, <2>1, <2>3, <2>5, <2>6, <2>7 DEF PageOK, EditInv
  <1>6. IconOK'
    <2>1. CASE icon.pc = "pack"
      BY <2>1 DEF EditInv, IconOK, Load, Packing
    <2>2. CASE icon.pc # "pack"
      BY <1>4, <2>2 DEF EditInv, IconOK, Load
    <2>3. QED  BY <2>1, <2>2
  <1>7. SavingOK'
    <2>1. CASE saving.pc = "idle"
      BY <2>1 DEF Load, SavingOK
    <2>2. CASE saving.pc # "idle"
      <3>1. saving' = [saving EXCEPT !.overlap = TRUE]
        BY <2>2 DEF Load
      <3>2. CASE saving.pc = "bind"
        <4>1. saving' \in Binding /\ saving'.overlap /\ saving'.pc = "bind"
          BY <3>1, <3>2 DEF EditInv, SavingOK, Binding
        <4>2. QED  BY <1>1, <1>2, <4>1 DEF SavingOK
      <3>3. CASE saving.pc = "write"
        <4>1. /\ saving' \in Writing /\ saving'.overlap /\ saving'.pc = "write"
              /\ saving'.plan = saving.plan /\ saving'.record = saving.record
          BY <3>1, <3>3 DEF EditInv, SavingOK, Writing
        <4>2. QED  BY <1>1, <1>2, <3>3, <4>1 DEF EditInv, SavingOK
      <3>4. QED  BY <2>2, <3>2, <3>3 DEF EditInv, SavingOK
    <2>3. QED  BY <2>1, <2>2
  <1>8. SavedOK'
    <2>1. saved' = saved
      BY DEF Load
    <2>2. QED  BY <1>4, <2>1 DEF EditInv, SavedOK, OneInstaller, KindOf
  <1>9. QED  BY <1>5, <1>6, <1>7, <1>8 DEF EditInv

LEMMA IconStepKeeps ==
    ASSUME EditInv, PickIcon \/ IconRastered \/ IconBuilt \/ IconPacked
    PROVE  EditInv'
  <1>1. UNCHANGED <<insts, current, reading, planText, ack, adding, saving, saved>>
    BY DEF PickIcon, IconRastered, IconBuilt, IconPacked
  <1>2. SavingOK' /\ SavedOK' /\ Opened' = Opened /\ current \in Nat
    BY <1>1, RestKeeps, CurrentIs DEF Opened
  <1>3. CASE PickIcon
    <2>1. current \in Opened
      BY <1>3, CurrentIs DEF PickIcon, Gesture
    <2>2. QED
      BY <1>1, <1>2, <1>3, <2>1 DEF EditInv, PageOK, IconOK, PickIcon
  <1>4. CASE IconRastered
    <2>1. icon.by \in Opened /\ icon.by \in Nat
      BY <1>4 DEF EditInv, IconOK, IconRastered, Opened
    <2>2. IconOK'
      BY <1>2, <1>4, <2>1 DEF IconOK, IconRastered, Packing
    <2>3. QED  BY <1>1, <1>2, <1>4, <2>2 DEF EditInv, PageOK, IconRastered
  <1>5. CASE IconBuilt
    <2> DEFINE b == [insts[current].base EXCEPT !.icon = TRUE]
    <2>1. icon.by \in Opened /\ current \in Opened
      BY <1>5, CurrentIs DEF EditInv, IconOK, IconBuilt
    <2>2. b \in BaseFile /\ b.of = insts[current].base.of
      BY <2>1, InstIs DEF BaseFile
    <2> HIDE DEF b
    <2>3. b.of = current \/ insts[current].mixed
      BY <2>1, <2>2 DEF EditInv, PageOK
    <2>4. icon.by <= current
      BY <2>1, InstIs
    <2>5. IconOK'
      <3>1. CASE KindOf(current) # icon.kind
        BY <1>5, <3>1 DEF IconOK, IconBuilt, Idle
      <3>2. CASE KindOf(current) = icon.kind
        <4>1. icon' = [pc |-> "write", by |-> icon.by, kind |-> icon.kind, on |-> current, base |-> b]
          BY <1>5, <3>2 DEF IconBuilt, b
        <4>2. QED  BY <1>1, <1>2, <2>1, <2>2, <2>3, <2>4, <4>1 DEF IconOK
      <3>3. QED  BY <3>1, <3>2
    <2>6. QED  BY <1>1, <1>2, <1>5, <2>5 DEF EditInv, PageOK, IconBuilt
  <1>6. CASE IconPacked
    <2>1. IconOK'
      BY <1>6 DEF IconPacked, IconOK, Idle
    <2>2. recordText' \in RecordText /\ recordText'.of = recordText.of
      BY <1>6 DEF EditInv, PageOK, IconPacked, RecordText
    <2> DEFINE p == [of |-> current, late |-> FALSE]
    <2>5. p \in PackedFile /\ p.of = current
      BY <1>2 DEF PackedFile
    <2>6. packs' = packs \/ packs' = packs \cup {p}
      BY <1>6 DEF IconPacked
    <2> HIDE DEF p
    <2>3. packs' \subseteq PackedFile /\ \A m \in packs' : m.of = current \/ m.late
      BY <2>5, <2>6 DEF EditInv, PageOK
    <2>4. QED  BY <1>1, <1>2, <2>1, <2>2, <2>3 DEF EditInv, PageOK
  <1>7. QED  BY <1>3, <1>4, <1>5, <1>6

LEMMA IconWrittenKeeps == ASSUME EditInv, IconWritten PROVE EditInv'
  <1>1. /\ icon.pc = "write" /\ icon.by \in Opened /\ icon.on \in Opened /\ icon.by <= icon.on
        /\ icon.base \in BaseFile /\ (icon.base.of = icon.on \/ insts[icon.on].mixed)
        /\ current \in Opened /\ current = Len(insts) /\ insts \in Seq(Inst)
    BY CurrentIs DEF EditInv, IconOK, IconWritten, PageOK
  <1>2. UNCHANGED <<current, reading, recordText, planText, packs, ack, adding, saving, saved>> /\ icon' = Idle
    BY DEF IconWritten
  <1>3. /\ insts' \in Seq(Inst) /\ Len(insts') = Len(insts)
        /\ \A n \in Opened : insts'[n].base.of = n \/ insts'[n].mixed
        /\ \A n \in Opened : insts'[n].file = insts[n].file /\ (insts'[n].signed => insts[n].signed)
    <2>1. CASE icon.kind = "exe"
      <3> DEFINE b == insts[current].mixed \/ icon.by # current
                 i == [insts[current] EXCEPT !.base = icon.base, !.signed = FALSE, !.mixed = b]
      <3>1. insts' = [insts EXCEPT ![current] = i]
        BY <2>1 DEF IconWritten
      <3>2. PICK c \in BOOLEAN : c = b
        OBVIOUS
      <3>3. c \/ icon.base.of = current
        <4>1. SUFFICES ASSUME ~b PROVE icon.base.of = current
          BY <3>2
        <4>2. icon.on <= current /\ icon.on \in Nat /\ icon.by \in Nat
          BY <1>1 DEF Opened
        <4>3. icon.on = current
          BY <1>1, <4>1, <4>2
        <4>4. QED  BY <1>1, <4>1, <4>3
      <3>4. insts[current] \in Inst
        BY <1>1, InstIs
      <3> HIDE DEF b
      <3>5. i \in Inst /\ i.base = icon.base /\ i.signed = FALSE /\ i.mixed = c /\ i.file = insts[current].file
        BY <1>1, <3>2, <3>4 DEF Inst
      <3> HIDE DEF i
      <3>6. /\ insts' \in Seq(Inst) /\ Len(insts') = Len(insts)
            /\ \A n \in Opened : insts'[n] = IF n = current THEN i ELSE insts[n]
        BY <1>1, <3>1, <3>5 DEF Opened
      <3>7. QED  BY <3>3, <3>5, <3>6 DEF EditInv, PageOK
    <2>2. CASE icon.kind # "exe"
      <3> DEFINE i == [insts[icon.on] EXCEPT !.base = icon.base]
      <3>1. insts' = [insts EXCEPT ![icon.on] = i]
        BY <2>2 DEF IconWritten
      <3>2. insts[icon.on] \in Inst
        BY <1>1, InstIs
      <3>3. /\ i \in Inst /\ i.base = icon.base /\ i.signed = insts[icon.on].signed
            /\ i.mixed = insts[icon.on].mixed /\ i.file = insts[icon.on].file
        BY <1>1, <3>2 DEF Inst
      <3> HIDE DEF i
      <3>4. /\ insts' \in Seq(Inst) /\ Len(insts') = Len(insts)
            /\ \A n \in Opened : insts'[n] = IF n = icon.on THEN i ELSE insts[n]
        BY <1>1, <3>1, <3>3 DEF Opened
      <3>5. QED  BY <1>1, <3>3, <3>4 DEF EditInv, PageOK
    <2>3. QED  BY <2>1, <2>2
  <1>4. Opened' = Opened
    BY <1>3 DEF Opened
  <1>5. PageOK'
    BY <1>1, <1>2, <1>3, <1>4 DEF EditInv, PageOK
  <1>6. IconOK'
    BY <1>2 DEF IconOK, Idle
  <1>7. SavingOK'
    BY <1>1, <1>2, <1>3 DEF EditInv, SavingOK
  <1>8. SavedOK'
    BY <1>2, <1>3, <1>4 DEF EditInv, SavedOK, OneInstaller, KindOf
  <1>9. QED  BY <1>5, <1>6, <1>7, <1>8 DEF EditInv

\* A plan that is bound names its record, and keeps its signature only untouched.
LEMMA BindPlanIs ==
    ASSUME NEW p \in RecordText, NEW r \in RecordText
    PROVE  /\ BindPlan(p, r) \in BoundPlan /\ BindPlan(p, r).of = p.of
           /\ PlanNames(BindPlan(p, r), r)
  <1>1. CASE p.of = 0
    BY <1>1 DEF BindPlan, BoundPlan, No, PlanNames
  <1>2. CASE p.of # 0
    <2> DEFINE s == insts[p.of].file.plan /\ ~p.edited /\ r = [of |-> p.of, edited |-> FALSE]
    <2>1. PICK b \in BOOLEAN : b = s
      OBVIOUS
    <2>2. b => ~p.edited /\ r = [of |-> p.of, edited |-> FALSE]
      BY <2>1
    <2> HIDE DEF s
    <2>3. BindPlan(p, r) = [of |-> p.of, names |-> r, edited |-> p.edited, sig |-> b]
      BY <1>2, <2>1 DEF BindPlan, s
    <2>4. p.of \in Nat /\ p.edited \in BOOLEAN
      BY DEF RecordText
    <2>5. QED  BY <2>2, <2>3, <2>4 DEF BoundPlan, PlanNames
  <1>3. QED  BY <1>1, <1>2

\* What is written is of the installer on the page, or something came between.
LEMMA WriteKeeps ==
    ASSUME EditInv, current # 0,
           NEW record \in RecordText, NEW plan \in RecordText, NEW told \in BOOLEAN, NEW overlap \in BOOLEAN,
           NEW s, s.record = record, s.plan = plan, s.ack = told, s.overlap = overlap,
           ~overlap => /\ record.of = current /\ plan.of \in {0, current}
                       /\ insts[current].signed => told,
           Write(s), UNCHANGED <<insts, current>>
    PROVE  SavingOK' /\ SavedOK'
  <1> DEFINE u == insts[current].signed /\ ~s.ack
             o == s.overlap \/ insts[current].mixed \/ \E m \in packs : m.late
             bp == BindPlan(plan, record)
  <1>1. PICK unasked \in BOOLEAN : unasked = u
    OBVIOUS
  <1>2. PICK mixed \in BOOLEAN : mixed = o
    OBVIOUS
  <1> DEFINE w == [pc |-> "write", record |-> record, plan |-> bp, base |-> insts[current].base, packs |-> packs,
                   unasked |-> unasked, overlap |-> mixed]
  <1>3. IF KindOf(current) = "zip" THEN saving' = w /\ UNCHANGED saved
        ELSE saving' = Idle /\ saved' = Output(w)
    BY <1>1, <1>2 DEF Write
  <1>4. current \in Opened /\ Opened' = Opened
    BY CurrentIs DEF Opened
  <1>5. bp \in BoundPlan /\ bp.of = plan.of /\ PlanNames(bp, record)
    BY BindPlanIs
  <1>6. packs \subseteq PackedFile /\ \A m \in packs : m.of = current \/ m.late
    BY DEF EditInv, PageOK
  <1>7. insts[current].base \in BaseFile /\ (insts[current].base.of = current \/ insts[current].mixed)
    BY <1>4, InstIs DEF EditInv, PageOK
  <1>8. ~mixed => /\ insts[current].base.of = current /\ record.of = current /\ bp.of \in {0, current}
                  /\ \A m \in packs : m.of = current
                  /\ ~unasked
    BY <1>1, <1>2, <1>5, <1>6, <1>7
  <1> HIDE DEF u, o, bp
  <1>9. /\ w \in Writing /\ w.pc = "write" /\ w.record = record /\ w.plan = bp /\ w.packs = packs
        /\ w.base = insts[current].base /\ w.unasked = unasked /\ w.overlap = mixed
    BY <1>5, <1>6, <1>7 DEF Writing
  <1> HIDE DEF w
  <1>10. CASE KindOf(current) = "zip"
    <2>1. saving' = w /\ saved' = saved
      BY <1>3, <1>10
    <2>2. SavingOK'
      BY <1>5, <1>8, <1>9, <2>1 DEF SavingOK
    <2>3. SavedOK'
      BY <2>1, RestKeeps
    <2>4. QED  BY <2>2, <2>3
  <1>11. CASE KindOf(current) # "zip"
    <2>1. saving' = Idle /\ saved' = Output(w)
      BY <1>3, <1>11
    <2>2. saved' = [of |-> w.base.of, record |-> record, plan |-> bp, packs |-> packs,
                    unasked |-> unasked, named |-> KindOf(current), overlap |-> mixed]
      BY <1>9, <2>1 DEF Output
    <2>3. SavedOK'
      <3>1. /\ saved'.of = insts[current].base.of /\ saved'.record = record /\ saved'.plan = bp
            /\ saved'.packs = packs /\ saved'.named = KindOf(current)
            /\ (saved'.overlap => mixed) /\ (mixed => saved'.overlap) /\ (saved'.unasked => unasked)
        BY <1>9, <2>2
      <3>2. PlanNames(saved'.plan, saved'.record)
        BY <1>5, <3>1
      <3>3. ~mixed => saved'.of \in Opened /\ OneInstaller(saved)'
        BY <1>4, <1>8, <3>1 DEF OneInstaller, KindOf
      <3>4. QED  BY <1>4, <3>1, <3>2, <3>3 DEF SavedOK
    <2>4. QED  BY <2>1, <2>3 DEF SavingOK, Idle
  <1>12. QED  BY <1>10, <1>11

LEMMA SaveStepKeeps ==
    ASSUME EditInv, Save \/ Bound \/ Written
    PROVE  EditInv'
  <1>1. UNCHANGED <<insts, current, reading, recordText, planText, packs, ack, icon, adding>>
    BY DEF Save, Bound, Written
  <1>2. IconOK' /\ Opened' = Opened /\ PageOK'
    BY <1>1, RestKeeps DEF EditInv, PageOK, Opened
  <1>3. CASE Save
    <2> DEFINE s == [pc |-> "bind", record |-> recordText, plan |-> planText, ack |-> ack, overlap |-> FALSE]
    <2>1. /\ current # 0 /\ (insts[current].signed => ack)
          /\ IF planText.of = 0 THEN Write(s) ELSE saving' = s /\ UNCHANGED saved
      BY <1>3 DEF Save, Gesture
    <2>2. /\ recordText \in RecordText /\ recordText.of = current /\ planText \in RecordText /\ planText.of \in {0, current}
          /\ ack \in BOOLEAN
      BY DEF EditInv, PageOK
    <2>3. /\ s \in Binding /\ s.pc = "bind" /\ s.record = recordText /\ s.plan = planText /\ s.ack = ack
          /\ s.overlap = FALSE
      BY <2>2 DEF Binding
    <2> HIDE DEF s
    <2>4. CASE planText.of = 0
      <3>1. SavingOK' /\ SavedOK'
        BY <1>1, <2>1, <2>2, <2>3, <2>4, WriteKeeps
      <3>2. QED  BY <1>2, <3>1 DEF EditInv
    <2>5. CASE planText.of # 0
      <3>1. SavedOK' /\ saving' = s
        BY <1>1, <2>1, <2>5, RestKeeps
      <3>2. SavingOK'
        BY <1>1, <2>1, <2>2, <2>3, <3>1 DEF SavingOK
      <3>3. QED  BY <1>2, <3>1, <3>2 DEF EditInv
    <2>6. QED  BY <2>4, <2>5
  <1>4. CASE Bound
    <2>1. /\ current # 0 /\ saving \in Binding /\ Write(saving)
          /\ ~saving.overlap =>
                /\ saving.record.of = current /\ saving.plan.of \in {0, current}
                /\ insts[current].signed => saving.ack
      BY <1>4 DEF EditInv, SavingOK, Bound
    <2>2. saving.record \in RecordText /\ saving.plan \in RecordText /\ saving.ack \in BOOLEAN /\ saving.overlap \in BOOLEAN
      BY <2>1 DEF Binding
    <2>3. SavingOK' /\ SavedOK'
      BY <1>1, <2>1, <2>2, WriteKeeps
    <2>4. QED  BY <1>2, <2>3 DEF EditInv
  <1>5. CASE Written
    <2>1. /\ current \in Opened /\ saving \in Writing /\ PlanNames(saving.plan, saving.record)
          /\ ~saving.overlap =>
                /\ saving.base.of = current /\ saving.record.of = current
                /\ saving.plan.of \in {0, current}
                /\ \A m \in saving.packs : m.of = current
                /\ ~saving.unasked
      BY <1>5, CurrentIs DEF EditInv, SavingOK, Written
    <2>2. saving' = Idle /\ saved' = Output(saving)
      BY <1>5 DEF Written
    <2>3. /\ saved'.of = saving.base.of /\ saved'.record = saving.record /\ saved'.plan = saving.plan
          /\ saved'.packs = saving.packs /\ saved'.named = KindOf(current)
          /\ (saving.overlap => saved'.overlap) /\ (saved'.unasked => saving.unasked)
      BY <2>2 DEF Output
    <2>4. ~saving.overlap => saved'.of \in Opened /\ OneInstaller(saved)'
      BY <1>1, <2>1, <2>3 DEF OneInstaller, KindOf
    <2>5. SavedOK'
      BY <1>2, <2>1, <2>3, <2>4 DEF SavedOK
    <2>6. QED  BY <1>2, <2>2, <2>5 DEF EditInv, SavingOK, Idle
  <1>6. QED  BY <1>3, <1>4, <1>5

LEMMA EditInvariant == SpecEdit => []EditInv
  <1>1. EditInv /\ [NextEdit]_editVars => EditInv'
    BY PageStepKeeps, EditRawKeeps, LoadKeeps, IconStepKeeps, IconWrittenKeeps, SaveStepKeeps DEF NextEdit
  <1>2. QED  BY <1>1, InitEditInv, PTL DEF SpecEdit

(***************************************************************************)
(* What is saved is made of one installer unless another one was opened    *)
(* while it was saved or while something was read for it, and its plan     *)
(* names its record and has a signature only where neither was touched     *)
(* (buildOutput and load, edit.js; bindPlan, tifile.js).                   *)
(***************************************************************************)
THEOREM SavesAreOneInstaller == SpecEdit => []SavedIsOneInstaller
  <1>1. EditInv => SavedIsOneInstaller
    BY DEF EditInv, SavedOK, SavedIsOneInstaller, PlanNames
  <1>2. QED  BY <1>1, EditInvariant, PTL

(***************************************************************************)
(* Admission. The inductive invariant: what is remembered of an address    *)
(* fits its limit and holds every call that still counts of each caller    *)
(* known by it.                                                            *)
(***************************************************************************)
CallsMade == [n : Nat, at : Nat]

\* The address a caller is known by, whatever it claims.
KnownAs(c) == IF behind /\ ~trust THEN Loopback ELSE c

AdmissionTypes ==
    /\ now \in Nat /\ asked \in Nat
    /\ hits \in [DOMAIN Limits -> [Sources -> SUBSET CallsMade]]
    /\ let \in [DOMAIN Limits -> [Callers -> SUBSET CallsMade]]

\* What is remembered of an address fits its limit, and what still counts of a
\* caller is remembered; of a caller that has an address of its own nothing
\* else is.
FairTo(l) ==
    /\ \A a \in Sources : IsFiniteSet(hits[l][a]) /\ Cardinality(Recent(hits[l][a])) <= Limits[l]
    /\ \A c \in Callers :
          /\ IsFiniteSet(let[l][c])
          /\ Recent(let[l][c]) \subseteq hits[l][KnownAs(c)]
          /\ AsDocumented => Recent(hits[l][c]) \subseteq let[l][c]

AdmissionInv == AdmissionTypes /\ (\A l \in DOMAIN Limits : FairTo(l)) /\ ~unfair

LEMMA KnownAddress ==
    ASSUME NEW c \in Callers, NEW claims \in Claims, Loopback \notin Callers
    PROVE  /\ ClientIP(Peer(c), Forwarded(c, claims)) = KnownAs(c)
           /\ KnownAs(c) \in Sources /\ (AsDocumented => KnownAs(c) = c)
  <1>1. claims = <<>> \/ \E d \in Callers : claims = <<d>>
    BY DEF Claims
  <1>2. claims \in Seq(Callers)
    <2>1. CASE claims = <<>>
      BY <2>1
    <2>2. ASSUME NEW d \in Callers, claims = <<d>> PROVE claims \in Seq(Callers)
      <3>1. <<d>> \in Seq(Callers)
        OBVIOUS
      <3>2. QED  BY <2>2, <3>1
    <2>3. QED  BY <1>1, <2>1, <2>2
  <1>3. Append(claims, c) # <<>> /\ Last(Append(claims, c)) = c
    BY <1>2 DEF Last
  <1>4. QED  BY <1>3 DEF ClientIP, Peer, Forwarded, KnownAs, Sources, AsDocumented

LEMMA SmallerFits ==
    ASSUME NEW S, NEW T, IsFiniteSet(T), S \subseteq T, NEW k \in Nat, Cardinality(T) <= k
    PROVE  IsFiniteSet(S) /\ Cardinality(S) <= k
  BY FS_Subset, FS_CardinalityType

LEMMA AdmissionStarts == InitAdmission => AdmissionInv
  <1> SUFFICES ASSUME InitAdmission PROVE AdmissionInv
    OBVIOUS
  <1>1. AdmissionTypes /\ ~unfair
    BY DEF InitAdmission, AdmissionTypes, Sources
  <1>2. ASSUME NEW l \in DOMAIN Limits PROVE FairTo(l)
    <2>1. \A a \in Sources : hits[l][a] = {}
      BY DEF InitAdmission
    <2>2. \A c \in Callers : let[l][c] = {}
      BY DEF InitAdmission
    <2>3. Recent({}) = {} /\ Limits[l] \in Nat /\ IsFiniteSet({}) /\ Cardinality({}) = 0
      BY AdmissionAssumption, FS_EmptySet DEF Recent
    <2>4. ASSUME NEW a \in Sources PROVE IsFiniteSet(hits[l][a]) /\ Cardinality(Recent(hits[l][a])) <= Limits[l]
      <3>1. hits[l][a] = {}
        BY <2>1
      <3>2. QED  BY <2>3, <3>1
    <2>5. ASSUME NEW c \in Callers
          PROVE  IsFiniteSet(let[l][c]) /\ Recent(let[l][c]) \subseteq hits[l][KnownAs(c)]
                 /\ Recent(hits[l][c]) \subseteq let[l][c]
      <3>1. let[l][c] = {} /\ hits[l][c] = {}
        BY <2>1, <2>2 DEF Sources
      <3>2. QED  BY <2>3, <3>1
    <2>6. QED  BY <2>4, <2>5 DEF FairTo
  <1>3. QED  BY <1>1, <1>2 DEF AdmissionInv

LEMMA TickingKeeps == ASSUME AdmissionInv, Tick PROVE AdmissionInv'
  <1>1. now' = now + 1 /\ UNCHANGED <<trust, behind, asked, hits, let, unfair>> /\ now \in Nat
    BY DEF Tick, AdmissionInv, AdmissionTypes
  <1>2. \A S \in SUBSET CallsMade : {c \in S : now' - c.at < Window} \subseteq Recent(S)
    BY <1>1, AdmissionAssumption DEF Recent, CallsMade
  <1>3. ASSUME NEW l \in DOMAIN Limits PROVE FairTo(l)'
    <2>1. FairTo(l) /\ Limits[l] \in Nat
      BY AdmissionAssumption DEF AdmissionInv
    <2>2. ASSUME NEW a \in Sources
          PROVE  (IsFiniteSet(hits[l][a]) /\ Cardinality(Recent(hits[l][a])) <= Limits[l])'
      <3>1. hits[l][a] \in SUBSET CallsMade
        BY DEF AdmissionInv, AdmissionTypes
      <3>2. IsFiniteSet(Recent(hits[l][a]))
        BY <2>1, FS_Subset DEF FairTo, Recent
      <3>3. Recent(hits[l][a])' \subseteq Recent(hits[l][a])
        BY <1>1, <1>2, <3>1 DEF Recent
      <3>4. Cardinality(Recent(hits[l][a]))' <= Limits[l]
        BY <2>1, <3>2, <3>3, SmallerFits DEF FairTo
      <3>5. QED  BY <1>1, <2>1, <3>4 DEF FairTo
    <2>3. ASSUME NEW c \in Callers
          PROVE  (/\ IsFiniteSet(let[l][c])
                  /\ Recent(let[l][c]) \subseteq hits[l][KnownAs(c)]
                  /\ AsDocumented => Recent(hits[l][c]) \subseteq let[l][c])'
      <3>1. hits[l][c] \in SUBSET CallsMade /\ let[l][c] \in SUBSET CallsMade
        BY DEF AdmissionInv, AdmissionTypes, Sources
      <3>2. Recent(hits[l][c])' \subseteq Recent(hits[l][c]) /\ Recent(let[l][c])' \subseteq Recent(let[l][c])
        BY <1>1, <1>2, <3>1 DEF Recent
      <3>3. KnownAs(c)' = KnownAs(c) /\ AsDocumented' = AsDocumented
        BY <1>1 DEF KnownAs, AsDocumented
      <3>4. QED  BY <1>1, <2>1, <3>2, <3>3 DEF FairTo
    <2>4. QED  BY <2>2, <2>3 DEF FairTo
  <1>4. AdmissionTypes'
    BY <1>1 DEF AdmissionInv, AdmissionTypes
  <1>5. QED  BY <1>1, <1>3, <1>4 DEF AdmissionInv

\* What a limiter remembers after a call.
LEMMA Allowed ==
    ASSUME AdmissionInv, NEW l \in DOMAIN Limits, NEW ip \in Sources
    PROVE  LET v == Allow(l, ip)
               keep == Recent(hits[l][ip])
           IN  /\ v.ok <=> Cardinality(keep) < Limits[l]
               /\ v.hits \in [Sources -> SUBSET CallsMade]
               /\ v.hits[ip] \subseteq keep \cup (IF v.ok THEN {ThisCall} ELSE {})
               /\ v.ok => ThisCall \in v.hits[ip]
               /\ \A a \in Sources \ {ip} : v.hits[a] \subseteq hits[l][a]
               /\ \A a \in Sources : Recent(hits[l][a]) \subseteq v.hits[a]
  <1> DEFINE keep == Recent(hits[l][ip])
             ok == Cardinality(keep) < Limits[l]
             held == [hits[l] EXCEPT ![ip] = IF ok THEN keep \cup {ThisCall} ELSE keep]
             kept == [a \in Sources |-> IF Quiet(held[a]) THEN {} ELSE held[a]]
             v == Allow(l, ip)
  <1>1. (v.ok <=> ok) /\ (v.hits = held \/ v.hits = kept)
    BY DEF Allow
  <1>2. /\ ThisCall \in CallsMade /\ ThisCall \in Recent({ThisCall})
        /\ hits[l] \in [Sources -> SUBSET CallsMade] /\ keep \subseteq CallsMade
        /\ \A S, T : S \subseteq T => Recent(S) \subseteq Recent(T)
        /\ \A S : Recent(Recent(S)) = Recent(S) /\ Recent(S) \subseteq S
    BY AdmissionAssumption DEF AdmissionInv, AdmissionTypes, ThisCall, CallsMade, Recent
  <1>3. PICK yes \in BOOLEAN : yes <=> ok
    <2>1. \/ ok <=> TRUE
          \/ ok <=> FALSE
      OBVIOUS
    <2>2. QED  BY <2>1
  <1> HIDE DEF ok
  <1>4. /\ held \in [Sources -> SUBSET CallsMade]
        /\ held[ip] = keep \cup (IF yes THEN {ThisCall} ELSE {})
        /\ \A a \in Sources \ {ip} : held[a] = hits[l][a]
    BY <1>2, <1>3
  <1> HIDE DEF keep, held
  <1>5. \A a \in Sources : Recent(hits[l][a]) \subseteq held[a]
    BY <1>2, <1>4 DEF keep
  <1>6. \A a \in Sources : Recent(held[a]) \subseteq kept[a]
    <2> SUFFICES ASSUME NEW a \in Sources PROVE Recent(held[a]) \subseteq kept[a]
      OBVIOUS
    <2>1. CASE Quiet(held[a])
      <3>1. held[a] \in SUBSET CallsMade /\ now \in Nat
        BY <1>4 DEF AdmissionInv, AdmissionTypes
      <3>2. Recent(held[a]) = {}
        BY <2>1, <3>1, AdmissionAssumption DEF Quiet, Recent, CallsMade
      <3>3. QED  BY <3>2
    <2>2. CASE ~Quiet(held[a])
      BY <1>2, <2>2
    <2>3. QED  BY <2>1, <2>2
  <1>7. kept \in [Sources -> SUBSET CallsMade] /\ \A a \in Sources : kept[a] \subseteq held[a]
    BY <1>4
  <1> HIDE DEF kept
  <1>8. \A a \in Sources : Recent(hits[l][a]) \subseteq kept[a]
    <2> SUFFICES ASSUME NEW a \in Sources PROVE Recent(hits[l][a]) \subseteq kept[a]
      OBVIOUS
    <2>1. Recent(Recent(hits[l][a])) \subseteq Recent(held[a])
      BY <1>2, <1>5
    <2>2. QED  BY <1>2, <1>6, <2>1
  <1>9. yes => ThisCall \in held[ip] /\ ThisCall \in kept[ip]
    <2>1. yes => ThisCall \in held[ip]
      BY <1>4
    <2>2. yes => ThisCall \in Recent(held[ip])
      BY <1>2, <2>1
    <2>3. QED  BY <1>6, <2>1, <2>2
  <1> HIDE DEF v
  <1>10. v.ok <=> yes
    BY <1>1, <1>3
  <1>11. v.hits \in [Sources -> SUBSET CallsMade] /\ (yes => ThisCall \in v.hits[ip])
    BY <1>1, <1>4, <1>7, <1>9
  <1>12. v.hits[ip] \subseteq keep \cup (IF yes THEN {ThisCall} ELSE {})
    BY <1>1, <1>4, <1>7
  <1>13. \A a \in Sources \ {ip} : v.hits[a] \subseteq hits[l][a]
    BY <1>1, <1>4, <1>7
  <1>14. \A a \in Sources : Recent(hits[l][a]) \subseteq v.hits[a]
    BY <1>1, <1>5, <1>8
  <1>15. QED  BY <1>3, <1>10, <1>11, <1>12, <1>13, <1>14 DEF v, keep, ok

LEMMA ArrivingKeeps ==
    ASSUME AdmissionInv, NEW route \in Routes, NEW from \in Callers, NEW claims \in Claims,
           Arrive(route, from, claims)
    PROVE  AdmissionInv'
  <1> DEFINE l == LimiterOf[route]
  <1>0. PICK ip : ip = KnownAs(from)
    OBVIOUS
  <1>1. /\ l \in DOMAIN Limits /\ ip \in Sources /\ (AsDocumented => ip = from)
        /\ ClientIP(Peer(from), Forwarded(from, claims)) = ip
    BY <1>0, AdmissionAssumption, KnownAddress
  <1> HIDE DEF l
  <1>2. PICK k : k = ThisCall
    OBVIOUS
  <1>3. PICK keep : keep = Recent(hits[l][ip])
    OBVIOUS
  <1>4. PICK yes \in BOOLEAN : yes <=> Cardinality(keep) < Limits[l]
    <2>1. \/ Cardinality(keep) < Limits[l] <=> TRUE
          \/ Cardinality(keep) < Limits[l] <=> FALSE
      OBVIOUS
    <2>2. QED  BY <2>1
  <1>5. PICK h : h = Allow(l, ip).hits
    OBVIOUS
  <1>6. /\ Allow(l, ip).ok <=> yes
        /\ h \in [Sources -> SUBSET CallsMade]
        /\ h[ip] \subseteq keep \cup (IF yes THEN {k} ELSE {})
        /\ yes => k \in h[ip]
        /\ \A a \in Sources \ {ip} : h[a] \subseteq hits[l][a]
        /\ \A a \in Sources : Recent(hits[l][a]) \subseteq h[a]
    BY <1>1, <1>2, <1>3, <1>4, <1>5, Allowed
  <1>7. /\ asked' = asked + 1 /\ UNCHANGED <<trust, behind, now>>
        /\ hits' = [hits EXCEPT ![l] = h]
        /\ yes => let' = [let EXCEPT ![l][from] = @ \cup {k}] /\ UNCHANGED unfair
        /\ ~yes => /\ unfair' = (unfair \/ (AsDocumented /\ Within(let[l][from]) < Limits[l]))
                   /\ UNCHANGED let
    BY <1>1, <1>2, <1>5, <1>6 DEF Arrive, l
  <1>8. /\ now \in Nat /\ asked \in Nat /\ k \in CallsMade /\ Limits[l] \in Nat
        /\ hits \in [DOMAIN Limits -> [Sources -> SUBSET CallsMade]]
        /\ let \in [DOMAIN Limits -> [Callers -> SUBSET CallsMade]]
    BY <1>1, <1>2, AdmissionAssumption DEF AdmissionInv, AdmissionTypes, ThisCall, CallsMade
  <1>9. /\ hits'[l] = h /\ \A m \in DOMAIN Limits \ {l} : hits'[m] = hits[m] /\ let'[m] = let[m]
        /\ let'[l][from] \subseteq let[l][from] \cup {k}
        /\ let[l][from] \subseteq let'[l][from] /\ (yes => k \in let'[l][from])
        /\ ~yes => let'[l][from] = let[l][from]
        /\ \A c \in Callers \ {from} : let'[l][c] = let[l][c]
    BY <1>1, <1>7, <1>8
  <1>10. AdmissionTypes'
    <2>1. hits' \in [DOMAIN Limits -> [Sources -> SUBSET CallsMade]]
      BY <1>1, <1>6, <1>7, <1>8
    <2>2. let' \in [DOMAIN Limits -> [Callers -> SUBSET CallsMade]]
      <3>1. CASE yes
        <4>1. PICK g : g = [let[l] EXCEPT ![from] = @ \cup {k}]
          OBVIOUS
        <4>2. g \in [Callers -> SUBSET CallsMade] /\ let' = [let EXCEPT ![l] = g]
          BY <1>1, <1>7, <1>8, <3>1, <4>1
        <4>3. QED  BY <1>1, <1>8, <4>2
      <3>2. CASE ~yes
        BY <1>7, <1>8, <3>2
      <3>3. QED  BY <3>1, <3>2
    <2>3. QED  BY <1>7, <1>8, <2>1, <2>2 DEF AdmissionTypes
  <1>11. /\ \A S : Recent(S)' = Recent(S)
         /\ \A S, T : S \subseteq T => Recent(S) \subseteq Recent(T)
         /\ \A S : Recent(S) \subseteq S /\ Recent(Recent(S)) = Recent(S)
         /\ \A S : Recent(S \cup {k}) \subseteq Recent(S) \cup {k}
         /\ \A c : KnownAs(c)' = KnownAs(c)
         /\ AsDocumented' = AsDocumented
    BY <1>7 DEF Recent, KnownAs, AsDocumented
  <1>12. FairTo(l)
    BY <1>1 DEF AdmissionInv
  <1>13. ASSUME NEW a \in Sources
         PROVE  IsFiniteSet(h[a]) /\ Cardinality(Recent(h[a])) <= Limits[l]
    <2>1. IsFiniteSet(hits[l][a]) /\ IsFiniteSet(Recent(hits[l][a])) /\ Cardinality(Recent(hits[l][a])) <= Limits[l]
      BY <1>11, <1>12, FS_Subset DEF FairTo
    <2>2. CASE a # ip
      <3>1. h[a] \subseteq hits[l][a] /\ Recent(h[a]) \subseteq Recent(hits[l][a])
        BY <1>6, <1>11, <2>2
      <3>2. IsFiniteSet(h[a])
        BY <2>1, <3>1, FS_Subset
      <3>3. QED  BY <1>8, <2>1, <3>1, <3>2, SmallerFits
    <2>3. CASE a = ip /\ ~yes
      <3>1. h[a] \subseteq keep /\ keep \subseteq hits[l][a] /\ Recent(keep) = keep
        BY <1>3, <1>6, <1>11, <2>3
      <3>2. IsFiniteSet(h[a]) /\ Recent(h[a]) \subseteq Recent(hits[l][a])
        BY <1>11, <2>1, <3>1, FS_Subset
      <3>3. QED  BY <1>8, <2>1, <3>2, SmallerFits
    <2>4. CASE a = ip /\ yes
      <3>1. keep = Recent(hits[l][a]) /\ IsFiniteSet(keep) /\ Cardinality(keep) < Limits[l]
        BY <1>3, <1>4, <2>1, <2>4
      <3>2. /\ IsFiniteSet(keep \cup {k}) /\ Cardinality(keep) \in Nat
            /\ Cardinality(keep \cup {k}) <= Cardinality(keep) + 1
        <4>1. Cardinality(keep) \in Nat
          BY <3>1, FS_CardinalityType
        <4>2. /\ IsFiniteSet(keep \cup {k})
              /\ Cardinality(keep \cup {k}) = IF k \in keep THEN Cardinality(keep) ELSE Cardinality(keep) + 1
          BY <3>1, FS_AddElement
        <4>3. QED  BY <4>1, <4>2
      <3>3. Cardinality(keep \cup {k}) <= Limits[l]
        <4>1. Cardinality(keep \cup {k}) \in Nat
          BY <3>2, FS_CardinalityType
        <4>2. QED  BY <1>8, <3>1, <3>2, <4>1
      <3>4. h[a] \subseteq keep \cup {k} /\ Recent(h[a]) \subseteq keep \cup {k}
        BY <1>6, <1>11, <2>4
      <3>5. QED  BY <1>8, <3>2, <3>3, <3>4, SmallerFits
    <2>5. QED  BY <2>2, <2>3, <2>4
  <1>14. ASSUME NEW c \in Callers
         PROVE  /\ IsFiniteSet(let'[l][c]) /\ Recent(let'[l][c]) \subseteq h[KnownAs(c)]
                /\ AsDocumented => Recent(h[c]) \subseteq let'[l][c]
    <2>0. KnownAs(c) \in Sources /\ c \in Sources /\ (AsDocumented => KnownAs(c) = c)
      BY DEF KnownAs, Sources, AsDocumented
    <2>1. /\ IsFiniteSet(let[l][c]) /\ Recent(let[l][c]) \subseteq hits[l][KnownAs(c)]
          /\ AsDocumented => Recent(hits[l][c]) \subseteq let[l][c]
      BY <1>12 DEF FairTo
    <2>2. Recent(let[l][c]) \subseteq h[KnownAs(c)]
      BY <1>6, <1>11, <2>0, <2>1
    <2>3. CASE c # from
      <3>1. let'[l][c] = let[l][c]
        BY <1>9, <2>3
      <3>2. AsDocumented => Recent(h[c]) \subseteq let[l][c]
        <4>1. AsDocumented => c # ip
          BY <1>1, <2>3
        <4>2. AsDocumented => Recent(h[c]) \subseteq Recent(hits[l][c])
          BY <1>6, <1>11, <2>0, <4>1
        <4>3. QED  BY <2>1, <4>2
      <3>3. QED  BY <2>1, <2>2, <3>1, <3>2
    <2>4. CASE c = from
      <3>1. IsFiniteSet(let'[l][c])
        <4>1. IsFiniteSet(let[l][c] \cup {k})
          BY <2>1, FS_AddElement
        <4>2. QED  BY <1>9, <2>4, <4>1, FS_Subset
      <3>2. Recent(let'[l][c]) \subseteq h[KnownAs(c)]
        <4>1. CASE yes
          <5>1. Recent(let'[l][c]) \subseteq Recent(let[l][c]) \cup {k} /\ k \in h[KnownAs(c)]
            BY <1>0, <1>6, <1>9, <1>11, <2>4, <4>1
          <5>2. QED  BY <2>2, <5>1
        <4>2. CASE ~yes
          BY <1>9, <2>2, <2>4, <4>2
        <4>3. QED  BY <4>1, <4>2
      <3>3. AsDocumented => Recent(h[c]) \subseteq let'[l][c]
        <4>1. AsDocumented => ip = c /\ keep = Recent(hits[l][c])
          BY <1>1, <1>3, <2>4
        <4>2. AsDocumented => h[c] \subseteq let'[l][c]
          BY <1>6, <1>9, <2>1, <2>4, <4>1
        <4>3. QED  BY <1>11, <4>2
      <3>4. QED  BY <3>1, <3>2, <3>3
    <2>5. QED  BY <2>3, <2>4
  <1>15. FairTo(l)'
    <2>1. /\ \A a \in Sources : IsFiniteSet(hits'[l][a]) /\ Cardinality(Recent(hits'[l][a])) <= Limits[l]
          /\ \A c \in Callers :
                /\ IsFiniteSet(let'[l][c])
                /\ Recent(let'[l][c]) \subseteq hits'[l][KnownAs(c)]
                /\ AsDocumented => Recent(hits'[l][c]) \subseteq let'[l][c]
      BY <1>9, <1>13, <1>14
    <2>2. QED  BY <1>7, <2>1 DEF FairTo, Recent, KnownAs, AsDocumented
  <1>16. ASSUME NEW m \in DOMAIN Limits \ {l} PROVE FairTo(m)'
    <2>1. FairTo(m) /\ hits'[m] = hits[m] /\ let'[m] = let[m]
      BY <1>9 DEF AdmissionInv
    <2>2. QED  BY <1>7, <2>1 DEF FairTo, Recent, KnownAs, AsDocumented
  <1>17. ~unfair'
    <2>1. CASE yes
      BY <1>7, <2>1 DEF AdmissionInv
    <2>2. CASE ~yes /\ AsDocumented
      <3>1. ip = from /\ keep = Recent(hits[l][from])
        BY <1>1, <1>3, <2>2
      <3>2. keep \subseteq Recent(let[l][from])
        <4>1. Recent(hits[l][from]) \subseteq let[l][from]
          BY <1>12, <2>2 DEF FairTo
        <4>2. QED  BY <1>11, <3>1, <4>1
      <3>3. IsFiniteSet(Recent(let[l][from]))
        BY <1>11, <1>12, FS_Subset DEF FairTo
      <3>4. IsFiniteSet(keep) /\ Cardinality(keep) <= Cardinality(Recent(let[l][from]))
        BY <3>2, <3>3, FS_Subset
      <3>5. ~(Within(let[l][from]) < Limits[l])
        <4>1. Cardinality(Recent(let[l][from])) \in Nat /\ Cardinality(keep) \in Nat
          BY <3>3, <3>4, FS_CardinalityType
        <4>2. ~(Cardinality(keep) < Limits[l])
          BY <1>4, <2>2
        <4>3. QED  BY <1>8, <3>4, <4>1, <4>2 DEF Within
      <3>6. QED  BY <1>7, <2>2, <3>5 DEF AdmissionInv
    <2>3. CASE ~yes /\ ~AsDocumented
      BY <1>7, <2>3 DEF AdmissionInv
    <2>4. QED  BY <2>1, <2>2, <2>3
  <1>18. QED  BY <1>10, <1>15, <1>16, <1>17 DEF AdmissionInv

LEMMA AdmissionInvariant == SpecAdmission => []AdmissionInv
  <1>1. ASSUME AdmissionInv, UNCHANGED admissionVars PROVE AdmissionInv'
    <2>1. UNCHANGED <<trust, behind, now, asked, hits, let, unfair>>
      BY <1>1 DEF admissionVars
    <2>2. ASSUME NEW l \in DOMAIN Limits PROVE FairTo(l)'
      <3>1. FairTo(l)
        BY <1>1 DEF AdmissionInv
      <3>2. QED  BY <2>1, <3>1 DEF FairTo, Recent, KnownAs, AsDocumented
    <2>3. AdmissionTypes'
      BY <1>1, <2>1 DEF AdmissionInv, AdmissionTypes
    <2>4. QED  BY <1>1, <2>1, <2>2, <2>3 DEF AdmissionInv
  <1>2. AdmissionInv /\ [NextAdmission]_admissionVars => AdmissionInv'
    BY <1>1, ArrivingKeeps, TickingKeeps DEF NextAdmission
  <1>3. QED  BY <1>2, AdmissionStarts, PTL DEF SpecAdmission

(***************************************************************************)
(* For every number of callers, routes and limits: nobody gets more        *)
(* through in a window than the limit, whatever the header claims, and a   *)
(* server told of its proxy refuses nobody for the calls of others         *)
(* (limiter.js allow, clientIP).                                           *)
(***************************************************************************)
THEOREM LimitsArePerCaller == SpecAdmission => []LimitIsPerCaller
  <1>1. AdmissionInv => LimitIsPerCaller
    <2> SUFFICES ASSUME AdmissionInv, NEW l \in DOMAIN Limits, NEW c \in Callers
                 PROVE  Within(let[l][c]) <= Limits[l]
      BY DEF LimitIsPerCaller, AdmissionInv
    <2> DEFINE a == KnownAs(c)
    <2>1. a \in Sources /\ Limits[l] \in Nat
      BY AdmissionAssumption DEF KnownAs, Sources
    <2>2. FairTo(l)
      BY DEF AdmissionInv
    <2>3. IsFiniteSet(Recent(hits[l][a])) /\ Cardinality(Recent(hits[l][a])) <= Limits[l]
      BY <2>1, <2>2, FS_Subset DEF FairTo, Recent
    <2>4. Recent(let[l][c]) \subseteq Recent(hits[l][a])
      BY <2>2 DEF FairTo, Recent
    <2>5. QED  BY <2>1, <2>3, <2>4, SmallerFits DEF Within
  <1>2. QED  BY <1>1, AdmissionInvariant, PTL

(***************************************************************************)
(* Outgoing. The inductive invariant: the credential is kept only on the   *)
(* way to its own origin, and what is sent is sent outside.                *)
(***************************************************************************)
\* A credential is kept on the way to the origin it was given for.
CredentialKept ==
    fetch.pc # "none" =>
        /\ DOMAIN fetch = {"pc", "route", "first", "link", "auth", "body", "hop"}
        /\ fetch.auth => fetch.route = "sign" /\ Web[fetch.link].origin = Web[fetch.first].origin

SentOutside ==
    /\ wire.pc = "sent" => wire.to \notin Inside
    /\ wire.pc = "sent" /\ fetch.pc = "sent" /\ wire.auth => fetch.auth

OutgoingInv == CredentialKept /\ SentOutside

LEMMA LocalIsNotPublic ==
    ASSUME NEW a \in Seq(0..255), IsLocal(a) PROVE ~IsPublic(a)
  <1>1. ASSUME NEW b, NEW p \in Local4, BeginsWith(b, p) PROVE ~IsPublic4(b)
    <2>1. ASSUME NEW x \in {0, 10, 127}, p = <<x>> PROVE ~IsPublic4(b)
      <3>1. 1 \in DOMAIN p /\ p[1] = x
        BY <2>1
      <3>2. b[1] = x
        BY <1>1, <3>1 DEF BeginsWith
      <3>3. QED  BY <3>2 DEF IsPublic4
    <2>2. ASSUME NEW x, NEW y, p = <<x, y>>
          PROVE  b[1] = x /\ b[2] = y
      <3>1. {1, 2} \subseteq DOMAIN p /\ p[1] = x /\ p[2] = y
        BY <2>2
      <3>2. QED  BY <1>1, <3>1 DEF BeginsWith
    <2>3. CASE p \in {<<169, 254>>, <<192, 168>>}
      <3>1. (b[1] = 169 /\ b[2] = 254) \/ (b[1] = 192 /\ b[2] = 168)
        BY <2>2, <2>3
      <3>2. QED  BY <3>1 DEF IsPublic4
    <2>4. CASE p \in {<<172, x>> : x \in 16..31} \cup {<<100, x>> : x \in 64..127}
      <3>1. (b[1] = 172 /\ b[2] \in 16..31) \/ (b[1] = 100 /\ b[2] \in 64..127)
        <4>1. ASSUME NEW x \in 16..31, p = <<172, x>> PROVE b[1] = 172 /\ b[2] \in 16..31
          BY <2>2, <4>1
        <4>2. ASSUME NEW x \in 64..127, p = <<100, x>> PROVE b[1] = 100 /\ b[2] \in 64..127
          BY <2>2, <4>2, ZenonT(60)
        <4>3. QED  BY <2>4, <4>1, <4>2
      <3>2. QED  BY <3>1 DEF IsPublic4
    <2>5. QED  BY <2>1, <2>2, <2>3, <2>4 DEF Local4
  <1>2. CASE Len(a) = 4 /\ \E p \in Local4 : BeginsWith(a, p)
    BY <1>1, <1>2 DEF IsPublic
  <1>3. CASE Len(a) = 16 /\ Mapped(a) /\ \E p \in Local4 : BeginsWith(Unmapped(a), p)
    BY <1>1, <1>3 DEF IsPublic
  <1>4. CASE Len(a) = 16 /\ \E p \in Local6 : BeginsWith(a, p)
    <2>1. PICK p \in Local6 : BeginsWith(a, p)
      BY <1>4
    <2>2. CASE p = [i \in 1..16 |-> 0]
      <3>1. \A i \in 1..16 : a[i] = 0
        BY <2>1, <2>2 DEF BeginsWith
      <3>2. ~Mapped(a) /\ ~IsPublic6(a)
        BY <3>1 DEF Mapped, IsPublic6
      <3>3. QED  BY <1>4, <3>2 DEF IsPublic
    <2>3. CASE p = [i \in 1..16 |-> IF i = 16 THEN 1 ELSE 0]
      <3>1. \A i \in 1..16 : a[i] = IF i = 16 THEN 1 ELSE 0
        BY <2>1, <2>3 DEF BeginsWith
      <3>2. ~Mapped(a) /\ ~IsPublic6(a)
        BY <3>1 DEF Mapped, IsPublic6
      <3>3. QED  BY <1>4, <3>2 DEF IsPublic
    <2>4. CASE p \in {<<252>>, <<253>>} \cup {<<254, x>> : x \in 128..191}
      <3>1. a[1] \in {252, 253} \/ (a[1] = 254 /\ a[2] \in 128..191)
        BY <2>1, <2>4 DEF BeginsWith
      <3>2. ~Mapped(a) /\ ~IsPublic6(a)
        BY <3>1 DEF Mapped, IsPublic6
      <3>3. QED  BY <1>4, <3>2 DEF IsPublic
    <2>5. QED  BY <2>1, <2>2, <2>3, <2>4 DEF Local6
  <1>5. QED  BY <1>2, <1>3, <1>4 DEF IsLocal

LEMMA OutgoingStarts == InitOutgoing => OutgoingInv
  BY DEF InitOutgoing, OutgoingInv, CredentialKept, SentOutside, NoFetch, Unsent

LEMMA OutgoingKeeps == ASSUME OutgoingInv, [NextOutgoing]_outgoingVars PROVE OutgoingInv'
  <1>1. ASSUME NEW route, NEW link, NEW auth \in BOOLEAN, NEW body, Fetch(route, link, auth, body), auth => route = "sign"
        PROVE  OutgoingInv'
    BY <1>1 DEF Fetch, OutgoingInv, CredentialKept, SentOutside
  <1>2. ASSUME NEW to, NEW keeps, Redirected(to, keeps) PROVE OutgoingInv'
    <2>1. PICK b \in BOOLEAN : b <=> AcrossRedirect(fetch.auth, fetch.link, to)
      BY DEF AcrossRedirect
    <2>2. DOMAIN fetch = {"pc", "route", "first", "link", "auth", "body", "hop"} /\ fetch.pc = "sent"
      BY <1>2 DEF Redirected, OutgoingInv, CredentialKept
    <2>3. /\ DOMAIN fetch' = DOMAIN fetch /\ fetch'.pc = "dial" /\ fetch'.link = to
          /\ fetch'.route = fetch.route /\ fetch'.first = fetch.first /\ (fetch'.auth <=> b)
          /\ UNCHANGED wire
      BY <1>2, <2>1, <2>2 DEF Redirected
    <2>4. b => fetch.auth /\ Web[to].origin = Web[fetch.link].origin
      BY <2>1 DEF AcrossRedirect
    <2>5. QED  BY <2>2, <2>3, <2>4 DEF OutgoingInv, CredentialKept, SentOutside
  <1>3. CASE Dial
    <2>1. PICK answer \in Web[fetch.link].answers : \E i \in SafeLookup(answer) :
             wire' = [pc |-> "sent", to |-> answer[i], auth |-> fetch.auth, body |-> fetch.body]
      BY <1>3 DEF Dial
    <2>2. PICK i \in SafeLookup(answer) :
             wire' = [pc |-> "sent", to |-> answer[i], auth |-> fetch.auth, body |-> fetch.body]
      BY <2>1
    <2>3. wire'.to \notin Inside
      BY <2>2, LocalIsNotPublic, OutgoingAssumption DEF SafeLookup
    <2>4. /\ fetch.pc = "dial" /\ fetch' = [fetch EXCEPT !.pc = "sent"]
          /\ DOMAIN fetch = {"pc", "route", "first", "link", "auth", "body", "hop"}
      BY <1>3 DEF Dial, OutgoingInv, CredentialKept
    <2>5. /\ DOMAIN fetch' = DOMAIN fetch /\ fetch'.pc = "sent" /\ fetch'.link = fetch.link
          /\ fetch'.route = fetch.route /\ fetch'.first = fetch.first /\ fetch'.auth = fetch.auth
      BY <2>4
    <2>6. wire'.pc = "sent" /\ wire'.auth = fetch.auth
      BY <2>2
    <2>7. QED  BY <2>3, <2>4, <2>5, <2>6 DEF OutgoingInv, CredentialKept, SentOutside
  <1>4. CASE Replied \/ Breaks
    BY <1>4 DEF Replied, Breaks, EndFetch, NoFetch, Unsent, OutgoingInv, CredentialKept, SentOutside
  <1>5. CASE UNCHANGED outgoingVars
    BY <1>5 DEF outgoingVars, OutgoingInv, CredentialKept, SentOutside
  <1>6. QED
    BY <1>1, <1>2, <1>3, <1>4, <1>5 DEF NextOutgoing, AskFile, AskStamp, AskSign

(***************************************************************************)
(* Wherever names resolve to and redirects lead, no connection is made to  *)
(* this machine or its network, and a credential stays with the origin it  *)
(* was meant for (netsafe.js safeFetch, acrossRedirect, checkRelay).       *)
(***************************************************************************)
THEOREM NothingReachesInside == SpecOutgoing => []OutgoingStays
  <1>1. OutgoingInv => OutgoingStays
    BY DEF OutgoingInv, CredentialKept, SentOutside, OutgoingStays
  <1>2. QED  BY <1>1, OutgoingStarts, OutgoingKeeps, PTL DEF SpecOutgoing
===============================================================================
