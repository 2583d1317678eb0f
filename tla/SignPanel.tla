------------------------------ MODULE SignPanel ------------------------------
(***************************************************************************)
(* The sign panel of the edit page (sign-ui.js) and the calls a signing    *)
(* service is asked for (sign-services.js). What a user types for a        *)
(* service is held for one signing: in an object read from the fields, and *)
(* in one variable that every signing of the page shares.                  *)
(*                                                                         *)
(* The installer on the page is known by its opening, a signing by the     *)
(* click that began it, an object of credentials by the signing that read  *)
(* it. A built installer is that of the page when its build ends.          *)
(***************************************************************************)
EXTENDS Integers, Sequences, FiniteSets

CONSTANTS
    Services,    \* by name: [where, calls (for each call, does it read credentials?)]
    PanelKinds,  \* the kinds of the installers opened, one after the other
    MaxSignings, \* bound: how many signings are begun
    MaxTurns     \* bound: how often the user turns to something else

VARIABLES
    opened,   \* which installer is on the page
    choice,   \* what to sign with: "pfx", "remote" or "service"
    service,  \* the service chosen
    online,   \* a server is there: for timestamps and relayed services
    keys,     \* which keys are open
    blank,    \* the signings whose object of credentials is blanked
    creds,    \* the variable all share: the signing whose object it is, or 0
    signings, \* the signings begun
    waiting,  \* for a pasted signature: "remote" and "paste" -> [of, by] or Nobody
    release,  \* what was downloaded last
    turns     \* how much of MaxTurns is spent

panelVars == <<opened, choice, service, online, keys, blank, creds, signings, waiting, release, turns>>

Nobody == [by |-> 0]
Offered(on) == {s \in DOMAIN Services : on \/ Services[s].where # "server"}
Kind == IF opened = 0 THEN "none" ELSE PanelKinds[opened]
AtWork(j) == signings[j].pc # "ended"

InitPanel ==
    /\ opened = 0 /\ choice = "pfx" /\ online \in BOOLEAN
    /\ service \in Offered(online)
    /\ keys = {} /\ blank = {} /\ creds = 0 /\ signings = <<>>
    /\ waiting = [w \in {"remote", "paste"} |-> Nobody]
    /\ release = Nobody /\ turns = 0

(***************************************************************************)
(* Letting go                                                              *)
(***************************************************************************)
\* forgetCreds blanks the object in place, for whoever still reads from it,
\* and with it the fields of the page.
Forget == blank' = blank \cup ({creds} \ {0}) /\ creds' = 0

\* Whatever is at work has had the page changed under it.
Disturbed == [j \in DOMAIN signings |-> IF AtWork(j) THEN [signings[j] EXCEPT !.disturbed = TRUE] ELSE signings[j]]

\* Mutant: what waits for a signature stays when the panel is turned to something else.
CancelledKept == waiting
Cancelled == [w \in DOMAIN waiting |-> Nobody]

Turn == turns < MaxTurns /\ turns' = turns + 1

\* Another installer is opened.
Open ==
    /\ opened < Len(PanelKinds) /\ opened' = opened + 1
    /\ Forget /\ waiting' = Cancelled /\ signings' = Disturbed
    /\ UNCHANGED <<choice, service, online, keys, release, turns>>

ChooseSource(s) ==
    /\ Turn /\ s # choice /\ choice' = s
    /\ Forget /\ waiting' = Cancelled /\ signings' = Disturbed
    /\ UNCHANGED <<opened, service, online, keys, release>>

\* The service's fields are made anew.
ChooseService(s) ==
    /\ Turn /\ s # service /\ s \in Offered(online) /\ service' = s
    /\ Forget /\ waiting' = [waiting EXCEPT !["paste"] = Nobody] /\ signings' = Disturbed
    /\ UNCHANGED <<opened, choice, online, keys, release>>

\* The page finds or loses its server.
ServerChanged ==
    /\ Turn /\ online' = ~online
    /\ service' \in IF service \in Offered(online') THEN {service} ELSE Offered(online')
    /\ Forget /\ waiting' = [waiting EXCEPT !["paste"] = Nobody] /\ signings' = Disturbed
    /\ UNCHANGED <<opened, choice, keys, release>>

Hide ==
    /\ Turn /\ keys' = {} /\ waiting' = [w \in DOMAIN waiting |-> Nobody]
    /\ Forget /\ signings' = Disturbed
    /\ UNCHANGED <<opened, choice, service, online, release>>

\* Opening a key may fail, and then there is none; and it may be let go.
OpenKey(k) ==
    /\ Turn /\ keys' \in {keys \cup {k}, keys \ {k}}
    /\ UNCHANGED <<opened, choice, service, online, blank, creds, signings, waiting, release>>

(***************************************************************************)
(* A signing                                                               *)
(***************************************************************************)
Means == CASE Kind = "exe" /\ choice = "service" -> IF Services[service].where = "paste" THEN "paste" ELSE "service"
           [] Kind = "exe" /\ choice # "service" -> choice
           [] Kind = "run" -> "pgp"
           [] OTHER -> "none"

Click ==
    LET j == Len(signings) + 1
    IN  /\ j <= MaxSignings /\ Means # "none"
        /\ Means \in {"pfx", "pgp"} => Means \in keys
        /\ signings' = Append(Disturbed,
              [by |-> j, means |-> Means, service |-> service, of |-> 0, call |-> 0, obj |-> 0, misread |-> FALSE,
               pc |-> IF Means \in {"remote", "paste"} THEN "certs" ELSE "build",
               disturbed |-> \E i \in DOMAIN signings : AtWork(i), failed |-> FALSE])
        /\ creds' = IF Means = "service" THEN j ELSE creds
        /\ UNCHANGED <<opened, choice, service, online, keys, blank, waiting, release, turns>>

Goes(j, r) == signings' = [signings EXCEPT ![j] = r]
Ends(j, failed) ==
    [signings[j] EXCEPT !.pc = "ended", !.failed = failed, !.service = "", !.of = 0, !.call = 0, !.obj = 0]

\* Mutant: a signing that fails keeps its credentials.
EndedKeeps(j, failed) ==
    /\ signings' = [i \in DOMAIN signings |-> IF i = j THEN Ends(j, failed) ELSE Disturbed[i]]
    /\ IF signings[j].means = "service" /\ ~failed THEN Forget ELSE UNCHANGED <<blank, creds>>

\* A signing with a service drops the credentials however it ends, and with
\* them those of another one at work.
Ended(j, failed) ==
    /\ signings' = [i \in DOMAIN signings |->
                      IF i = j THEN Ends(j, failed)
                      ELSE IF signings[j].means = "service" THEN Disturbed[i] ELSE signings[i]]
    /\ IF signings[j].means = "service" THEN Forget ELSE UNCHANGED <<blank, creds>>

Same == UNCHANGED <<opened, choice, service, online, keys, turns>>

\* The certificates were read first; only then are the fields.
CertsRead(j) ==
    /\ signings[j].pc = "certs"
    /\ Goes(j, [signings[j] EXCEPT !.pc = "build"])
    /\ creds' = IF signings[j].means = "paste" THEN j ELSE creds
    /\ UNCHANGED <<blank, waiting, release>> /\ Same

CertsBad(j) ==
    /\ signings[j].pc = "certs" /\ Goes(j, Ends(j, TRUE))
    /\ UNCHANGED <<blank, creds, waiting, release>> /\ Same

\* What is built is the installer on the page by now.
Built(j) ==
    /\ signings[j].pc = "build"
    /\ Goes(j, [signings[j] EXCEPT !.of = opened, !.pc = "hash"])
    /\ UNCHANGED <<blank, creds, waiting, release>> /\ Same

Waits(w, s) == waiting' = [waiting EXCEPT ![w] = [of |-> s.of, by |-> s.by, disturbed |-> s.disturbed]]

\* It is hashed: a paste waits for its signature with its commands written,
\* a service is called with whatever the variable has.
Hashed(j) ==
    LET s == signings[j]
    IN  /\ s.pc = "hash" /\ Same /\ UNCHANGED release
        /\ CASE s.means = "remote" ->
                  /\ Waits("remote", s) /\ Goes(j, Ends(j, FALSE)) /\ UNCHANGED <<blank, creds>>
             [] s.means = "paste" ->
                  /\ Waits("paste", s)
                  /\ Goes(j, [Ends(j, creds = 0) EXCEPT !.misread = creds # j])
                  /\ IF creds = 0 THEN UNCHANGED <<blank, creds>> ELSE Forget
             [] s.means = "service" /\ creds = 0 -> Ended(j, TRUE) /\ UNCHANGED waiting
             [] OTHER ->
                  /\ Goes(j, IF s.means = "service" THEN [s EXCEPT !.pc = "call", !.obj = creds]
                             ELSE [s EXCEPT !.pc = "finish"])
                  /\ UNCHANGED <<blank, creds, waiting>>

\* A build that fails: with a paste, nothing drops the credentials.
NotBuilt(j) ==
    /\ signings[j].pc \in {"build", "hash"} /\ Ended(j, TRUE)
    /\ UNCHANGED <<waiting, release>> /\ Same

\* A service is called once or several times, each time with what is in the
\* object by then; one that signs later is asked again until it has.
Call(j) ==
    LET s == signings[j]
        calls == Services[s.service].calls
    IN  /\ s.pc = "call" /\ s.call < Len(calls)
        /\ Goes(j, [s EXCEPT !.call = @ + 1,
                      !.pc = IF s.call + 1 = Len(calls) THEN "finish" ELSE "call",
                      !.misread = @ \/ (calls[s.call + 1] /\ s.obj \notin {j} \ blank)])
        /\ UNCHANGED <<blank, creds, waiting, release>> /\ Same

Refused(j) ==
    /\ signings[j].pc \in {"call", "finish"} /\ Ended(j, TRUE)
    /\ UNCHANGED <<waiting, release>> /\ Same

\* The signature fits the certificates: the file is written and downloaded.
Signed(j) ==
    /\ signings[j].pc = "finish" /\ Ended(j, FALSE)
    /\ release' = [by |-> j, of |-> signings[j].of, named |-> signings[j].of, disturbed |-> FALSE]
    /\ UNCHANGED waiting /\ Same

(***************************************************************************)
(* A pasted signature                                                      *)
(***************************************************************************)
\* It is checked for what waits now; by its end something else may wait, or
\* nothing: the file then has that name, or none and is not downloaded.
Paste(w) ==
    LET j == Len(signings) + 1
    IN  /\ j <= MaxSignings /\ waiting[w] # Nobody
        /\ signings' = Append(signings,
              [by |-> waiting[w].by, means |-> IF w = "remote" THEN "checkRemote" ELSE "checkPaste",
               service |-> service, of |-> waiting[w].of, call |-> 0, obj |-> 0, misread |-> FALSE,
               pc |-> "check", disturbed |-> FALSE, failed |-> FALSE])
        /\ UNCHANGED <<blank, creds, waiting, release>> /\ Same

Pasted(j) ==
    LET s == signings[j]
        w == IF s.means = "checkRemote" THEN "remote" ELSE "paste"
    IN  /\ s.pc = "check" /\ Same
        /\ IF waiting[w] = Nobody
           THEN Goes(j, Ends(j, TRUE)) /\ UNCHANGED <<blank, creds, waiting, release>>
           ELSE /\ release' = [by |-> s.by, of |-> s.of, named |-> waiting[w].of,
                               disturbed |-> s.disturbed \/ waiting[w].by # s.by]
                /\ waiting' = [waiting EXCEPT ![w] = Nobody]
                /\ IF w = "paste"
                   THEN /\ Forget
                        /\ signings' = [i \in DOMAIN signings |-> IF i = j THEN Ends(j, FALSE) ELSE Disturbed[i]]
                   ELSE Goes(j, Ends(j, FALSE)) /\ UNCHANGED <<blank, creds>>

PasteWrong(j) ==
    /\ signings[j].pc = "check" /\ Goes(j, Ends(j, TRUE))
    /\ UNCHANGED <<blank, creds, waiting, release>> /\ Same

Cancel(w) ==
    /\ Turn /\ waiting[w] # Nobody /\ waiting' = [waiting EXCEPT ![w] = Nobody]
    /\ IF w = "paste" THEN Forget /\ signings' = Disturbed
       ELSE UNCHANGED <<blank, creds, signings>>
    /\ UNCHANGED <<opened, choice, service, online, keys, release>>

NextPanel ==
    \/ Open \/ ServerChanged \/ Hide \/ Click
    \/ \E s \in {"pfx", "remote", "service"} : ChooseSource(s)
    \/ \E s \in DOMAIN Services : ChooseService(s)
    \/ \E k \in {"pfx", "pgp"} : OpenKey(k)
    \/ \E w \in DOMAIN waiting : Paste(w) \/ Cancel(w)
    \/ \E j \in DOMAIN signings :
          \/ CertsRead(j) \/ CertsBad(j) \/ Built(j) \/ Hashed(j) \/ NotBuilt(j)
          \/ Call(j) \/ Refused(j) \/ Signed(j) \/ Pasted(j) \/ PasteWrong(j)

SpecPanel == InitPanel /\ [][NextPanel]_panelVars

(***************************************************************************)
(* Properties                                                              *)
(***************************************************************************)
\* Credentials are read by the signing they were typed for, and are there
\* whole, unless something else of the panel was turned to meanwhile; and they
\* are held only while a signing of theirs is at work, save after a paste whose
\* build failed (sign-ui.js forgetCreds, signWithService, startServicePaste).
CredentialsServeOneSigning ==
    /\ \A j \in DOMAIN signings : signings[j].misread => signings[j].disturbed
    /\ creds # 0 =>
          \/ AtWork(creds)
          \/ signings[creds].means = "paste" /\ signings[creds].failed

\* What waits for a pasted signature is the installer on the page, and a signed
\* file has its own name, unless something else was turned to while it was
\* built or checked (sign-ui.js startRemote, finishRemote, cancelRemote and
\* paintSign).
SignedIsWhatWasShown ==
    /\ \A w \in DOMAIN waiting :
          waiting[w] # Nobody => waiting[w].of = opened \/ waiting[w].disturbed
    /\ release # Nobody => release.named = release.of \/ release.disturbed
=============================================================================
