----------------------------- MODULE Admission -----------------------------
(***************************************************************************)
(* Whom the build server serves: who a caller is (clientIP), and the       *)
(* limits per address its routes share (limiter.js). What a request that   *)
(* is let through does is the matter of Outgoing, BuildServer and          *)
(* JobQueue.                                                               *)
(***************************************************************************)
EXTENDS Integers, Sequences, FiniteSets, SequencesExt

CONSTANTS
    Callers,   \* addresses people call from
    Limits,    \* by limiter: the calls one address may make in a window
    Window,    \* how long a call counts
    Crowd,     \* the addresses a limiter holds before it forgets quiet ones
    MaxNow,    \* bound: time
    MaxAsked   \* bound: requests

Loopback == "127.0.0.1"
Sources == Callers \cup {Loopback}

LimiterOf ==
    [submit |-> "build", form |-> "build", relay |-> "relay", tsa |-> "relay", sign |-> "relay",
     plan |-> "name", planByName |-> "name"]
Routes == DOMAIN LimiterOf

ASSUME AdmissionAssumption ==
    /\ Window \in Nat \ {0} /\ Crowd \in Nat /\ MaxNow \in Nat /\ MaxAsked \in Nat
    /\ Loopback \notin Callers
    /\ \A l \in DOMAIN Limits : Limits[l] \in Nat
    /\ \A r \in Routes : LimiterOf[r] \in DOMAIN Limits

VARIABLES
    trust,    \* -trust-proxy
    behind,   \* a reverse proxy is in front
    now, asked,
    hits,     \* for each limiter and address: the calls it remembers, each [n, at]
    let,      \* for each limiter and caller: the calls let through
    unfair    \* a call was refused though its caller had made too few

admissionVars == <<trust, behind, now, asked, hits, let, unfair>>

(***************************************************************************)
(* Who is calling, and how often                                           *)
(***************************************************************************)
\* Each proxy appends the address it was called from; the rest of the header
\* is what the caller made of it.
Peer(from) == IF behind THEN Loopback ELSE from
Forwarded(from, claims) == IF behind THEN Append(claims, from) ELSE claims

\* Mutant: of a header the first hop is taken.
ClientIPFirst(peer, hops) ==
    IF trust /\ peer = Loopback /\ hops # <<>> THEN Head(hops) ELSE peer

ClientIP(peer, hops) ==
    IF trust /\ peer = Loopback /\ hops # <<>> THEN Last(hops) ELSE peer

Recent(calls) == {c \in calls : now - c.at < Window}
Quiet(calls) == \A c \in calls : now - c.at > Window
ThisCall == [n |-> asked, at |-> now]

\* allow(): the hits that still count, this one among them if it passes; a
\* crowd makes it forget the addresses that have gone quiet.
Allow(limiter, ip) ==
    LET keep == Recent(hits[limiter][ip])
        ok == Cardinality(keep) < Limits[limiter]
        held == [hits[limiter] EXCEPT ![ip] = IF ok THEN keep \cup {ThisCall} ELSE keep]
        crowded == Cardinality({a \in Sources : held[a] # {}}) > Crowd
    IN  [ok |-> ok, hits |-> IF ok /\ crowded
                             THEN [a \in Sources |-> IF Quiet(held[a]) THEN {} ELSE held[a]]
                             ELSE held]

(***************************************************************************)
(* Routes                                                                  *)
(***************************************************************************)
InitAdmission ==
    /\ trust \in BOOLEAN /\ behind \in BOOLEAN
    /\ now = 0 /\ asked = 0
    /\ hits = [l \in DOMAIN Limits |-> [a \in Sources |-> {}]]
    /\ let = [l \in DOMAIN Limits |-> [a \in Callers |-> {}]]
    /\ unfair = FALSE

Within(calls) == Cardinality(Recent(calls))

\* A server set up as the documentation has it: what is in front is known.
AsDocumented == behind => trust

Arrive(route, from, claims) ==
    LET limiter == LimiterOf[route]
        verdict == Allow(limiter, ClientIP(Peer(from), Forwarded(from, claims)))
    IN  /\ asked < MaxAsked
        /\ asked' = asked + 1
        /\ hits' = [hits EXCEPT ![limiter] = verdict.hits]
        /\ IF verdict.ok
           THEN let' = [let EXCEPT ![limiter][from] = @ \cup {ThisCall}] /\ UNCHANGED unfair
           ELSE /\ unfair' = (unfair \/ (AsDocumented /\ Within(let[limiter][from]) < Limits[limiter]))
                /\ UNCHANGED let
        /\ UNCHANGED <<trust, behind, now>>

Tick == now < MaxNow /\ now' = now + 1 /\ UNCHANGED <<trust, behind, asked, hits, let, unfair>>

\* What a caller writes into the header, before the proxy adds to it.
Claims == {<<>>} \cup {<<c>> : c \in Callers}

NextAdmission ==
    \/ \E route \in Routes, from \in Callers, claims \in Claims : Arrive(route, from, claims)
    \/ Tick

SpecAdmission == InitAdmission /\ [][NextAdmission]_admissionVars

(***************************************************************************)
(* Properties                                                              *)
(***************************************************************************)
\* In any window no caller gets more through than the limit, however the
\* routes that share it are mixed, whatever stands in the header, and when
\* the server forgets addresses; and a server that was told of the proxy in
\* front of it refuses nobody for what others did (clientIP, allow).
LimitIsPerCaller ==
    /\ \A l \in DOMAIN Limits, c \in Callers : Within(let[l][c]) <= Limits[l]
    /\ ~unfair
=============================================================================
