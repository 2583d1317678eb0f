------------------------------ MODULE Outgoing ------------------------------
(***************************************************************************)
(* What the build server fetches for a page: the catalogue's files         *)
(* (relay), timestamps (tsa) and calls to a signing service                *)
(* (signrelay.js), each from a fixed list, through the client that talks   *)
(* to public addresses only and follows redirects itself (netsafe.js). A   *)
(* request is one fetch; requests share nothing.                           *)
(***************************************************************************)
EXTENDS Integers, Sequences

CONSTANTS
    Links,     \* addresses of the web by name: [scheme, origin, answers, listed]
    Hops,      \* the redirects that are followed
    Inside     \* addresses of this machine and its network

(***************************************************************************)
(* Addresses of a machine and its network: what has been set apart for     *)
(* them, by the bytes it starts with.                                      *)
(***************************************************************************)
Local4 ==
    {<<0>>, <<10>>, <<127>>, <<169, 254>>, <<192, 168>>}
    \cup {<<172, x>> : x \in 16..31} \cup {<<100, x>> : x \in 64..127}
Local6 ==
    {[i \in 1..16 |-> 0], [i \in 1..16 |-> IF i = 16 THEN 1 ELSE 0], <<252>>, <<253>>}
    \cup {<<254, x>> : x \in 128..191}

BeginsWith(b, p) == DOMAIN p \subseteq DOMAIN b /\ \A i \in DOMAIN p : b[i] = p[i]

\* An address of IPv4 written as one of IPv6.
Mapped(b) == \A i \in 1..12 : b[i] = IF i > 10 THEN 255 ELSE 0
Unmapped(b) == [i \in 1..4 |-> b[i + 12]]

IsLocal(b) ==
    \/ Len(b) = 4 /\ \E p \in Local4 : BeginsWith(b, p)
    \/ Len(b) = 16 /\ Mapped(b) /\ \E p \in Local4 : BeginsWith(Unmapped(b), p)
    \/ Len(b) = 16 /\ \E p \in Local6 : BeginsWith(b, p)

ASSUME OutgoingAssumption ==
    Hops \in Nat /\ \A a \in Inside : a \in Seq(0..255) /\ IsLocal(a)

VARIABLES
    fetch,    \* the fetch under way
    wire      \* the request of it that was sent last, of any

outgoingVars == <<fetch, wire>>

\* Answers of the web, once.
Web == Links

NoFetch == [pc |-> "none"]
Unsent == [pc |-> "unsent"]

InitOutgoing == fetch = NoFetch /\ wire = Unsent

EndFetch == fetch' = NoFetch /\ wire' = Unsent

(***************************************************************************)
(* What is asked for                                                       *)
(***************************************************************************)
Fetch(route, link, auth, body) ==
    /\ fetch.pc = "none"
    /\ fetch' = [pc |-> "dial", route |-> route, first |-> link, link |-> link,
                 auth |-> auth, body |-> body, hop |-> 0]
    /\ UNCHANGED wire

\* A file the catalogue lists.
AskFile(link) == Web[link].listed = "relay" /\ Fetch("relay", link, FALSE, FALSE)

\* A timestamp server, by its name; without a body it is refused.
AskStamp(link) == Web[link].listed = "tsa" /\ Fetch("tsa", link, FALSE, TRUE)

\* An address of a signing service, by its pattern, and by its method with
\* or without a body; the caller's credential goes with it.
CheckRelay(link) == Web[link].listed = "sign"
AskSign(link, auth, body) == CheckRelay(link) /\ Fetch("sign", link, auth, body)

(***************************************************************************)
(* safeFetch                                                               *)
(***************************************************************************)
IsPublic4(b) ==
    /\ b[1] \notin {0, 10, 127} /\ b[1] \notin 224..239
    /\ ~(\A i \in 1..4 : b[i] = 255)
    /\ ~(b[1] = 169 /\ b[2] = 254) /\ ~(b[1] = 192 /\ b[2] = 168)
    /\ ~(b[1] = 172 /\ b[2] \in 16..31) /\ ~(b[1] = 100 /\ b[2] \in 64..127)

IsPublic6(b) ==
    /\ ~(\A i \in 1..15 : b[i] = 0) \/ b[16] > 1
    /\ b[1] # 255 /\ b[1] \notin 252..253
    /\ ~(b[1] = 254 /\ b[2] \in 128..191)

IsPublic(b) ==
    IF Len(b) = 4 THEN IsPublic4(b) ELSE IF Mapped(b) THEN IsPublic4(Unmapped(b)) ELSE IsPublic6(b)

\* What a name is answered with, less what is not public; a number stands
\* for itself.
SafeLookup(answer) == {i \in DOMAIN answer : IsPublic(answer[i])}

\* A scheme of its own, an address that is not public, a connection that
\* breaks, or the timer over all of it.
Breaks == fetch.pc \in {"dial", "sent"} /\ EndFetch

Dial ==
    /\ fetch.pc = "dial"
    /\ Web[fetch.link].scheme \in {"http", "https"}
    /\ \E answer \in Web[fetch.link].answers : \E i \in SafeLookup(answer) :
          wire' = [pc |-> "sent", to |-> answer[i], auth |-> fetch.auth, body |-> fetch.body]
    /\ fetch' = [fetch EXCEPT !.pc = "sent"]

\* Mutant: the credential goes wherever a redirect leads.
AcrossRedirectAll(auth, from, to) == auth

AcrossRedirect(auth, from, to) == auth /\ Web[to].origin = Web[from].origin

\* 307 and 308 keep the method and the body; the others make it a GET.
Redirected(to, keeps) ==
    /\ fetch.pc = "sent" /\ fetch.hop < Hops
    /\ fetch' = [fetch EXCEPT !.pc = "dial", !.link = to, !.hop = @ + 1, !.body = @ /\ keeps,
                              !.auth = AcrossRedirect(@, fetch.link, to)]
    /\ UNCHANGED wire

\* An answer, or one redirect too many.
Replied == fetch.pc = "sent" /\ EndFetch

NextOutgoing ==
    \/ \E link \in DOMAIN Web, auth \in BOOLEAN, body \in BOOLEAN :
          AskFile(link) \/ AskStamp(link) \/ AskSign(link, auth, body)
    \/ \E link \in DOMAIN Web, keeps \in BOOLEAN : Redirected(link, keeps)
    \/ Dial \/ Replied \/ Breaks

SpecOutgoing == InitOutgoing /\ [][NextOutgoing]_outgoingVars

(***************************************************************************)
(* Properties                                                              *)
(***************************************************************************)
\* Whatever names resolve to and wherever redirects lead, nothing is sent to
\* this machine or its network, and a credential reaches only the origin
\* that the list of its service allows (safeFetch, acrossRedirect,
\* checkRelay).
OutgoingStays ==
    wire.pc = "sent" =>
        /\ wire.to \notin Inside
        /\ wire.auth /\ fetch.pc = "sent" =>
              fetch.route = "sign" /\ Web[fetch.link].origin = Web[fetch.first].origin
=============================================================================
