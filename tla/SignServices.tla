---------------------------- MODULE SignServices ----------------------------
(***************************************************************************)
(* The signing services of the sign panel (sign-services.js): each is a    *)
(* few calls that send a digest and bring back a signature of it, made in  *)
(* this page or through the server's relay. The services themselves, their *)
(* one-time codes and what they charge for are outside of this code.       *)
(*                                                                         *)
(* A secret has the key it is, an encoded value the bytes it is of and how *)
(* it is encoded; a time is a count of the 30 s a code is good for.        *)
(***************************************************************************)
EXTENDS Integers, Sequences, FiniteSets

CONSTANTS
    Orders,   \* what may be typed: [service, ...] with the fields of that service
    Holds,    \* by service: what the account has there
    MaxClock  \* bound: half minutes


\* What the page can write a signature of.
Writable == {"rsa", "ec"}

\* The fields of one service have a list of its kinds of keys to choose from.
ASSUME SignServicesAssumption ==
    /\ MaxClock \in Nat
    /\ \A o \in Orders : o.service \in {"sslcom", "gcpkms", "awskms", "azurets", "generic"}
    /\ \A o \in Orders : o.service = "sslcom" => o.keyType \in Writable
    /\ \A o \in Orders : o.certificate \in {"its", "another", "none"}  \* given to the panel

VARIABLES
    order,     \* what is typed
    relayBase, \* the server a relayed call goes to
    stage,     \* the call that is next, "idle", "over" (sign() is) or "done"
    clock,
    got,       \* what the calls brought so far
    performed, \* by the service: the signatures made for this try
    excuse,    \* an answer did not come, or was not what the service means
    outcome    \* Pending, Failed, what sign() resolves to, or what came of that

servicesVars == <<order, relayBase, stage, clock, got, performed, excuse, outcome>>

Pending == [is |-> "pending"]
Failed == [is |-> "failed"]
Absent == [is |-> "nothing"]
Found == Holds[order.service]

Garbage == [of |-> "garbage", alg |-> "none"]

(***************************************************************************)
(* Encodings                                                               *)
(***************************************************************************)
Encoded(of, how) == [of |-> of, how |-> how]

\* Base64 is read as its URL-safe form too. Hex is in base64's alphabet: read
\* as that, it is other bytes; the other way round it is not hex.
DecodeSignature(v, how) ==
    IF v = Absent THEN Failed
    ELSE IF v.how = how \/ <<v.how, how>> = <<"base64", "base64url">> THEN [is |-> "signature", of |-> v.of]
    ELSE IF v.how = "hex" THEN [is |-> "signature", of |-> Garbage]
    ELSE Failed

\* The keys a secret may be, the likelier first.
TotpKeys(secret) ==
    CASE secret.reads = "both" -> <<"of base64", "of base32">>
      [] secret.reads = "none" -> <<>>
      [] OTHER -> <<"of " \o secret.reads>>

\* A typed code is as old as it is, a computed one as the page's clock.
OtpCandidates(secret) ==
    IF secret.reads = "code" THEN <<[key |-> secret.key, at |-> secret.at]>>
    ELSE [i \in DOMAIN TotpKeys(secret) |-> [key |-> TotpKeys(secret)[i], at |-> clock]]

(***************************************************************************)
(* Calls                                                                   *)
(***************************************************************************)
Relayed == order.service = "azurets"

\* A relayed call needs a server, over https or on this machine, that does
\* relay it.
MayBeSent == Relayed => relayBase \in {"https", "localhost"}

Settles(result) == stage' = "over" /\ outcome' = result /\ got' = Absent
Proceeds(call, with) == stage' = call /\ got' = with /\ UNCHANGED outcome
Rest == UNCHANGED <<order, relayBase, clock>>
Free == UNCHANGED <<performed, excuse>>

\* The answer to a call: what the service does and says, or trouble, with
\* what the service did or not.
Trouble(did) == Settles(Failed) /\ excuse' = TRUE /\ performed' \in {performed, did}

Begins(refused, call) ==
    /\ stage = "idle"
    /\ IF refused THEN Settles(Failed) ELSE Proceeds(call, Absent)
    /\ Free /\ Rest

\* What this page could not write is refused before the call.
RefuseUnwritable(alg) == alg \notin Writable

(***************************************************************************)
(* SSL.com eSigner: token, credentials, certificates, authorisation of one *)
(* hash, signature                                                         *)
(***************************************************************************)
SslcomBegins ==
    /\ order.service = "sslcom" /\ Begins("" \in {order.clientId, order.username, order.password} \/ order.totp = Absent, "token")

SslcomToken ==
    /\ stage = "token"
    /\ \/ Trouble(performed)
       \/ /\ order.password = Found.password
          /\ Proceeds(IF order.credentialId = "" THEN "list" ELSE "info", [credential |-> order.credentialId, asked |-> 0])
          /\ Free
       \/ order.password # Found.password /\ Settles(Failed) /\ Free
    /\ Rest

\* Which credentials are listed depends on the kind asked for: code signing,
\* then documents, then whatever comes without a kind.
SslcomList ==
    LET listed == Found.lists[got.asked + 1]
    IN  /\ stage = "list"
        /\ \/ Trouble(performed)
           \/ /\ IF Cardinality(listed) = 1 THEN Proceeds("info", [got EXCEPT !.credential = CHOOSE c \in listed : TRUE])
                 ELSE IF Cardinality(listed) > 1 \/ got.asked = 2 THEN Settles(Failed)
                 ELSE Proceeds("list", [got EXCEPT !.asked = @ + 1])
              /\ Free
        /\ Rest

\* The codes are computed once, before the first of them is tried.
SslcomInfo ==
    /\ stage = "info"
    /\ \/ Trouble(performed)
       \/ /\ IF got.credential = Found.credential /\ OtpCandidates(order.totp) # <<>>
             THEN Proceeds("authorize", [codes |-> OtpCandidates(order.totp)])
             ELSE Settles(Failed)
          /\ Free
    /\ Rest

GoodCode(c) == c.key = Found.key /\ c.at \in {clock - 1, clock}

SslcomAuthorize ==
    /\ stage = "authorize"
    /\ \/ Trouble(performed)
       \/ Len(got.codes) > 1 /\ Proceeds("authorize", [codes |-> Tail(got.codes)]) /\ Free
       \/ /\ IF GoodCode(Head(got.codes)) THEN Proceeds("signHash", [sad |-> "digest"])
             ELSE IF Len(got.codes) > 1 THEN Proceeds("authorize", [codes |-> Tail(got.codes)])
             ELSE Settles(Failed)
          /\ Free
    /\ Rest

\* The service signs what was authorised, with the kind of key it has.
SslcomSign ==
    LET signature == [of |-> got.sad, alg |-> Found.keyType]
    IN  /\ stage = "signHash"
        /\ \/ Trouble(Append(performed, signature))
           \/ IF order.keyType # Found.keyType THEN Settles(Failed) /\ Free
              ELSE /\ performed' = Append(performed, signature)
                   /\ Settles(DecodeSignature(Encoded(signature, "base64"), "base64"))
                   /\ UNCHANGED excuse
        /\ Rest

(***************************************************************************)
(* Google Cloud KMS and AWS KMS: one call                                  *)
(***************************************************************************)
KmsBegins ==
    /\ order.service \in {"gcpkms", "awskms"}
    /\ Begins(\/ "" \in {order.key, order.secret}
              \/ order.service = "awskms" /\ (order.region = "odd" \/ RefuseUnwritable(order.alg)), "kms")

\* The request to AWS is signed with the secret at this machine's time.
Sigv4Accepted == order.secret = Found.secret /\ ~Found.skewed

KmsSign ==
    LET signature == [of |-> "digest", alg |-> IF order.service = "gcpkms" THEN Found.alg ELSE order.alg]
        allowed == /\ order.key = Found.key
                   /\ IF order.service = "gcpkms" THEN order.secret = Found.secret
                      ELSE Sigv4Accepted /\ order.alg \in Found.algs
    IN  /\ stage = "kms"
        /\ \/ Trouble(IF allowed THEN Append(performed, signature) ELSE performed)
           \/ IF ~allowed THEN Settles(Failed) /\ Free
              ELSE /\ performed' = Append(performed, signature)
                   /\ Settles(DecodeSignature(Encoded(signature, "base64"), "base64"))
                   /\ UNCHANGED excuse
        /\ Rest

(***************************************************************************)
(* Azure Trusted Signing: an operation is begun, then asked about          *)
(***************************************************************************)
AzureBegins ==
    /\ order.service = "azurets"
    /\ Begins("" \in {order.account, order.secret} \/ order.region = "odd" \/ RefuseUnwritable(order.alg), "start")

Patience == 4   \* two minutes

AzureStart ==
    LET signature == [of |-> "digest", alg |-> order.alg]
    IN  /\ stage = "start"
        /\ IF ~MayBeSent THEN Settles(Failed) /\ Free
           ELSE \/ Trouble(Append(performed, signature))
                \/ /\ order.secret = Found.secret /\ order.alg \in Found.algs
                   /\ Proceeds("poll", [until |-> clock + Patience, signature |-> signature]) /\ Free
                \/ (order.secret # Found.secret \/ order.alg \notin Found.algs) /\ Settles(Failed) /\ Free
        /\ Rest

\* Mutant: after an answer that is not 200 the operation is begun again.
AzurePollAgain ==
    /\ stage = "poll"
    /\ \/ Proceeds("start", Absent) /\ performed' = Append(performed, got.signature) /\ UNCHANGED excuse
       \/ /\ performed' = Append(performed, got.signature) /\ UNCHANGED excuse
          /\ Settles(DecodeSignature(Encoded(got.signature, "base64"), "base64"))
    /\ Rest

\* One answer that is not 200 ends the asking, whatever becomes of the
\* operation.
AzurePoll ==
    LET did == Append(performed, got.signature)
    IN  /\ stage = "poll"
        /\ \/ Trouble(did)
           \/ /\ performed' = did /\ UNCHANGED excuse
              /\ Settles(DecodeSignature(Encoded(got.signature, "base64"), "base64"))
           \/ Settles(Failed) /\ Free        \* it says that it failed
           \/ /\ clock > got.until         \* it is still at work
              /\ Settles(Failed) /\ excuse' = TRUE /\ performed' \in {performed, did}
        /\ Rest

(***************************************************************************)
(* Any service that signs a digest: the person describes it                *)
(***************************************************************************)
GenericBegins ==
    /\ order.service = "generic"
    /\ Begins(\/ order.url \in {"", "http"}
              \/ order.headers = "odd"
              \/ order.body = "template" /\ order.encoding = "raw"
              \/ order.body = "no place", "generic")

\* What comes back is read where and as the person said.
GenericAnswer ==
    LET signature == [of |-> IF order.encoding = Found.takes THEN "digest" ELSE "garbage", alg |-> Found.alg]
        signatureAt == IF order.path = "" /\ Found.json THEN Encoded(Garbage, "json")
                       ELSE IF order.path = Found.path THEN Encoded(signature, Found.how) ELSE Absent
        read == DecodeSignature(signatureAt, order.signatureEncoding)
    IN  /\ stage = "generic"
        /\ \/ Trouble(Append(performed, signature))
           \/ /\ performed' = Append(performed, signature)
              /\ IF read = Failed \/ order.certPath \notin {"", Found.certPath} THEN Settles(Failed)
                 ELSE Settles(read)
              /\ UNCHANGED excuse
        /\ Rest

(***************************************************************************)
(* The file                                                                *)
(***************************************************************************)
\* finishPE writes a file only from a signature of the digest it can verify.
UsableSignature(result) == result.is = "signature" /\ result.of.of = "digest" /\ result.of.alg \in Writable

\* Which services send a certificate with the signature: Azure may.
SendsCertificate ==
    CASE order.service = "sslcom" -> {TRUE}
      [] order.service = "azurets" -> BOOLEAN
      [] order.service = "generic" -> {order.certPath # ""}
      [] OTHER -> {FALSE}

\* The certificate the panel was given is read only now, when none was sent.
WriteFile ==
    /\ stage = "over" /\ outcome.is = "signature"
    /\ stage' = "done"
    /\ \E sent \in SendsCertificate :
          outcome' = IF ~sent /\ order.certificate = "none" THEN [is |-> "no certificate"]
                     ELSE IF UsableSignature(outcome) /\ (sent \/ order.certificate = "its") THEN [is |-> "file"]
                     ELSE Failed
    /\ UNCHANGED got /\ Free /\ Rest

(***************************************************************************)
(* The button                                                              *)
(***************************************************************************)
Press ==
    /\ stage = "done" \/ (stage = "over" /\ outcome = Failed)
    /\ stage' = "idle" /\ got' = Absent /\ performed' = <<>> /\ excuse' = FALSE /\ outcome' = Pending
    /\ Rest

HalfMinute == clock < MaxClock /\ clock' = clock + 1 /\ UNCHANGED <<order, relayBase, stage, got, performed, excuse, outcome>>

\* What the panel offers: relayed services only where there is a server.
ServicesFor(base) == {o \in Orders : base # "none" \/ o.service # "azurets"}

InitServices ==
    /\ relayBase \in {"none", "https", "localhost", "http"}
    /\ order \in ServicesFor(relayBase)
    /\ stage = "idle" /\ clock = 0 /\ got = Absent /\ performed = <<>> /\ excuse = FALSE
    /\ outcome = Pending

NextServices ==
    \/ SslcomBegins \/ SslcomToken \/ SslcomList \/ SslcomInfo \/ SslcomAuthorize \/ SslcomSign
    \/ KmsBegins \/ KmsSign \/ AzureBegins \/ AzureStart \/ AzurePoll
    \/ GenericBegins \/ GenericAnswer
    \/ WriteFile \/ Press \/ HalfMinute

SpecServices == InitServices /\ [][NextServices]_servicesVars

(***************************************************************************)
(* Properties                                                              *)
(***************************************************************************)
\* A service signs, and charges, at most once for one press of the button.
\* What it signed comes back as a signature of the digest and becomes a file,
\* unless an answer was lost or came too late, or the service is one
\* that may send no certificate and the panel was not given the one of that
\* key, which the panel asks for only once the service has signed
\* (signWithService; the loops over credentials, codes and polls;
\* refuseUnwritable: a billed signature that cannot be turned into a file
\* helps nobody). What kind of key Cloud KMS has
\* the page cannot know, and how to read a service the person describes is
\* theirs to say.
PaidSignatureIsUsable ==
    /\ Len(performed) <= 1
    /\ outcome.is \in {"signature", "file", "no certificate"} => Len(performed) = 1
    /\ performed # <<>> /\ ~excuse /\ order.service \notin {"gcpkms", "generic"} =>
          \/ stage = "over" /\ UsableSignature(outcome)
          \/ stage = "done" /\ outcome.is = "file"
          \/ stage = "done" /\ order.certificate # "its" /\ order.service \in {"awskms", "azurets"}
=============================================================================
