--------------------------------- MODULE Edge ---------------------------------
(***************************************************************************)
(* How a GitHub webhook is accepted: the worker at the edge                *)
(* (src/edge/github-ingress/src/index.ts), which vets a request, signs a   *)
(* hand-off and waits, and the handler it posts to                         *)
(* (src/src/ingress/github.rs), which verifies the hand-off and commits a  *)
(* receipt.  Between the two, and between GitHub and the worker,           *)
(* connections break, other servers answer, and time passes on two clocks. *)
(*                                                                         *)
(* Bytes are numbers and a text is the sequence of its digits where the    *)
(* code computes with them: bodies, digests, signatures.  A header of      *)
(* which only presence, length and equality count is a record [id, chars]. *)
(* What Antenna concludes from a delivery is Observation.tla.              *)
(***************************************************************************)
EXTENDS Integers, Sequences, FiniteSets

CONSTANTS
  Sending,       \* the times GitHub sends a webhook: a redelivery is another
  Request,       \* the requests it may send
  MaySend,       \* Sending -> those it may be
  None,          \* an absent header, answer or row; also what unhex refuses with
  NaN,           \* a number Number.isSafeInteger refuses
  Limits,        \* what MAX_BODY_BYTES may be, NaN included
  EventLimits,   \* what Antenna's max_event_bytes may be
  GithubSecret,
  HandoffSecret, \* as the worker has it
  Keys,          \* as Antenna may have it: it too, another one, or None
  DigestSize,    \* bytes of a digest, 32 in the code
  Sha(_),        \* the digest of some bytes
  Mac(_, _),     \* the authentication code of something under a secret
  Json(_),       \* what some bytes parse to: "object", "other" or "malformed"
  PerSecond,     \* steps of the clock in a second, 1000 in the code
  Skew,          \* how far Antenna's clock is ahead of the worker's, in steps
  MaxAge,        \* handoff_max_age_secs
  MaxTime,       \* bound on the clock
  MaxFaults      \* bound on faults

VARIABLES
  config,        \* what is configured: the worker's MAX_BODY_BYTES (limit), and
                 \* Antenna's max_event_bytes (maxEvent) and secret (key)
  now,           \* the worker's clock
  request,       \* the request of a sending
  at,            \* how far the worker is with it
  read,          \* memory: the bytes of the body read so far
  handoff,       \* what was posted to Antenna
  wire,          \* the hand-offs under way to Antenna
  answer,        \* the answer to a hand-off
  told,          \* what GitHub was answered
  receipts,      \* the receipts of GitHub deliveries; their ids are places here
  deliveries,    \* github_deliveries: the first receipt, and the duplicates
  struck,        \* history: the sendings some fault hit
  faults         \* faults so far

worker  == <<request, at, read, told>>
antenna == <<receipts, deliveries>>
network == <<handoff, wire, answer>>
vars    == <<config, now, worker, network, antenna, struck, faults>>

Delivery == {r.delivery : r \in Request} \ {None}
Event    == {r.event : r \in Request} \ {None}
RequestOrNone == Request \cup {None}
Stages   == {"idle", "reading", "signing", "fetching", "done", "cut"}

-----------------------------------------------------------------------------
(* Digests as text.  0..15 are the digits, a to f in lower case, 16..21 the *)
(* capitals, 22 any character that is no digit.                            *)

Byte   == 0..255
Digest == [1..DigestSize -> Byte]
Value(c) == IF c > 15 THEN c - 6 ELSE c

Texts == Seq(0..22)

\* Mutant: a byte below 16 has one digit.
HexUnpadded(b) ==
  LET text[i \in 0..Len(b)] ==
        IF i = 0 THEN <<>>
        ELSE text[i - 1] \o (IF b[i] < 16 THEN <<b[i]>>
                                          ELSE <<b[i] \div 16, b[i] % 16>>)
  IN text[Len(b)]

\* hex
Hex(b) == [i \in 1..(2 * Len(b)) |->
             IF i % 2 = 1 THEN b[(i + 1) \div 2] \div 16 ELSE b[i \div 2] % 16]

\* Mutant: what the regular expression would say without its flag i.
UnhexLower(t) ==
  IF Len(t) = 2 * DigestSize /\ \A i \in DOMAIN t : t[i] \in 0..15
  THEN [i \in 1..DigestSize |-> 16 * t[2 * i - 1] + t[2 * i]]
  ELSE None

\* unhex
Unhex(t) ==
  IF Len(t) = 2 * DigestSize /\ \A i \in DOMAIN t : t[i] \in 0..21
  THEN [i \in 1..DigestSize |-> 16 * Value(t[2 * i - 1]) + Value(t[2 * i])]
  ELSE None

\* Antenna's own: hex::encode of a Sha256, and hex::decode.
Sha256Hex(b) ==
  LET d == Sha(b) IN
  [i \in 1..(2 * DigestSize) |->
     IF i % 2 = 0 THEN d[i \div 2] % 16 ELSE d[(i + 1) \div 2] \div 16]

HexDecode(t) ==
  IF Len(t) % 2 = 0 /\ \A i \in DOMAIN t : t[i] \in 0..21
  THEN [i \in 1..(Len(t) \div 2) |-> 16 * Value(t[2 * i - 1]) + Value(t[2 * i])]
  ELSE None

Canonical(stamp, delivery, event, digest) == <<stamp, delivery, event, digest>>

-----------------------------------------------------------------------------
Handoffs  == [stamp : Nat, delivery : Delivery, event : Event, digest : Texts,
              scheme : {"v1="}, digits : Texts, body : Seq(Byte)]
Answers   == [status : Nat, kind : {"object", "other", "malformed"},
              receipt : Nat \cup {None}, duplicate : BOOLEAN]
Responses == [status : Nat, receipt : Nat \cup {None}, duplicate : BOOLEAN]
Receipts  == [delivery : Delivery, event : Event, body : Seq(Byte), duplicate : BOOLEAN]
Rows      == [first : Nat, duplicates : Nat]

ASSUME NoneAssumption ==
  /\ None \notin Request /\ None \notin Int /\ None \notin Digest
  /\ None \notin Handoffs /\ None \notin Answers /\ None \notin Responses
  /\ None \notin Rows /\ None # HandoffSecret
ASSUME RequestAssumption ==
  /\ MaySend \in [Sending -> SUBSET Request]
  /\ \A r \in Request :
       /\ r.delivery # None => r.delivery.chars \in Nat
       /\ r.event # None => r.event.chars \in Nat
       /\ r.length \in Int \cup {None, NaN}
       /\ r.body \in Seq(Byte)
       /\ r.signature # None => r.signature.digits \in Seq(0..22)
ASSUME ConfigAssumption ==
  Limits \subseteq Int \cup {NaN} /\ NaN \notin Int /\ EventLimits \subseteq Nat
ASSUME DigestAssumption ==
  /\ DigestSize \in Nat
  /\ \A r \in Request : Sha(r.body) \in Digest /\ Mac(GithubSecret, r.body) \in Digest
  /\ \A r \in Request, t \in 0..MaxTime : None \notin {r.delivery, r.event} =>
       Mac(HandoffSecret, Canonical(t, r.delivery, r.event, Hex(Sha(r.body)))) \in Digest
ASSUME ClockAssumption ==
  /\ PerSecond \in Nat \ {0} /\ Skew \in Int /\ MaxAge \in Nat
  /\ -Skew <= MaxAge * PerSecond    \* Antenna's clock is not that far behind
ASSUME BoundsAssumption == MaxTime \in Nat /\ MaxFaults \in Nat

-----------------------------------------------------------------------------
Init ==
  /\ config \in [limit : Limits, maxEvent : EventLimits, key : Keys]
  /\ now = 0
  /\ request = [s \in Sending |-> None]
  /\ at = [s \in Sending |-> "idle"]
  /\ read = [s \in Sending |-> <<>>]
  /\ handoff = [s \in Sending |-> None]
  /\ wire = {}
  /\ answer = [s \in Sending |-> None]
  /\ told = [s \in Sending |-> None]
  /\ receipts = <<>>
  /\ deliveries = [d \in Delivery |-> None]
  /\ struck = {}
  /\ faults = 0

\* The worker is done with a sending, and forgets what it had read of it.
Tell(s, response) ==
  /\ at' = [at EXCEPT ![s] = "done"]
  /\ read' = [read EXCEPT ![s] = <<>>]
  /\ told' = [told EXCEPT ![s] = response]

\* An error: no receipt goes with it.
Reply(s, status) == Tell(s, [status |-> status, receipt |-> None, duplicate |-> FALSE])

Strike(s) ==
  /\ faults < MaxFaults
  /\ faults' = faults + 1
  /\ struck' = struck \cup {s}

-----------------------------------------------------------------------------
(* The worker.                                                             *)

Missing(r) == None \in {r.delivery, r.event, r.signature}
Invalid(r) == r.delivery.chars > 200 \/ r.event.chars > 100 \/ r.media # "application/json"
LimitIsBad == config.limit = NaN \/ config.limit <= 0

\* The early returns, in their order; 0 if the body is to be read.
Verdict(r) ==
  IF r.path # "/github" THEN 404
  ELSE IF r.method # "POST" THEN 405
  ELSE IF Missing(r) THEN 400
  ELSE IF Invalid(r) THEN 400
  ELSE IF LimitIsBad THEN 503
  ELSE IF r.length = None THEN 0
  ELSE IF r.length = NaN \/ r.length < 0 THEN 400
  ELSE IF r.length > config.limit THEN 413
  ELSE 0

\* A request arrives: everything before the first await.
Arrive(s, r) ==
  /\ at[s] = "idle"
  /\ request' = [request EXCEPT ![s] = r]
  /\ \/ /\ Verdict(r) = 0
        /\ at' = [at EXCEPT ![s] = "reading"]
        /\ UNCHANGED <<read, told>>
     \/ /\ Verdict(r) # 0
        /\ Reply(s, Verdict(r))
  /\ UNCHANGED <<config, now, network, antenna, struck, faults>>

\* Mutant: only the declared length is compared with the limit.
ReadUnbounded(s) ==
  LET have == Len(read[s]) IN
  /\ at[s] = "reading"
  /\ \E n \in (have + 1)..Len(request[s].body) :
       read' = [read EXCEPT ![s] = @ \o SubSeq(request[s].body, have + 1, n)]
  /\ UNCHANGED <<config, now, request, at, told, network, antenna, struck, faults>>

\* One turn of readBounded's loop: a chunk that ends with byte n.
Read(s) ==
  LET have == Len(read[s]) IN
  /\ at[s] = "reading"
  /\ \E n \in (have + 1)..Len(request[s].body) :
       \/ /\ n <= config.limit
          /\ read' = [read EXCEPT ![s] = @ \o SubSeq(request[s].body, have + 1, n)]
          /\ UNCHANGED <<at, told>>
       \/ /\ n > config.limit
          /\ Reply(s, 413)
  /\ UNCHANGED <<config, now, request, network, antenna, struck, faults>>

\* The stream breaks: readBounded throws, and fetch answers for it.
StreamFails(s) ==
  /\ at[s] = "reading"
  /\ Strike(s)
  /\ Reply(s, 500)
  /\ UNCHANGED <<config, now, request, network, antenna>>

\* verifyGithub
VerifyGithub(body, signature) ==
  /\ signature.scheme = "sha256="
  /\ Unhex(signature.digits) # None
  /\ Unhex(signature.digits) = Mac(GithubSecret, body)

\* The body is complete: is it GitHub's, and an object?
Vet(s) ==
  LET genuine == VerifyGithub(read[s], request[s].signature)
      object  == Json(read[s]) = "object"
  IN
  /\ at[s] = "reading"
  /\ Len(read[s]) = Len(request[s].body)
  /\ \/ /\ genuine /\ object
        /\ at' = [at EXCEPT ![s] = "signing"]
        /\ UNCHANGED <<read, told>>
     \/ ~genuine /\ Reply(s, 401)
     \/ genuine /\ ~object /\ Reply(s, 400)
  /\ UNCHANGED <<config, now, request, network, antenna, struck, faults>>

\* The body's digest, the timestamp, the signature over both, and the post.
HandOff(s) ==
  LET r      == request[s]
      digest == Hex(Sha(read[s]))
      stamp  == now \div PerSecond
      sealed == Mac(HandoffSecret, Canonical(stamp, r.delivery, r.event, digest))
  IN
  /\ at[s] = "signing"
  /\ at' = [at EXCEPT ![s] = "fetching"]
  /\ handoff' = [handoff EXCEPT ![s] =
       [stamp |-> stamp, delivery |-> r.delivery, event |-> r.event,
        digest |-> digest, scheme |-> "v1=", digits |-> Hex(sealed),
        body |-> read[s]]]
  /\ wire' = wire \cup {s}
  /\ UNCHANGED <<config, now, request, read, told, answer, antenna, struck, faults>>

\* Mutant: any success of the upstream is taken for an acceptance.
AcknowledgeAnySuccess(s) ==
  LET a == answer[s] IN
  /\ at[s] = "fetching"
  /\ a # None
  /\ IF a.status \in 200..299 /\ a.kind # "malformed"
     THEN Tell(s, [status |-> 202, receipt |-> a.receipt, duplicate |-> a.duplicate])
     ELSE Reply(s, 502)
  /\ answer' = [answer EXCEPT ![s] = None]
  /\ UNCHANGED <<config, now, request, handoff, wire, antenna, struck, faults>>

\* The answer is in: only a 202 with an object in it is passed on.
Acknowledge(s) ==
  LET a == answer[s] IN
  /\ at[s] = "fetching"
  /\ a # None
  /\ \/ /\ a.status = 202 /\ a.kind = "object"
        /\ Tell(s, [status |-> 202, receipt |-> a.receipt, duplicate |-> a.duplicate])
     \/ (a.status # 202 \/ a.kind = "other") /\ Reply(s, 502)
     \/ a.status = 202 /\ a.kind = "malformed" /\ Reply(s, 500)
  /\ answer' = [answer EXCEPT ![s] = None]
  /\ UNCHANGED <<config, now, request, handoff, wire, antenna, struck, faults>>

-----------------------------------------------------------------------------
(* Antenna.                                                                *)

Age(h) == (now + Skew) \div PerSecond - h.stamp

\* verify_handoff
VerifyHandoff(h) ==
  LET digest   == Sha256Hex(h.body)
      expected == Mac(config.key, Canonical(h.stamp, h.delivery, h.event, digest))
  IN
  IF config.key = None THEN 503
  ELSE IF /\ h.delivery.chars <= 200 /\ h.event.chars <= 100
          /\ Age(h) \in (-MaxAge)..MaxAge
          /\ h.digest = digest
          /\ h.scheme = "v1="
          /\ HexDecode(h.digits) = expected
  THEN 202 ELSE 401

\* What becomes of a hand-off: the router's body limit comes before the handler.
Reception(h) == IF Len(h.body) > config.maxEvent THEN 413 ELSE VerifyHandoff(h)

\* The worker is told, if it is still there and nobody else answered.
Answer(s, status, receipt, duplicate) ==
  answer' = [answer EXCEPT ![s] =
    IF at[s] = "fetching" /\ @ = None
    THEN [status |-> status, kind |-> "object", receipt |-> receipt, duplicate |-> duplicate]
    ELSE @]

\* Mutant: the answer does not wait for the transaction.
TakeUncommitted(s) ==
  LET d == handoff[s].delivery IN
  /\ s \in wire
  /\ Reception(handoff[s]) = 202
  /\ wire' = wire \ {s}
  /\ Answer(s, 202, Len(receipts) + 1, deliveries[d] # None)
  /\ UNCHANGED <<config, now, worker, handoff, antenna, struck, faults>>

\* Mutant: each arrival is the first.
TakeAsNew(s) ==
  LET h == handoff[s]
      n == Len(receipts) + 1
  IN
  /\ s \in wire
  /\ Reception(h) = 202
  /\ wire' = wire \ {s}
  /\ receipts' = Append(receipts,
       [delivery |-> h.delivery, event |-> h.event, body |-> h.body, duplicate |-> FALSE])
  /\ deliveries' = [deliveries EXCEPT ![h.delivery] = [first |-> n, duplicates |-> 0]]
  /\ Answer(s, 202, n, FALSE)
  /\ UNCHANGED <<config, now, worker, handoff, struck, faults>>

\* Mutant: a duplicate is taken off the count.
TakeCountsDown(s) ==
  LET h     == handoff[s]
      n     == Len(receipts) + 1
      again == deliveries[h.delivery] # None
  IN
  /\ s \in wire
  /\ Reception(h) = 202
  /\ wire' = wire \ {s}
  /\ receipts' = Append(receipts,
       [delivery |-> h.delivery, event |-> h.event, body |-> h.body, duplicate |-> again])
  /\ deliveries' = [deliveries EXCEPT ![h.delivery] =
       IF again THEN [first |-> @.first, duplicates |-> @.duplicates - 1]
                ELSE [first |-> n, duplicates |-> 0]]
  /\ Answer(s, 202, n, again)
  /\ UNCHANGED <<config, now, worker, handoff, struck, faults>>

\* accept: a receipt for every hand-off that verifies, all in one transaction
\* with the row of its delivery.
Take(s) ==
  LET h     == handoff[s]
      n     == Len(receipts) + 1
      again == deliveries[h.delivery] # None
  IN
  /\ s \in wire
  /\ Reception(h) = 202
  /\ wire' = wire \ {s}
  /\ receipts' = Append(receipts,
       [delivery |-> h.delivery, event |-> h.event, body |-> h.body, duplicate |-> again])
  /\ deliveries' = [deliveries EXCEPT ![h.delivery] =
       IF again THEN [first |-> @.first, duplicates |-> @.duplicates + 1]
                ELSE [first |-> n, duplicates |-> 0]]
  /\ Answer(s, 202, n, again)
  /\ UNCHANGED <<config, now, worker, handoff, struck, faults>>

\* A body beyond the limit, no secret to verify with, or a hand-off that does
\* not verify.
TurnAway(s) ==
  /\ s \in wire
  /\ Reception(handoff[s]) # 202
  /\ wire' = wire \ {s}
  /\ Answer(s, Reception(handoff[s]), None, FALSE)
  /\ UNCHANGED <<config, now, worker, handoff, antenna, struck, faults>>

\* The transaction fails, and leaves nothing.
TakeFails(s) ==
  /\ s \in wire
  /\ Reception(handoff[s]) = 202
  /\ Strike(s)
  /\ wire' = wire \ {s}
  /\ Answer(s, 500, None, FALSE)
  /\ UNCHANGED <<config, now, worker, handoff, antenna>>

-----------------------------------------------------------------------------
(* What is between them.  A hand-off whose sender has gone may still arrive. *)

\* The connection to Antenna breaks, on the way there or back: fetch or
\* json() throws.
Break(s) ==
  /\ at[s] = "fetching"
  /\ Strike(s)
  /\ Reply(s, 500)
  /\ answer' = [answer EXCEPT ![s] = None]
  /\ wire' \in {wire, wire \ {s}}
  /\ UNCHANGED <<config, now, request, handoff, antenna>>

\* A proxy in front of Antenna answers in its place.
Proxied(s) ==
  /\ at[s] = "fetching"
  /\ Strike(s)
  /\ \E a \in {<<200, "malformed">>, <<502, "other">>, <<202, "other">>, <<202, "malformed">>} :
       answer' = [answer EXCEPT ![s] =
         [status |-> a[1], kind |-> a[2], receipt |-> None, duplicate |-> FALSE]]
  /\ wire' \in {wire, wire \ {s}}
  /\ UNCHANGED <<config, now, worker, handoff, antenna>>

\* GitHub hangs up before it has an answer, and the worker is cancelled.
Cut(s) ==
  /\ at[s] \in {"reading", "signing", "fetching"}
  /\ Strike(s)
  /\ at' = [at EXCEPT ![s] = "cut"]
  /\ read' = [read EXCEPT ![s] = <<>>]
  /\ answer' = [answer EXCEPT ![s] = None]
  /\ wire' \in {wire, wire \ {s}}
  /\ UNCHANGED <<config, now, request, told, handoff, antenna>>

Tick ==
  /\ now < MaxTime
  /\ now' = now + 1
  /\ UNCHANGED <<config, worker, network, antenna, struck, faults>>

-----------------------------------------------------------------------------
WorkerStep(s) == Read(s) \/ Vet(s) \/ HandOff(s) \/ Acknowledge(s)

Trouble(s) == StreamFails(s) \/ TakeFails(s) \/ Break(s) \/ Proxied(s) \/ Cut(s)

Next ==
  \/ \E s \in Sending : \/ \E r \in MaySend[s] : Arrive(s, r)
                        \/ WorkerStep(s)
                        \/ Take(s)
                        \/ TurnAway(s)
                        \/ Trouble(s)
  \/ Tick

Spec == Init /\ [][Next]_vars

\* The runtime resumes a worker whose promise is settled, and Antenna serves
\* the hand-offs that reach it.
FairSpec ==
  /\ Spec
  /\ \A s \in Sending : WF_vars(WorkerStep(s)) /\ WF_vars(Take(s) \/ TurnAway(s))

-----------------------------------------------------------------------------
(* Properties.                                                             *)

\* Every variable has its type.
TypeOK ==
  /\ config \in [limit : Limits, maxEvent : EventLimits, key : Keys]
  /\ now \in 0..MaxTime
  /\ request \in [Sending -> RequestOrNone]
  /\ at \in [Sending -> Stages]
  /\ read \in [Sending -> Seq(Byte)]
  /\ handoff \in [Sending -> Handoffs \cup {None}]
  /\ wire \subseteq {s \in Sending : handoff[s] # None}
  /\ answer \in [Sending -> Answers \cup {None}]
  /\ told \in [Sending -> Responses \cup {None}]
  /\ receipts \in Seq(Receipts)
  /\ deliveries \in [Delivery -> Rows \cup {None}]
  /\ struck \subseteq Sending
  /\ faults \in 0..MaxFaults

\* The text is that of the bytes, two digits each.
Spells(text, bytes) ==
  /\ Len(text) = 2 * Len(bytes)
  /\ \A i \in DOMAIN bytes :
       /\ {text[2 * i - 1], text[2 * i]} \subseteq 0..21
       /\ bytes[i] = 16 * Value(text[2 * i - 1]) + Value(text[2 * i])

\* What GitHub may expect to have accepted.
Acceptable(r) ==
  /\ r.path = "/github" /\ r.method = "POST" /\ r.media = "application/json"
  /\ r.delivery # None /\ r.delivery.chars <= 200
  /\ r.event # None /\ r.event.chars <= 100
  /\ ~LimitIsBad /\ Len(r.body) <= config.limit
  /\ r.length # None => r.length # NaN /\ r.length \in 0..config.limit
  /\ r.signature # None /\ r.signature.scheme = "sha256="
  /\ Spells(r.signature.digits, Mac(GithubSecret, r.body))
  /\ Json(r.body) = "object"

Misconfigured == LimitIsBad \/ config.key # HandoffSecret

\* The hand-off is, or may have been, too old when Antenna took it.
Late(s) == handoff[s] # None /\ Age(handoff[s]) > MaxAge

\* The body is within the worker's limit and beyond Antenna's, which is set
\* apart from it.
BetweenLimits(s) ==
  handoff[s] # None /\ Len(request[s].body) \in (config.maxEvent + 1)..config.limit

\* What may keep a request from being accepted, or refused for good.
Excused(s) == s \in struck \/ Late(s) \/ BetweenLimits(s) \/ Misconfigured

Accepted(s) == told[s] # None /\ told[s].status = 202

\* What GitHub is told was accepted is stored by then, whatever happens to
\* Antenna afterwards: the receipt it is told of holds the bytes that GitHub
\* sent and signed, under its delivery and event, and is the first of its
\* delivery if and only if GitHub is told so.
AckIsDurable ==
  \A s \in Sending : Accepted(s) =>
    /\ told[s].receipt \in DOMAIN receipts
    /\ receipts[told[s].receipt] =
         [delivery |-> request[s].delivery, event |-> request[s].event,
          body |-> request[s].body, duplicate |-> told[s].duplicate]

\* However often a delivery is sent, at once or after a failure, its row
\* counts every arrival once: one of its receipts is the first, the others are
\* the duplicates, and no two sendings are told of the same one.
OneFirst ==
  /\ \A d \in Delivery :
       LET arrived == {n \in DOMAIN receipts : receipts[n].delivery = d} IN
       IF deliveries[d] = None THEN arrived = {}
       ELSE /\ {n \in arrived : ~receipts[n].duplicate} = {deliveries[d].first}
            /\ Cardinality(arrived) = deliveries[d].duplicates + 1
  /\ \A s, t \in Sending :
       s # t /\ Accepted(s) /\ Accepted(t) => told[s].receipt # told[t].receipt

\* Antenna, which does not ask GitHub, stores nothing but what GitHub signed:
\* the chunks the worker reassembles, checks, and posts are the body, and
\* nothing gets by that the worker should have refused.
OnlyVettedStored ==
  \A n \in DOMAIN receipts : \E s \in Sending :
    /\ request[s] # None
    /\ Acceptable(request[s])
    /\ receipts[n].delivery = request[s].delivery
    /\ receipts[n].event = request[s].event
    /\ receipts[n].body = request[s].body

\* GitHub is told what is so: a 4xx only of a request that will never do, and
\* a 5xx, on which it may send again, only after a fault, a delay longer than
\* a hand-off lives, or a wrong configuration: the worker's limit, the secret,
\* or a limit of Antenna's below the worker's for a body between the two.
StatusIsEarned ==
  \A s \in Sending : told[s] # None =>
    \/ told[s].status = 202 /\ Acceptable(request[s])
    \/ told[s].status \in 400..499 /\ ~Acceptable(request[s])
    \/ told[s].status \in 500..599 /\ Excused(s)

\* A request that is acceptable is accepted in the end, unless a fault hits
\* it, it is late, something is misconfigured, or its body is between the two
\* limits: the two sides agree on every digit of what one signs and the other
\* verifies.
AcceptedUnlessTroubled ==
  \A s \in Sending :
    (at[s] = "reading" /\ Acceptable(request[s])) ~> Accepted(s) \/ Excused(s)

\* What GitHub is told of a sending.
Word(s) ==
  IF told[s] = None THEN "nothing"
  ELSE IF told[s].status = 202 THEN (IF told[s].duplicate THEN "again" ELSE "new")
  ELSE IF told[s].status \in 400..499 THEN "refused"
  ELSE "failed"

Ack == INSTANCE DurableAck WITH
  about <- [s \in Sending |-> IF request[s] = None THEN None ELSE request[s].delivery],
  kept  <- [d \in Delivery |->
              IF deliveries[d] = None THEN 0 ELSE deliveries[d].duplicates + 1],
  word  <- [s \in Sending |-> Word(s)]

\* The worker and Antenna together keep the promise of DurableAck.tla.
AckPromise == Ack!Spec
=============================================================================
