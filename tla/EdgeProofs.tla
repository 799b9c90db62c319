------------------------------ MODULE EdgeProofs ------------------------------
(***************************************************************************)
(* Proofs about Edge for every value of its constants: the types, what an  *)
(* acknowledgement promises, what is stored, what each status means, and   *)
(* that Edge implements DurableAck.  The digest and the codes are any      *)
(* functions; Antenna's clock may be ahead of the worker's by any amount,  *)
(* and behind it by as much as a hand-off may be old.                      *)
(***************************************************************************)
EXTENDS Edge, SequenceTheorems, FiniteSetTheorems, TLAPS

\* The two digits of a byte give it back.
LEMMA TwoDigits ==
  ASSUME NEW b \in Byte
  PROVE  /\ b \div 16 \in 0..15 /\ b % 16 \in 0..15
         /\ 16 * Value(b \div 16) + Value(b % 16) = b
  BY DEF Byte, Value

LEMMA HexIsText ==
  ASSUME NEW d \in Digest, DigestSize \in Nat
  PROVE  /\ Hex(d) \in Texts
         /\ Len(Hex(d)) = 2 * DigestSize
         /\ \A i \in 1..DigestSize : /\ Hex(d)[2 * i - 1] = d[i] \div 16
                                     /\ Hex(d)[2 * i] = d[i] % 16
         /\ \A i \in 1..(2 * DigestSize) : Hex(d)[i] \in 0..15
<1>1. d \in Seq(Byte) /\ Len(d) = DigestSize
  BY DEF Digest
<1>2. \A i \in 1..(2 * DigestSize) :
        /\ i % 2 = 1 => (i + 1) \div 2 \in 1..DigestSize
        /\ i % 2 # 1 => i \div 2 \in 1..DigestSize
  OBVIOUS
<1>3. \A i \in 1..(2 * DigestSize) : Hex(d)[i] \in 0..15
  <2> TAKE i \in 1..(2 * DigestSize)
  <2>1. CASE i % 2 = 1
    <3>1. d[(i + 1) \div 2] \in Byte
      BY <1>2, <2>1 DEF Digest
    <3>2. Hex(d)[i] = d[(i + 1) \div 2] \div 16
      BY <1>1, <2>1 DEF Hex
    <3> QED BY <3>1, <3>2, TwoDigits
  <2>2. CASE i % 2 # 1
    <3>1. d[i \div 2] \in Byte
      BY <1>2, <2>2 DEF Digest
    <3>2. Hex(d)[i] = d[i \div 2] % 16
      BY <1>1, <2>2 DEF Hex
    <3> QED BY <3>1, <3>2, TwoDigits
  <2> QED BY <2>1, <2>2
<1>4. Len(Hex(d)) = 2 * DigestSize /\ DOMAIN Hex(d) = 1..(2 * DigestSize)
  BY <1>1 DEF Hex
<1>5. Hex(d) \in Texts
  <2>1. Hex(d) = [i \in 1..(2 * DigestSize) |-> Hex(d)[i]]
    BY <1>1 DEF Hex
  <2>2. \A i \in 1..(2 * DigestSize) : Hex(d)[i] \in 0..22
    BY <1>3
  <2>3. Hex(d) \in [1..(2 * DigestSize) -> 0..22]
    BY <2>1, <2>2
  <2> QED BY <2>3 DEF Texts
<1>6. \A i \in 1..DigestSize : /\ Hex(d)[2 * i - 1] = d[i] \div 16
                               /\ Hex(d)[2 * i] = d[i] % 16
  <2> TAKE i \in 1..DigestSize
  <2>1. /\ 2 * i - 1 \in 1..(2 * DigestSize) /\ (2 * i - 1) % 2 = 1
        /\ (2 * i - 1 + 1) \div 2 = i
    OBVIOUS
  <2>2. 2 * i \in 1..(2 * DigestSize) /\ (2 * i) % 2 # 1 /\ (2 * i) \div 2 = i
    OBVIOUS
  <2> QED BY <1>1, <2>1, <2>2 DEF Hex
<1> QED BY <1>3, <1>4, <1>5, <1>6

\* Antenna reads back what the worker wrote.
LEMMA RoundTrip ==
  ASSUME NEW d \in Digest, DigestSize \in Nat
  PROVE  HexDecode(Hex(d)) = d
<1>1. /\ Hex(d) \in Seq(0..22) /\ Len(Hex(d)) = 2 * DigestSize
      /\ \A i \in 1..DigestSize : /\ Hex(d)[2 * i - 1] = d[i] \div 16
                                  /\ Hex(d)[2 * i] = d[i] % 16
      /\ \A i \in 1..(2 * DigestSize) : Hex(d)[i] \in 0..15
  BY HexIsText DEF Texts
<1>2. DOMAIN Hex(d) = 1..(2 * DigestSize)
  BY <1>1
<1>3. (2 * DigestSize) % 2 = 0 /\ (2 * DigestSize) \div 2 = DigestSize
  OBVIOUS
<1>4. HexDecode(Hex(d)) =
        [i \in 1..DigestSize |-> 16 * Value(Hex(d)[2 * i - 1]) + Value(Hex(d)[2 * i])]
  <2> DEFINE text == Hex(d)
  <2>1. Len(text) = 2 * DigestSize /\ DOMAIN text = 1..(2 * DigestSize)
        /\ \A i \in 1..(2 * DigestSize) : text[i] \in 0..15
    BY <1>1, <1>2
  <2> HIDE DEF text
  <2>2. Len(text) % 2 = 0 /\ Len(text) \div 2 = DigestSize
    BY <1>3, <2>1
  <2>3. \A i \in DOMAIN text : text[i] \in 0..21
    <3>1. 0..15 \subseteq 0..21
      OBVIOUS
    <3> QED BY <2>1, <3>1, Zenon
  <2>4. HexDecode(text) =
          [i \in 1..DigestSize |-> 16 * Value(text[2 * i - 1]) + Value(text[2 * i])]
    BY <2>2, <2>3 DEF HexDecode
  <2> QED BY <2>4 DEF text
<1>5. \A i \in 1..DigestSize : 16 * Value(Hex(d)[2 * i - 1]) + Value(Hex(d)[2 * i]) = d[i]
  <2> TAKE i \in 1..DigestSize
  <2>1. d[i] \in Byte
    BY DEF Digest
  <2> QED BY <1>1, <2>1, TwoDigits
<1>6. d = [i \in 1..DigestSize |-> d[i]]
  BY DEF Digest
<1>7. HexDecode(Hex(d)) = [i \in 1..DigestSize |-> d[i]]
  BY <1>4, <1>5
<1> QED BY <1>6, <1>7

\* Both sides write a digest alike.
LEMMA SameText ==
  ASSUME NEW b, Sha(b) \in Digest, DigestSize \in Nat
  PROVE  Sha256Hex(b) = Hex(Sha(b))
<1>1. Len(Sha(b)) = DigestSize
  BY DEF Digest
<1>2. \A i \in 1..(2 * DigestSize) : i % 2 = 1 \/ i % 2 = 0
  OBVIOUS
<1> QED BY <1>1, <1>2 DEF Sha256Hex, Hex

\* Every digit is one of a byte's two.
LEMMA PairOf ==
  ASSUME NEW n \in Nat, NEW k \in 1..(2 * n)
  PROVE  \E i \in 1..n : k = 2 * i - 1 \/ k = 2 * i
<1>1. PICK q \in Int : k = 2 * q \/ k = 2 * q + 1
  <2>1. k \div 2 \in Int /\ (k = 2 * (k \div 2) \/ k = 2 * (k \div 2) + 1)
    OBVIOUS
  <2> QED BY <2>1
<1>2. CASE k = 2 * q
  <2>1. q \in 1..n
    BY <1>1, <1>2
  <2> QED BY <1>2, <2>1
<1>3. CASE k = 2 * q + 1
  <2>1. q + 1 \in 1..n /\ k = 2 * (q + 1) - 1
    BY <1>1, <1>3
  <2> QED BY <2>1
<1> QED BY <1>1, <1>2, <1>3

\* The worker takes a signature if and only if it spells the digest.
LEMMA UnhexSpells ==
  ASSUME NEW t \in Seq(0..22), NEW m \in Digest, None \notin Digest, DigestSize \in Nat
  PROVE  (Unhex(t) # None /\ Unhex(t) = m) <=> Spells(t, m)
<1>1. m = [i \in 1..DigestSize |-> m[i]] /\ Len(m) = DigestSize /\ DOMAIN m = 1..DigestSize
  BY DEF Digest
<1>2. DOMAIN t = 1..Len(t) /\ Len(t) \in Nat
  OBVIOUS
<1> DEFINE sum(i) == 16 * Value(t[2 * i - 1]) + Value(t[2 * i])
           all == \A i \in DOMAIN t : t[i] \in 0..21
<1>3. CASE Len(t) = 2 * DigestSize
  <2>1. all <=> \A i \in 1..DigestSize : {t[2 * i - 1], t[2 * i]} \subseteq 0..21
    <3>1. \A i \in 1..DigestSize : 2 * i - 1 \in DOMAIN t /\ 2 * i \in DOMAIN t
      BY <1>2, <1>3
    <3>2. \A k \in DOMAIN t : \E i \in 1..DigestSize : k = 2 * i - 1 \/ k = 2 * i
      <4> TAKE k \in DOMAIN t
      <4>1. k \in 1..(2 * DigestSize)
        BY <1>2, <1>3
      <4> QED BY <4>1, PairOf
    <3> QED BY <3>1, <3>2
  <2>2. Unhex(t) = IF all THEN [i \in 1..DigestSize |-> sum(i)] ELSE None
    BY <1>3 DEF Unhex
  <2>3. [i \in 1..DigestSize |-> sum(i)] = m <=> \A i \in 1..DigestSize : m[i] = sum(i)
    BY <1>1
  <2>4. Spells(t, m) <=>
          \A i \in 1..DigestSize : {t[2 * i - 1], t[2 * i]} \subseteq 0..21 /\ m[i] = sum(i)
    BY <1>1, <1>3 DEF Spells
  <2>5. CASE all
    BY <2>1, <2>2, <2>3, <2>4, <2>5
  <2>6. CASE ~all
    BY <2>1, <2>2, <2>4, <2>6
  <2> QED BY <2>5, <2>6
<1>4. CASE Len(t) # 2 * DigestSize
  BY <1>1, <1>4 DEF Unhex, Spells
<1> QED BY <1>3, <1>4

-----------------------------------------------------------------------------
(* Clocks.                                                                 *)

LEMMA DivMonotone ==
  ASSUME NEW a \in Int, NEW b \in Int, a <= b, NEW p \in Nat \ {0}
  PROVE  a \div p <= b \div p /\ a \div p \in Int /\ b \div p \in Int
<1>1. /\ a \div p \in Int /\ a % p \in 0..(p - 1) /\ a = p * (a \div p) + (a % p)
      /\ b \div p \in Int /\ b % p \in 0..(p - 1) /\ b = p * (b \div p) + (b % p)
  OBVIOUS
<1>2. SUFFICES ASSUME b \div p + 1 <= a \div p PROVE FALSE
  BY <1>1
<1>3. p * (b \div p + 1) <= p * (a \div p)
  BY <1>1, <1>2
<1>4. p * (b \div p + 1) = p * (b \div p) + p
  BY <1>1
<1> QED BY <1>1, <1>3, <1>4

LEMMA DivUnique ==
  ASSUME NEW a \in Int, NEW p \in Nat \ {0}, NEW q \in Int, NEW m \in 0..(p - 1),
         a = p * q + m
  PROVE  a \div p = q
<1>1. /\ a \div p \in Int /\ a % p \in 0..(p - 1)
      /\ a = p * (a \div p) + (a % p)
  OBVIOUS
<1>2. CASE a \div p < q
  <2>1. a \div p + 1 <= q
    BY <1>1, <1>2
  <2>2. p * (a \div p + 1) <= p * q /\ p * (a \div p + 1) = p * (a \div p) + p
    BY <1>1, <2>1
  <2> QED BY <1>1, <2>2
<1>3. CASE q < a \div p
  <2>1. q + 1 <= a \div p
    BY <1>1, <1>3
  <2>2. p * (q + 1) <= p * (a \div p) /\ p * (q + 1) = p * q + p
    BY <1>1, <2>1
  <2> QED BY <1>1, <2>2
<1> QED BY <1>1, <1>2, <1>3

-----------------------------------------------------------------------------
(* What a request is before, and after, it is read.                        *)

\* All of Acceptable that is known before the body is read.
Presentable(r) ==
  /\ r.path = "/github" /\ r.method = "POST" /\ r.media = "application/json"
  /\ r.delivery # None /\ r.delivery.chars <= 200
  /\ r.event # None /\ r.event.chars <= 100
  /\ r.signature # None
  /\ config.limit \in Nat
  /\ r.length # None => r.length # NaN /\ r.length \in 0..config.limit
  /\ ~LimitIsBad

LEMMA VerdictIsFair ==
  ASSUME NEW r \in Request, config.limit \in Int \cup {NaN}
  PROVE  /\ Verdict(r) = 0 => Presentable(r)
         /\ Verdict(r) # 0 =>
              \/ Verdict(r) \in 400..499 /\ ~Acceptable(r)
              \/ Verdict(r) = 503 /\ LimitIsBad
<1>1. /\ r.delivery # None => r.delivery.chars \in Nat
      /\ r.event # None => r.event.chars \in Nat
      /\ r.length \in Int \cup {None, NaN}
      /\ NaN \notin Int /\ None \notin Int
  BY RequestAssumption, ConfigAssumption, NoneAssumption
<1>2. CASE r.path # "/github" \/ r.method # "POST" \/ Missing(r)
  <2>1. ~Acceptable(r)
    BY <1>2 DEF Acceptable, Missing
  <2>2. Verdict(r) \in {400, 404, 405}
    BY <1>2 DEF Verdict
  <2> QED BY <2>1, <2>2
<1>3. CASE r.path = "/github" /\ r.method = "POST" /\ ~Missing(r)
  <2>1. r.delivery # None /\ r.event # None /\ r.signature # None
    BY <1>3 DEF Missing
  <2>2. CASE Invalid(r)
    BY <1>1, <1>3, <2>1, <2>2 DEF Verdict, Acceptable, Invalid
  <2>3. CASE ~Invalid(r) /\ LimitIsBad
    BY <1>1, <1>3, <2>1, <2>3 DEF Verdict
  <2>4. CASE ~Invalid(r) /\ ~LimitIsBad
    <3>1. /\ r.delivery.chars <= 200 /\ r.event.chars <= 100 /\ r.media = "application/json"
          /\ config.limit \in Nat
      BY <1>1, <2>1, <2>4 DEF Invalid, LimitIsBad
    <3>2. CASE r.length = None
      BY <1>1, <1>3, <2>1, <2>4, <3>1, <3>2 DEF Verdict, Presentable
    <3>3. CASE r.length # None /\ (r.length = NaN \/ r.length < 0)
      <4>1. Verdict(r) = 400
        BY <1>3, <2>1, <2>4, <3>3 DEF Verdict
      <4> QED BY <1>1, <3>1, <3>3, <4>1 DEF Acceptable
    <3>4. CASE r.length # None /\ ~(r.length = NaN \/ r.length < 0)
      BY <1>1, <1>3, <2>1, <2>4, <3>1, <3>4 DEF Verdict, Presentable, Acceptable
    <3> QED BY <3>2, <3>3, <3>4
  <2> QED BY <2>2, <2>3, <2>4
<1> QED BY <1>2, <1>3

\* With the body read, Vet decides.
LEMMA VetIsFair ==
  ASSUME NEW r \in Request, Presentable(r), Len(r.body) <= config.limit
  PROVE  Acceptable(r) <=> VerifyGithub(r.body, r.signature) /\ Json(r.body) = "object"
<1>1. /\ r.signature.digits \in Seq(0..22)
      /\ Mac(GithubSecret, r.body) \in Digest /\ None \notin Digest /\ DigestSize \in Nat
  BY RequestAssumption, DigestAssumption, NoneAssumption DEF Presentable
<1>2. (Unhex(r.signature.digits) # None
         /\ Unhex(r.signature.digits) = Mac(GithubSecret, r.body))
        <=> Spells(r.signature.digits, Mac(GithubSecret, r.body))
  BY <1>1, UnhexSpells
<1> QED BY <1>2 DEF Presentable, Acceptable, VerifyGithub

-----------------------------------------------------------------------------
(* The inductive invariant.                                                *)

\* What is posted for a request at second t.
Posted(r, t) ==
  LET digest == Hex(Sha(r.body)) IN
  [stamp |-> t, delivery |-> r.delivery, event |-> r.event,
   digest |-> digest, scheme |-> "v1=",
   digits |-> Hex(Mac(HandoffSecret, Canonical(t, r.delivery, r.event, digest))),
   body |-> r.body]

\* Receipt n holds what sending s asked to have kept.
Holds(s, n, duplicate) ==
  /\ n \in DOMAIN receipts
  /\ receipts[n] = [delivery |-> request[s].delivery, event |-> request[s].event,
                    body |-> request[s].body, duplicate |-> duplicate]

\* How far the worker is, and what it knows by then.
StageOK(s) ==
  /\ at[s] = "idle" <=> request[s] = None
  /\ at[s] = "done" <=> told[s] # None
  /\ at[s] \in {"idle", "reading", "signing"} => handoff[s] = None
  /\ at[s] = "fetching" => handoff[s] # None
  /\ at[s] # "fetching" => answer[s] = None
  /\ at[s] = "reading" =>
       /\ Presentable(request[s])
       /\ Len(read[s]) <= config.limit
       /\ Len(read[s]) <= Len(request[s].body)
       /\ \A i \in 1..Len(read[s]) : read[s][i] = request[s].body[i]
  /\ at[s] = "idle" => read[s] = <<>>
  /\ at[s] = "signing" => Acceptable(request[s]) /\ read[s] = request[s].body

HandoffOK(s) ==
  handoff[s] # None =>
    /\ Acceptable(request[s])
    /\ \E t \in 0..MaxTime : t <= now \div PerSecond /\ handoff[s] = Posted(request[s], t)

AnswerOK(s) ==
  answer[s] # None =>
    IF answer[s].status = 202 /\ answer[s].kind = "object"
    THEN Holds(s, answer[s].receipt, answer[s].duplicate)
    ELSE Excused(s)

ToldOK(s) ==
  told[s] # None =>
    \/ /\ told[s].status = 202 /\ Acceptable(request[s])
       /\ Holds(s, told[s].receipt, told[s].duplicate)
    \/ told[s].status \in 400..499 /\ ~Acceptable(request[s])
    \/ told[s].status \in 500..599 /\ Excused(s)

\* The receipts the worker was, or GitHub is, told of; they are of one sending.
Named(s) ==
  {n \in DOMAIN receipts :
     \/ answer[s] # None /\ answer[s].status = 202 /\ answer[s].kind = "object"
        /\ answer[s].receipt = n
     \/ told[s] # None /\ told[s].status = 202 /\ told[s].receipt = n}
NamesApart == \A s, t \in Sending : s # t => Named(s) \cap Named(t) = {}

\* The receipts of a delivery, its row, and what they say of each other.
Arrived(d) == {n \in DOMAIN receipts : receipts[n].delivery = d}
RowOK(d) ==
  IF deliveries[d] = None THEN Arrived(d) = {}
  ELSE /\ {n \in Arrived(d) : ~receipts[n].duplicate} = {deliveries[d].first}
       /\ Cardinality(Arrived(d)) = deliveries[d].duplicates + 1
       /\ (\E n \in Arrived(d) : receipts[n].duplicate) => deliveries[d].duplicates > 0

Inv ==
  /\ TypeOK
  /\ \A s \in Sending : StageOK(s) /\ HandoffOK(s) /\ AnswerOK(s) /\ ToldOK(s)
  /\ NamesApart
  /\ \A d \in Delivery : RowOK(d)
  /\ OnlyVettedStored

SendingOK(s) == StageOK(s) /\ HandoffOK(s) /\ AnswerOK(s) /\ ToldOK(s)

LEMMA InitInv == Init => Inv
<1> SUFFICES ASSUME Init PROVE Inv
  OBVIOUS
<1>1. TypeOK
  BY BoundsAssumption DEF Init, TypeOK, RequestOrNone, Stages
<1>2. ASSUME NEW s \in Sending PROVE SendingOK(s) /\ Named(s) = {}
  BY DEF Init, SendingOK, StageOK, HandoffOK, AnswerOK, ToldOK, Named
<1>3. NamesApart
  BY <1>2 DEF NamesApart
<1>4. \A d \in Delivery : RowOK(d)
  BY DEF Init, RowOK, Arrived
<1>5. OnlyVettedStored
  BY DEF Init, OnlyVettedStored
<1> QED BY <1>1, <1>2, <1>3, <1>4, <1>5 DEF Inv, SendingOK

-----------------------------------------------------------------------------
(* What a step leaves as it was.                                           *)

\* Time goes on, what is struck stays struck, and receipts are only added.
Onward ==
  /\ config' = config
  /\ now \in Int /\ now' \in Int /\ now <= now'
  /\ struck \subseteq struck'
  /\ \A n \in DOMAIN receipts : n \in DOMAIN receipts' /\ receipts'[n] = receipts[n]

Untouched(t) ==
  /\ request'[t] = request[t] /\ at'[t] = at[t] /\ read'[t] = read[t]
  /\ handoff'[t] = handoff[t] /\ answer'[t] = answer[t] /\ told'[t] = told[t]

LEMMA ConfigKept ==
  ASSUME config' = config
  PROVE  /\ \A r : Acceptable(r)' <=> Acceptable(r)
         /\ \A r : Presentable(r)' <=> Presentable(r)
         /\ Misconfigured' <=> Misconfigured
  BY DEF Acceptable, Presentable, Misconfigured, LimitIsBad

\* Antenna's clock, in seconds, does not go back.
LEMMA SecondsGoOn ==
  ASSUME Onward
  PROVE  /\ (now + Skew) \div PerSecond <= (now' + Skew) \div PerSecond
         /\ (now + Skew) \div PerSecond \in Int /\ (now' + Skew) \div PerSecond \in Int
<1>1. PerSecond \in Nat \ {0} /\ Skew \in Int
  BY ClockAssumption
<1>2. now \in Int /\ now' \in Int /\ now <= now'
  BY DEF Onward
<1>3. ASSUME NEW m \in Int, NEW n \in Int, m <= n
      PROVE  /\ (m + Skew) \div PerSecond <= (n + Skew) \div PerSecond
             /\ (m + Skew) \div PerSecond \in Int /\ (n + Skew) \div PerSecond \in Int
  <2>1. m + Skew \in Int /\ n + Skew \in Int /\ m + Skew <= n + Skew
    BY <1>1, <1>3
  <2> QED BY <1>1, <2>1, DivMonotone
<1> QED BY <1>2, <1>3

LEMMA ExcuseKept ==
  ASSUME Inv, Onward, NEW t \in Sending,
         handoff'[t] = handoff[t], request'[t] = request[t]
  PROVE  Excused(t) => Excused(t)'
<1>1. PerSecond \in Nat \ {0} /\ Skew \in Int /\ MaxAge \in Nat
  BY ClockAssumption
<1>2. (now + Skew) \div PerSecond <= (now' + Skew) \div PerSecond
      /\ (now + Skew) \div PerSecond \in Int /\ (now' + Skew) \div PerSecond \in Int
  BY SecondsGoOn
<1>3. handoff[t] # None => handoff[t].stamp \in Int
  <2>1. handoff[t] \in Handoffs \cup {None}
    BY DEF Inv, TypeOK
  <2> QED BY <2>1 DEF Handoffs
<1>4. Late(t) => Late(t)'
  BY <1>1, <1>2, <1>3 DEF Late, Age
<1>5. t \in struck => t \in struck'
  BY DEF Onward
<1>6. Misconfigured => Misconfigured'
  BY ConfigKept DEF Onward
<1>7. BetweenLimits(t) => BetweenLimits(t)'
  BY DEF Onward, BetweenLimits
<1> QED BY <1>4, <1>5, <1>6, <1>7 DEF Excused

LEMMA HoldsKept ==
  ASSUME Onward, NEW t \in Sending, request'[t] = request[t], NEW n, NEW b
  PROVE  Holds(t, n, b) => Holds(t, n, b)'
  BY DEF Onward, Holds

LEMMA StillPosted ==
  ASSUME Inv, Onward, NEW t \in Sending, handoff[t] # None,
         handoff'[t] = handoff[t], request'[t] = request[t]
  PROVE  HandoffOK(t)'
<1>1. Acceptable(request[t])
      /\ \E u \in 0..MaxTime : u <= now \div PerSecond /\ handoff[t] = Posted(request[t], u)
  BY DEF Inv, HandoffOK
<1>2. PerSecond \in Nat \ {0} /\ MaxTime \in Nat
  BY ClockAssumption, BoundsAssumption
<1>3. now \div PerSecond <= now' \div PerSecond
      /\ now \div PerSecond \in Int /\ now' \div PerSecond \in Int
  BY <1>2, DivMonotone DEF Onward
<1>4. Acceptable(request[t])'
  BY <1>1, ConfigKept DEF Onward
<1>5. PICK u \in 0..MaxTime : u <= now \div PerSecond /\ handoff[t] = Posted(request[t], u)
  BY <1>1
<1>6. u <= now' \div PerSecond
  BY <1>2, <1>3, <1>5
<1>7. handoff'[t] = Posted(request'[t], u)
  BY <1>5
<1> QED BY <1>4, <1>6, <1>7 DEF HandoffOK, Posted

\* A sending that a step does not touch keeps what is known of it, and what
\* its answers name.
LEMMA Frame ==
  ASSUME Inv, Onward, NEW t \in Sending, Untouched(t)
  PROVE  SendingOK(t)' /\ Named(t)' = Named(t)
<1>1. SendingOK(t)
  BY DEF Inv, SendingOK
<1>2. StageOK(t)'
  BY <1>1, ConfigKept DEF SendingOK, StageOK, Untouched, Onward
<1>3. HandoffOK(t)'
  <2>1. CASE handoff[t] = None
    BY <2>1 DEF Untouched, HandoffOK
  <2>2. CASE handoff[t] # None
    BY <2>2, StillPosted DEF Untouched
  <2> QED BY <2>1, <2>2
<1>4. AnswerOK(t)'
  BY <1>1, HoldsKept, ExcuseKept DEF SendingOK, AnswerOK, Untouched
<1>5. ToldOK(t)'
  BY <1>1, HoldsKept, ExcuseKept, ConfigKept DEF SendingOK, ToldOK, Untouched, Onward
<1>6. Named(t)' = Named(t)
  <2>1. \A n : n \in Named(t)' <=> n \in Named(t)
    BY <1>1 DEF SendingOK, AnswerOK, ToldOK, Holds, Named, Untouched, Onward
  <2> QED BY <2>1
<1> QED BY <1>2, <1>3, <1>4, <1>5, <1>6 DEF SendingOK

\* Antenna stands still, and each sending is as it should be.
LEMMA AntennaStands ==
  ASSUME Inv, Onward, UNCHANGED antenna, TypeOK',
         \A t \in Sending : /\ SendingOK(t)' /\ Named(t)' \subseteq Named(t)
                            /\ request[t] # None => request'[t] = request[t]
  PROVE  Inv'
<1>1. NamesApart'
  BY DEF Inv, NamesApart
<1>2. \A d \in Delivery : RowOK(d)'
  BY DEF Inv, RowOK, Arrived, antenna
<1>3. OnlyVettedStored'
  <2> SUFFICES ASSUME NEW n \in DOMAIN receipts
               PROVE  \E t \in Sending :
                        /\ request'[t] # None
                        /\ Acceptable(request[t])'
                        /\ receipts[n].delivery = request'[t].delivery
                        /\ receipts[n].event = request'[t].event
                        /\ receipts[n].body = request'[t].body
    BY DEF OnlyVettedStored, antenna
  <2>1. PICK t \in Sending : /\ request[t] # None
                             /\ Acceptable(request[t])
                             /\ receipts[n].delivery = request[t].delivery
                             /\ receipts[n].event = request[t].event
                             /\ receipts[n].body = request[t].body
    BY DEF Inv, OnlyVettedStored
  <2>2. request'[t] = request[t]
    BY <2>1
  <2>3. Acceptable(request[t])'
    BY <2>1, <2>2, ConfigKept DEF Onward
  <2> QED BY <2>1, <2>2, <2>3
<1> QED BY <1>1, <1>2, <1>3 DEF Inv, SendingOK

\* A step of the worker on s, or of what is between it and Antenna.
LEMMA OneMoves ==
  ASSUME Inv, Onward, UNCHANGED antenna, NEW s \in Sending,
         \A t \in Sending \ {s} : Untouched(t),
         TypeOK', SendingOK(s)', Named(s)' \subseteq Named(s),
         request[s] # None => request'[s] = request[s]
  PROVE  Inv'
<1>1. \A t \in Sending \ {s} : SendingOK(t)' /\ Named(t)' = Named(t) /\ request'[t] = request[t]
  BY Frame DEF Untouched
<1>2. \A t \in Sending : /\ SendingOK(t)' /\ Named(t)' \subseteq Named(t)
                         /\ request[t] # None => request'[t] = request[t]
  BY <1>1
<1> QED BY <1>2, AntennaStands

LEMMA RepliesType ==
  /\ \A status \in Nat :
       [status |-> status, receipt |-> None, duplicate |-> FALSE] \in Responses
  /\ \A status, n \in Nat, b \in BOOLEAN :
       [status |-> status, receipt |-> n, duplicate |-> b] \in Responses
  BY DEF Responses

\* What it takes to be done with s.
LEMMA ToldForm ==
  ASSUME TypeOK, NEW s \in Sending, NEW response \in Responses, Tell(s, response)
  PROVE  /\ at' \in [Sending -> Stages] /\ at'[s] = "done"
         /\ read' \in [Sending -> Seq(Byte)] /\ read'[s] = <<>>
         /\ told' \in [Sending -> Responses \cup {None}] /\ told'[s] = response
         /\ \A t \in Sending \ {s} : at'[t] = at[t] /\ read'[t] = read[t] /\ told'[t] = told[t]
<1>1. <<>> \in Seq(Byte) /\ "done" \in Stages
  BY DEF Stages
<1> QED BY <1>1 DEF TypeOK, Tell

LEMMA ReplyForm ==
  ASSUME TypeOK, NEW s \in Sending, NEW status \in Nat, Reply(s, status)
  PROVE  /\ at' \in [Sending -> Stages] /\ at'[s] = "done"
         /\ read' \in [Sending -> Seq(Byte)]
         /\ told' \in [Sending -> Responses \cup {None}]
         /\ told'[s] # None /\ told'[s].status = status
         /\ \A t \in Sending \ {s} : at'[t] = at[t] /\ read'[t] = read[t] /\ told'[t] = told[t]
<1> DEFINE response == [status |-> status, receipt |-> None, duplicate |-> FALSE]
<1>1. response \in Responses /\ response.status = status
  BY RepliesType
<1>2. response # None
  BY <1>1, NoneAssumption
<1>3. Tell(s, response)
  BY DEF Reply
<1> HIDE DEF response
<1> QED BY <1>1, <1>2, <1>3, ToldForm

LEMMA ArriveInv ==
  ASSUME Inv, NEW s \in Sending, NEW r \in MaySend[s], Arrive(s, r)
  PROVE  Inv'
<1>1. r \in Request /\ r # None /\ None \notin Responses
  BY RequestAssumption, NoneAssumption
<1>2. SendingOK(s) /\ request[s] = None /\ told[s] = None /\ answer[s] = None
      /\ handoff[s] = None /\ at[s] = "idle" /\ read[s] = <<>>
  BY DEF Inv, SendingOK, StageOK, Arrive
<1>3. Onward /\ UNCHANGED antenna
  BY DEF Inv, TypeOK, Onward, Arrive, antenna
<1>4. config.limit \in Int \cup {NaN}
  BY ConfigAssumption DEF Inv, TypeOK
<1>5. request' \in [Sending -> RequestOrNone] /\ request'[s] = r
      /\ \A t \in Sending \ {s} : request'[t] = request[t]
  BY <1>1 DEF Inv, TypeOK, Arrive, RequestOrNone
<1>6. UNCHANGED <<handoff, wire, answer, now, config, receipts, deliveries, struck, faults>>
  BY DEF Arrive, network, antenna
<1>7. CASE Verdict(r) = 0
  <2>1. /\ at' \in [Sending -> Stages] /\ at'[s] = "reading"
        /\ \A t \in Sending \ {s} : at'[t] = at[t]
        /\ UNCHANGED <<read, told>>
    BY <1>7 DEF Inv, TypeOK, Stages, Arrive
  <2>2. Presentable(r)'
    BY <1>1, <1>4, <1>7, VerdictIsFair, ConfigKept, <1>3 DEF Onward
  <2>3. r.body \in Seq(Byte)
    BY <1>1, RequestAssumption
  <2>4. config'.limit \in Nat
    BY <2>2 DEF Presentable
  <2>5. SendingOK(s)'
    BY <1>1, <1>2, <1>5, <1>6, <2>1, <2>2, <2>3, <2>4
       DEF SendingOK, StageOK, HandoffOK, AnswerOK, ToldOK
  <2>6. TypeOK' /\ \A t \in Sending \ {s} : Untouched(t)
    BY <1>5, <1>6, <2>1 DEF Inv, TypeOK, Untouched
  <2>7. Named(s)' \subseteq Named(s)
    BY <1>2, <1>6, <2>1 DEF Named
  <2> QED BY <1>2, <1>3, <2>5, <2>6, <2>7, OneMoves
<1>8. CASE Verdict(r) # 0
  <2> DEFINE status == Verdict(r)
  <2>1. \/ status \in 400..499 /\ ~Acceptable(r)
        \/ status = 503 /\ LimitIsBad
    BY <1>1, <1>4, <1>8, VerdictIsFair
  <2>2. status \in Nat
    BY <2>1
  <2>3. Reply(s, status)
    BY <1>8 DEF Arrive
  <2>4. status # 202
    <3>1. CASE status \in 400..499
      BY <3>1
    <3>2. CASE status = 503
      BY <3>2
    <3> QED BY <2>1, <3>1, <3>2
  <2> HIDE DEF status
  <2>5. /\ at' \in [Sending -> Stages] /\ at'[s] = "done"
        /\ read' \in [Sending -> Seq(Byte)]
        /\ told' \in [Sending -> Responses \cup {None}]
        /\ told'[s] # None /\ told'[s].status = status
        /\ \A t \in Sending \ {s} : at'[t] = at[t] /\ read'[t] = read[t] /\ told'[t] = told[t]
    BY <2>2, <2>3, ReplyForm DEF Inv
  <2>7. ToldOK(s)'
    <3>1. LimitIsBad => Misconfigured'
      BY <1>3, ConfigKept DEF Onward, Misconfigured
    <3>2. Acceptable(r)' <=> Acceptable(r)
      BY <1>3, ConfigKept DEF Onward
    <3> QED BY <2>1, <2>5, <3>1, <3>2, <1>5 DEF ToldOK, Excused
  <2>8. SendingOK(s)'
    BY <1>1, <1>2, <1>5, <1>6, <2>5, <2>7
       DEF SendingOK, StageOK, HandoffOK, AnswerOK
  <2>9. TypeOK' /\ \A t \in Sending \ {s} : Untouched(t)
    BY <1>5, <1>6, <2>5 DEF Inv, TypeOK, Untouched
  <2>10. Named(s)' \subseteq Named(s)
    <3>1. told'[s].status # 202
      BY <2>4, <2>5
    <3>2. answer'[s] = None
      BY <1>2, <1>6
    <3> QED BY <3>1, <3>2 DEF Named
  <2> QED BY <1>2, <1>3, <2>8, <2>9, <2>10, OneMoves
<1> QED BY <1>7, <1>8

\* Every way to be done with s without a receipt.
LEMMA ReplyInv ==
  ASSUME Inv, NEW s \in Sending, NEW status \in Nat, Reply(s, status),
         at[s] \in {"reading", "fetching"},
         UNCHANGED <<config, now, request, handoff, antenna>>,
         wire' \subseteq wire,
         answer' \in {answer, [answer EXCEPT ![s] = None]}, answer'[s] = None,
         struck \subseteq struck', struck' \subseteq Sending, faults' \in 0..MaxFaults,
         \/ status \in 400..499 /\ ~Acceptable(request[s])
         \/ status \in 500..599 /\ Excused(s)'
  PROVE  Inv'
<1>1. TypeOK /\ SendingOK(s)
  BY DEF Inv, SendingOK
<1>2. /\ at' \in [Sending -> Stages] /\ at'[s] = "done"
      /\ read' \in [Sending -> Seq(Byte)]
      /\ told' \in [Sending -> Responses \cup {None}]
      /\ told'[s] # None /\ told'[s].status = status
      /\ \A t \in Sending \ {s} : at'[t] = at[t] /\ read'[t] = read[t] /\ told'[t] = told[t]
  BY <1>1, ReplyForm
<1>3. Onward /\ UNCHANGED antenna
  BY <1>1 DEF TypeOK, Onward, antenna
<1>4. answer' \in [Sending -> Answers \cup {None}]
      /\ \A t \in Sending \ {s} : answer'[t] = answer[t]
  <2>1. CASE answer' = answer
    BY <1>1, <2>1 DEF TypeOK
  <2>2. CASE answer' = [answer EXCEPT ![s] = None]
    BY <1>1, <2>2 DEF TypeOK
  <2> QED BY <2>1, <2>2
<1>5. TypeOK'
  BY <1>1, <1>2, <1>4 DEF TypeOK, antenna
<1>6. \A t \in Sending \ {s} : Untouched(t)
  BY <1>2, <1>4 DEF Untouched
<1>7. Acceptable(request[s])' <=> Acceptable(request[s])
  BY <1>3, ConfigKept DEF Onward
<1>8. ToldOK(s)'
  BY <1>2, <1>7 DEF ToldOK
<1>9. HandoffOK(s)'
  <2>1. CASE handoff[s] = None
    BY <2>1 DEF HandoffOK
  <2>2. CASE handoff[s] # None
    BY <1>3, <2>2, StillPosted
  <2> QED BY <2>1, <2>2
<1>10. SendingOK(s)'
  BY <1>1, <1>2, <1>8, <1>9 DEF SendingOK, StageOK, AnswerOK
<1>11. Named(s)' \subseteq Named(s)
  <2>1. status # 202
    <3>1. CASE status \in 400..499
      BY <3>1
    <3>2. CASE status \in 500..599
      BY <3>2
    <3> QED BY <3>1, <3>2
  <2>2. told'[s].status # 202 /\ answer'[s] = None
    BY <1>2, <2>1
  <2> QED BY <2>2 DEF Named
<1> QED BY <1>3, <1>5, <1>6, <1>10, <1>11, OneMoves

\* The bytes read are those of the body, as far as they go.
LEMMA ChunkInPlace ==
  ASSUME NEW have \in Seq(Byte), NEW body \in Seq(Byte),
         Len(have) <= Len(body), \A i \in 1..Len(have) : have[i] = body[i],
         NEW n \in (Len(have) + 1)..Len(body)
  PROVE  LET more == have \o SubSeq(body, Len(have) + 1, n) IN
         /\ more \in Seq(Byte) /\ Len(more) = n
         /\ \A i \in 1..n : more[i] = body[i]
<1> DEFINE chunk == SubSeq(body, Len(have) + 1, n)
<1>1. /\ chunk \in Seq(Byte) /\ Len(chunk) = n - Len(have)
      /\ \A i \in 1..(n - Len(have)) : chunk[i] = body[Len(have) + i]
  BY SubSeqProperties
<1>2. have \o chunk \in Seq(Byte) /\ Len(have \o chunk) = n
      /\ \A i \in 1..n : (have \o chunk)[i] =
           IF i <= Len(have) THEN have[i] ELSE chunk[i - Len(have)]
  <2>1. chunk \in Seq(Byte) /\ Len(have) + Len(chunk) = n
    BY <1>1
  <2> HIDE DEF chunk
  <2> QED BY <2>1, ConcatProperties
<1>3. ASSUME NEW i \in 1..n PROVE (have \o chunk)[i] = body[i]
  <2>1. i \in Nat /\ Len(have) \in Nat /\ n \in Int
    OBVIOUS
  <2>2. CASE i <= Len(have)
    <3>1. i \in 1..Len(have)
      BY <2>1, <2>2
    <3> QED BY <1>2, <2>2, <3>1
  <2>3. CASE ~(i <= Len(have))
    <3>1. i - Len(have) \in 1..(n - Len(have)) /\ Len(have) + (i - Len(have)) = i
      BY <2>1, <2>3
    <3>2. chunk[i - Len(have)] = body[i]
      BY <1>1, <3>1
    <3> QED BY <1>2, <2>3, <3>2
  <2> QED BY <2>2, <2>3
<1> QED BY <1>2, <1>3

LEMMA ReadInv ==
  ASSUME Inv, NEW s \in Sending, Read(s)
  PROVE  Inv'
<1>1. /\ TypeOK /\ SendingOK(s) /\ at[s] = "reading" /\ request[s] # None
      /\ answer[s] = None /\ told[s] = None /\ handoff[s] = None
  BY DEF Inv, SendingOK, StageOK, Read
<1>2. /\ Presentable(request[s]) /\ config.limit \in Nat /\ request[s] \in Request
      /\ read[s] \in Seq(Byte) /\ request[s].body \in Seq(Byte)
      /\ Len(read[s]) <= Len(request[s].body)
      /\ \A i \in 1..Len(read[s]) : read[s][i] = request[s].body[i]
  BY <1>1, RequestAssumption DEF SendingOK, StageOK, Presentable, TypeOK, RequestOrNone
<1>3. UNCHANGED <<config, now, request, handoff, wire, answer, antenna, struck, faults>>
  BY DEF Read, network
<1>4. PICK n \in (Len(read[s]) + 1)..Len(request[s].body) :
        \/ /\ n <= config.limit
           /\ read' = [read EXCEPT ![s] = @ \o SubSeq(request[s].body, Len(read[s]) + 1, n)]
           /\ UNCHANGED <<at, told>>
        \/ /\ n > config.limit
           /\ Reply(s, 413)
  BY DEF Read
<1>5. CASE n <= config.limit
  <2> DEFINE more == read[s] \o SubSeq(request[s].body, Len(read[s]) + 1, n)
  <2>1. more \in Seq(Byte) /\ Len(more) = n /\ \A i \in 1..n : more[i] = request[s].body[i]
    BY <1>2, ChunkInPlace
  <2>2. read' = [read EXCEPT ![s] = more] /\ UNCHANGED <<at, told>>
    <3>1. config.limit \in Int /\ n \in Int
      BY <1>2
    <3>2. ~(n > config.limit)
      BY <1>5, <3>1
    <3> QED BY <1>4, <3>2
  <2> HIDE DEF more
  <2>3. read' \in [Sending -> Seq(Byte)] /\ read'[s] = more
        /\ \A t \in Sending \ {s} : read'[t] = read[t]
    BY <1>1, <2>1, <2>2 DEF TypeOK
  <2>4. Onward /\ TypeOK' /\ \A t \in Sending \ {s} : Untouched(t)
    BY <1>1, <1>3, <2>2, <2>3 DEF TypeOK, Onward, Untouched, antenna
  <2>5. Presentable(request[s])'
    BY <1>2, <1>3, ConfigKept
  <2>6. StageOK(s)'
    BY <1>1, <1>2, <1>3, <1>5, <2>1, <2>2, <2>3, <2>5 DEF SendingOK, StageOK
  <2>7. SendingOK(s)' /\ Named(s)' \subseteq Named(s)
    BY <1>1, <1>3, <2>2, <2>6 DEF SendingOK, HandoffOK, AnswerOK, ToldOK, Named
  <2> QED BY <1>3, <2>4, <2>7, OneMoves
<1>6. CASE n > config.limit
  <2>1. Reply(s, 413) /\ ~Acceptable(request[s])
    BY <1>2, <1>4, <1>6 DEF Acceptable
  <2>2. /\ faults' \in 0..MaxFaults /\ struck' \subseteq Sending /\ struck \subseteq struck'
        /\ answer' = answer /\ answer'[s] = None /\ wire' \subseteq wire
        /\ at[s] \in {"reading", "fetching"}
        /\ UNCHANGED <<config, now, request, handoff, antenna>>
    BY <1>1, <1>3 DEF TypeOK
  <2>3. 413 \in Nat /\ 413 \in 400..499 /\ answer' \in {answer, [answer EXCEPT ![s] = None]}
    BY <2>2
  <2>4. ASSUME NEW status \in Nat, status = 413 PROVE Inv'
    <3>1. Reply(s, status) /\ status \in 400..499
      BY <2>1, <2>3, <2>4
    <3> HIDE <2>4
    <3> QED BY <2>1, <2>2, <2>3, <3>1, ReplyInv
  <2> QED BY <2>3, <2>4
<1> QED BY <1>2, <1>4, <1>5, <1>6

\* Who is struck has an excuse.
LEMMA StrikeForm ==
  ASSUME TypeOK, NEW s \in Sending, Strike(s)
  PROVE  /\ struck \subseteq struck' /\ struck' \subseteq Sending
         /\ faults' \in 0..MaxFaults /\ Excused(s)'
  BY BoundsAssumption DEF TypeOK, Strike, Excused

LEMMA StreamFailsInv ==
  ASSUME Inv, NEW s \in Sending, StreamFails(s)
  PROVE  Inv'
<1>1. TypeOK /\ StageOK(s) /\ at[s] = "reading" /\ answer[s] = None
  BY DEF Inv, StageOK, StreamFails
<1>2. /\ answer' = answer /\ answer'[s] = None /\ wire' \subseteq wire
      /\ UNCHANGED <<config, now, request, handoff, antenna>>
      /\ Reply(s, 500) /\ 500 \in Nat /\ 500 \in 500..599
  BY <1>1 DEF StreamFails, network
<1>3. /\ struck \subseteq struck' /\ struck' \subseteq Sending
      /\ faults' \in 0..MaxFaults /\ Excused(s)'
  BY <1>1, StrikeForm DEF StreamFails
<1> QED BY <1>1, <1>2, <1>3, ReplyInv

LEMMA VetInv ==
  ASSUME Inv, NEW s \in Sending, Vet(s)
  PROVE  Inv'
<1>1. /\ TypeOK /\ SendingOK(s) /\ at[s] = "reading" /\ request[s] # None
      /\ answer[s] = None /\ told[s] = None /\ handoff[s] = None
  BY DEF Inv, SendingOK, StageOK, Vet
<1>2. /\ Presentable(request[s]) /\ request[s] \in Request
      /\ read[s] \in Seq(Byte) /\ request[s].body \in Seq(Byte)
      /\ Len(read[s]) <= config.limit /\ Len(read[s]) = Len(request[s].body)
      /\ \A i \in 1..Len(read[s]) : read[s][i] = request[s].body[i]
  BY <1>1, RequestAssumption DEF SendingOK, StageOK, TypeOK, RequestOrNone, Vet
<1>3. read[s] = request[s].body
  BY <1>2
<1>4. Acceptable(request[s]) <=>
        VerifyGithub(read[s], request[s].signature) /\ Json(read[s]) = "object"
  BY <1>2, <1>3, VetIsFair
<1>5. UNCHANGED <<config, now, request, handoff, wire, answer, antenna, struck, faults>>
  BY DEF Vet, network
<1>6. CASE Acceptable(request[s]) /\ at' = [at EXCEPT ![s] = "signing"] /\ UNCHANGED <<read, told>>
  <2>1. Onward /\ TypeOK' /\ \A t \in Sending \ {s} : Untouched(t)
    BY <1>1, <1>5, <1>6 DEF TypeOK, Onward, Untouched, antenna, Stages
  <2>2. Acceptable(request[s])'
    BY <1>5, <1>6, ConfigKept
  <2>3. at'[s] = "signing"
    BY <1>1, <1>6 DEF TypeOK
  <2>4. SendingOK(s)' /\ Named(s)' \subseteq Named(s)
    BY <1>1, <1>3, <1>5, <1>6, <2>2, <2>3
       DEF SendingOK, StageOK, HandoffOK, AnswerOK, ToldOK, Named
  <2> QED BY <1>5, <2>1, <2>4, OneMoves
<1>7. CASE ~Acceptable(request[s]) /\ \E status \in {400, 401} : Reply(s, status)
  <2>1. PICK status \in {400, 401} : Reply(s, status)
    BY <1>7
  <2>2. status \in Nat /\ status \in 400..499
    BY <2>1
  <2>3. /\ faults' \in 0..MaxFaults /\ struck' \subseteq Sending /\ struck \subseteq struck'
        /\ answer' = answer /\ answer'[s] = None /\ wire' \subseteq wire
        /\ at[s] \in {"reading", "fetching"}
        /\ UNCHANGED <<config, now, request, handoff, antenna>>
    BY <1>1, <1>5 DEF TypeOK
  <2> QED BY <1>7, <2>1, <2>2, <2>3, ReplyInv
<1>8. \/ Acceptable(request[s]) /\ at' = [at EXCEPT ![s] = "signing"] /\ UNCHANGED <<read, told>>
      \/ ~Acceptable(request[s]) /\ Reply(s, 401)
      \/ ~Acceptable(request[s]) /\ Reply(s, 400)
  BY <1>4 DEF Vet
<1> QED BY <1>6, <1>7, <1>8

LEMMA HandOffInv ==
  ASSUME Inv, NEW s \in Sending, HandOff(s)
  PROVE  Inv'
<1> DEFINE r == request[s]
           digest == Hex(Sha(r.body))
           t == now \div PerSecond
           sealed == Mac(HandoffSecret, Canonical(t, r.delivery, r.event, digest))
<1>1. /\ TypeOK /\ SendingOK(s) /\ at[s] = "signing" /\ r # None
      /\ answer[s] = None /\ told[s] = None
      /\ Acceptable(r) /\ read[s] = r.body
  BY DEF Inv, SendingOK, StageOK, HandOff
<1>2. r \in Request /\ r.delivery # None /\ r.event # None
  BY <1>1 DEF TypeOK, RequestOrNone, Acceptable
<1>3. t \in 0..MaxTime
  <2>1. now \in 0..MaxTime /\ PerSecond \in Nat \ {0} /\ MaxTime \in Nat
    BY <1>1, ClockAssumption, BoundsAssumption DEF TypeOK
  <2>2. 0 \div PerSecond = 0
    BY <2>1
  <2>3. 0 <= t /\ t \in Int
    BY <2>1, <2>2, DivMonotone
  <2>4. t <= now
    <3>1. now = PerSecond * t + (now % PerSecond) /\ now % PerSecond \in 0..(PerSecond - 1)
      BY <2>1
    <3>2. t <= PerSecond * t
      BY <2>1, <2>3
    <3> QED BY <2>1, <2>3, <3>1, <3>2
  <2> QED BY <2>1, <2>3, <2>4
<1>4. Sha(r.body) \in Digest /\ sealed \in Digest /\ DigestSize \in Nat
  BY <1>2, <1>3, DigestAssumption
<1>5. digest \in Texts /\ Hex(sealed) \in Texts
  BY <1>4, HexIsText
<1>6. r.body \in Seq(Byte) /\ r.delivery \in Delivery /\ r.event \in Event
  BY <1>2, RequestAssumption DEF Delivery, Event
<1>7. handoff' = [handoff EXCEPT ![s] = Posted(r, t)]
  BY <1>1 DEF HandOff, Posted
<1>8. Posted(r, t) \in Handoffs
  BY <1>3, <1>5, <1>6 DEF Posted, Handoffs
<1>9. Posted(r, t) # None
  BY <1>8, NoneAssumption
<1>10. handoff' \in [Sending -> Handoffs \cup {None}] /\ handoff'[s] = Posted(r, t)
       /\ \A u \in Sending \ {s} : handoff'[u] = handoff[u]
  BY <1>1, <1>7, <1>8 DEF TypeOK
<1>11. /\ at' \in [Sending -> Stages] /\ at'[s] = "fetching"
       /\ \A u \in Sending \ {s} : at'[u] = at[u]
       /\ wire' = wire \cup {s}
       /\ UNCHANGED <<config, now, request, read, told, answer, receipts, deliveries, struck, faults>>
  BY <1>1 DEF TypeOK, HandOff, Stages, antenna
<1> HIDE DEF t
<1>12. TypeOK'
  BY <1>1, <1>9, <1>10, <1>11 DEF TypeOK
<1>13. Onward /\ UNCHANGED antenna /\ \A u \in Sending \ {s} : Untouched(u)
  BY <1>1, <1>10, <1>11 DEF TypeOK, Onward, Untouched, antenna
<1>14. HandoffOK(s)'
  <2>1. Acceptable(r)'
    BY <1>1, <1>11, ConfigKept
  <2>2. Posted(r, t)' = Posted(r, t) /\ t' = t /\ t <= t /\ t = now' \div PerSecond
    BY <1>3, <1>11 DEF Posted, t
  <2> QED BY <1>3, <1>10, <1>11, <2>1, <2>2 DEF HandoffOK
<1>15. SendingOK(s)' /\ Named(s)' \subseteq Named(s)
  BY <1>1, <1>9, <1>10, <1>11, <1>14
     DEF SendingOK, StageOK, AnswerOK, ToldOK, Named
<1> QED BY <1>11, <1>12, <1>13, <1>15, OneMoves

LEMMA AcknowledgeInv ==
  ASSUME Inv, NEW s \in Sending, Acknowledge(s)
  PROVE  Inv'
<1> DEFINE a == answer[s]
           response == [status |-> 202, receipt |-> a.receipt, duplicate |-> a.duplicate]
<1>1. /\ TypeOK /\ SendingOK(s) /\ at[s] = "fetching" /\ a # None
      /\ told[s] = None /\ handoff[s] # None /\ request[s] # None
      /\ Acceptable(request[s])
  BY DEF Inv, SendingOK, StageOK, HandoffOK, Acknowledge
<1>2. a \in Answers
  BY <1>1 DEF TypeOK
<1>3. UNCHANGED <<config, now, request, handoff, wire, antenna, struck, faults>>
  BY DEF Acknowledge
<1>4. answer' = [answer EXCEPT ![s] = None]
  BY DEF Acknowledge
<1>5. answer' \in [Sending -> Answers \cup {None}] /\ answer'[s] = None
      /\ \A t \in Sending \ {s} : answer'[t] = answer[t]
  BY <1>1, <1>4 DEF TypeOK
<1>6. Onward /\ UNCHANGED antenna
  BY <1>1, <1>3 DEF TypeOK, Onward, antenna
<1>7. CASE a.status = 202 /\ a.kind = "object" /\ Tell(s, response)
  <2>1. response \in Responses /\ response # None
    BY <1>2, NoneAssumption DEF Answers, Responses
  <2>2. Holds(s, a.receipt, a.duplicate)
    BY <1>1, <1>7 DEF SendingOK, AnswerOK
  <2>3. /\ at' \in [Sending -> Stages] /\ at'[s] = "done"
        /\ read' \in [Sending -> Seq(Byte)]
        /\ told' \in [Sending -> Responses \cup {None}] /\ told'[s] = response
        /\ \A t \in Sending \ {s} : at'[t] = at[t] /\ read'[t] = read[t] /\ told'[t] = told[t]
    BY <1>1, <1>7, <2>1, ToldForm
  <2>4. TypeOK' /\ \A t \in Sending \ {s} : Untouched(t)
    BY <1>1, <1>3, <1>5, <2>3 DEF TypeOK, Untouched, antenna
  <2>5. HandoffOK(s)'
    BY <1>1, <1>3, <1>6, StillPosted
  <2>6. ToldOK(s)'
    <3>1. Acceptable(request[s])'
      BY <1>1, <1>3, ConfigKept
    <3>2. \A n, b : Holds(s, n, b) => Holds(s, n, b)'
      BY <1>3 DEF Holds, antenna
    <3>3. PICK n, b : n = a.receipt /\ b = a.duplicate
      OBVIOUS
    <3>4. Holds(s, n, b)'
      BY <2>2, <3>2, <3>3
    <3>5. told'[s].status = 202 /\ told'[s].receipt = n /\ told'[s].duplicate = b
      BY <2>3, <3>3
    <3> QED BY <1>3, <3>1, <3>4, <3>5 DEF ToldOK, Holds
  <2>7. SendingOK(s)'
    BY <1>1, <1>3, <1>5, <2>1, <2>3, <2>5, <2>6 DEF SendingOK, StageOK, AnswerOK
  <2>8. Named(s)' \subseteq Named(s)
    BY <1>1, <1>3, <1>5, <1>7, <2>3 DEF Named, antenna
  <2> QED BY <1>3, <1>6, <2>4, <2>7, <2>8, OneMoves
<1>8. CASE ~(a.status = 202 /\ a.kind = "object") /\ \E status \in {500, 502} : Reply(s, status)
  <2>1. PICK status \in {500, 502} : Reply(s, status)
    BY <1>8
  <2>2. status \in Nat /\ status \in 500..599
    BY <2>1
  <2>3. Excused(s)'
    <3>1. Excused(s)
      BY <1>1, <1>8 DEF SendingOK, AnswerOK
    <3> QED BY <1>3, <1>6, <3>1, ExcuseKept
  <2>4. /\ faults' \in 0..MaxFaults /\ struck' \subseteq Sending /\ struck \subseteq struck'
        /\ wire' \subseteq wire
        /\ answer' \in {answer, [answer EXCEPT ![s] = None]} /\ answer'[s] = None
        /\ at[s] \in {"reading", "fetching"}
        /\ UNCHANGED <<config, now, request, handoff, antenna>>
    BY <1>1, <1>3, <1>4, <1>5 DEF TypeOK
  <2> QED BY <2>1, <2>2, <2>3, <2>4, ReplyInv
<1>9. \/ a.status = 202 /\ a.kind = "object" /\ Tell(s, response)
      \/ (a.status # 202 \/ a.kind = "other") /\ Reply(s, 502)
      \/ a.status = 202 /\ a.kind = "malformed" /\ Reply(s, 500)
  BY DEF Acknowledge
<1> QED BY <1>7, <1>8, <1>9

LEMMA BreakInv ==
  ASSUME Inv, NEW s \in Sending, Break(s)
  PROVE  Inv'
<1>1. TypeOK /\ at[s] = "fetching"
  BY DEF Inv, Break
<1>2. answer' = [answer EXCEPT ![s] = None] /\ answer'[s] = None
  BY <1>1 DEF TypeOK, Break
<1>3. /\ UNCHANGED <<config, now, request, handoff, antenna>>
      /\ wire' \subseteq wire
      /\ Reply(s, 500)
  BY DEF Break
<1>4. /\ struck \subseteq struck' /\ struck' \subseteq Sending
      /\ faults' \in 0..MaxFaults /\ Excused(s)'
  BY <1>1, StrikeForm DEF Break
<1>5. /\ answer' \in {answer, [answer EXCEPT ![s] = None]} /\ answer'[s] = None
      /\ at[s] \in {"reading", "fetching"}
      /\ 500 \in Nat /\ 500 \in 500..599
  BY <1>1, <1>2
<1>6. ASSUME NEW status \in Nat, status = 500 PROVE Inv'
  <2>1. Reply(s, status) /\ status \in 500..599
    BY <1>3, <1>5, <1>6
  <2> HIDE <1>6
  <2> QED BY <1>3, <1>4, <1>5, <2>1, ReplyInv
<1> QED BY <1>5, <1>6

\* An answer with no receipt in it, or none at all, and a fault to blame.
LEMMA NoReceipt ==
  ASSUME Inv, NEW s \in Sending, NEW a \in Answers \cup {None},
         a # None => ~(a.status = 202 /\ a.kind = "object") /\ at[s] = "fetching",
         answer' = [answer EXCEPT ![s] = a],
         UNCHANGED <<config, now, worker, handoff, antenna>>,
         wire' \subseteq wire,
         struck \subseteq struck', struck' \subseteq Sending, faults' \in 0..MaxFaults,
         Excused(s)'
  PROVE  Inv'
<1>1. TypeOK /\ SendingOK(s)
  BY DEF Inv, SendingOK
<1>2. /\ answer' \in [Sending -> Answers \cup {None}] /\ answer'[s] = a
      /\ \A t \in Sending \ {s} : answer'[t] = answer[t]
  BY <1>1 DEF TypeOK
<1>3. Onward /\ UNCHANGED antenna /\ TypeOK' /\ \A t \in Sending \ {s} : Untouched(t)
  BY <1>1, <1>2 DEF TypeOK, Onward, Untouched, antenna, worker
<1>4. HandoffOK(s)'
  <2>1. CASE handoff[s] = None
    BY <2>1 DEF HandoffOK
  <2>2. CASE handoff[s] # None
    BY <1>3, <2>2, StillPosted DEF worker
  <2> QED BY <2>1, <2>2
<1>5. ToldOK(s)' /\ (Presentable(request[s])' <=> Presentable(request[s]))
      /\ (Acceptable(request[s])' <=> Acceptable(request[s]))
  <2>1. (Presentable(request[s])' <=> Presentable(request[s]))
        /\ (Acceptable(request[s])' <=> Acceptable(request[s]))
    BY ConfigKept DEF worker
  <2>2. told'[s] = told[s] /\ request'[s] = request[s]
    BY DEF worker
  <2>3. \A n, b : Holds(s, n, b)' <=> Holds(s, n, b)
    BY <2>2 DEF Holds, antenna
  <2> QED BY <1>1, <2>1, <2>2, <2>3 DEF SendingOK, ToldOK
<1>6. StageOK(s)'
  BY <1>1, <1>2, <1>5 DEF SendingOK, StageOK, worker
<1>7. AnswerOK(s)'
  BY <1>2 DEF AnswerOK
<1>8. Named(s)' \subseteq Named(s)
  BY <1>2 DEF Named, worker, antenna
<1> QED BY <1>3, <1>4, <1>5, <1>6, <1>7, <1>8, OneMoves DEF SendingOK, worker

LEMMA ProxiedInv ==
  ASSUME Inv, NEW s \in Sending, Proxied(s)
  PROVE  Inv'
<1>1. PICK a \in {<<200, "malformed">>, <<502, "other">>, <<202, "other">>, <<202, "malformed">>} :
        answer' = [answer EXCEPT ![s] =
          [status |-> a[1], kind |-> a[2], receipt |-> None, duplicate |-> FALSE]]
  BY DEF Proxied
<1> DEFINE new == [status |-> a[1], kind |-> a[2], receipt |-> None, duplicate |-> FALSE]
<1>2. new \in Answers /\ ~(new.status = 202 /\ new.kind = "object")
  BY DEF Answers
<1>3. TypeOK /\ at[s] = "fetching" /\ wire' \subseteq wire
      /\ UNCHANGED <<config, now, worker, handoff, antenna>>
  BY DEF Inv, Proxied
<1>4. /\ struck \subseteq struck' /\ struck' \subseteq Sending
      /\ faults' \in 0..MaxFaults /\ Excused(s)'
  BY <1>3, StrikeForm DEF Proxied
<1>5. answer' = [answer EXCEPT ![s] = new]
  BY <1>1
<1> HIDE DEF new
<1> QED BY <1>2, <1>3, <1>4, <1>5, NoReceipt

LEMMA CutInv ==
  ASSUME Inv, NEW s \in Sending, Cut(s)
  PROVE  Inv'
<1>1. TypeOK /\ SendingOK(s) /\ at[s] \in {"reading", "signing", "fetching"} /\ request[s] # None
      /\ told[s] = None
  BY DEF Inv, SendingOK, StageOK, Cut
<1>2. <<>> \in Seq(Byte) /\ "cut" \in Stages
  BY DEF Stages
<1>3. /\ answer' \in [Sending -> Answers \cup {None}] /\ answer'[s] = None
      /\ at' \in [Sending -> Stages] /\ at'[s] = "cut"
      /\ read' \in [Sending -> Seq(Byte)]
      /\ \A t \in Sending \ {s} : answer'[t] = answer[t] /\ at'[t] = at[t] /\ read'[t] = read[t]
  BY <1>1, <1>2 DEF TypeOK, Cut
<1>4. UNCHANGED <<config, now, request, told, handoff, antenna>> /\ wire' \subseteq wire
  BY DEF Cut
<1>5. /\ struck \subseteq struck' /\ struck' \subseteq Sending
      /\ faults' \in 0..MaxFaults
  BY <1>1, StrikeForm DEF Cut
<1>6. Onward /\ UNCHANGED antenna /\ TypeOK' /\ \A t \in Sending \ {s} : Untouched(t)
  BY <1>1, <1>3, <1>4, <1>5 DEF TypeOK, Onward, Untouched, antenna
<1>7. HandoffOK(s)'
  <2>1. CASE handoff[s] = None
    BY <1>4, <2>1 DEF HandoffOK
  <2>2. CASE handoff[s] # None
    BY <1>4, <1>6, <2>2, StillPosted
  <2> QED BY <2>1, <2>2
<1>8. SendingOK(s)' /\ Named(s)' \subseteq Named(s)
  BY <1>1, <1>3, <1>4, <1>7 DEF SendingOK, StageOK, AnswerOK, ToldOK, Named
<1> QED BY <1>4, <1>6, <1>8, OneMoves

LEMMA TickInv == Inv /\ Tick => Inv'
<1> SUFFICES ASSUME Inv, Tick PROVE Inv'
  OBVIOUS
<1>1. Onward /\ UNCHANGED antenna /\ TypeOK'
  BY BoundsAssumption DEF Inv, TypeOK, Onward, Tick, antenna, worker, network
<1>2. \A t \in Sending : Untouched(t)
  BY DEF Tick, Untouched, worker, network
<1>3. \A t \in Sending : SendingOK(t)' /\ Named(t)' = Named(t)
  BY <1>1, <1>2, Frame
<1> QED BY <1>1, <1>2, <1>3, AntennaStands DEF Untouched

LEMMA StutterInv == Inv /\ UNCHANGED vars => Inv'
<1> SUFFICES ASSUME Inv, UNCHANGED vars PROVE Inv'
  OBVIOUS
<1>1. Onward /\ UNCHANGED antenna /\ TypeOK'
  BY BoundsAssumption DEF Inv, TypeOK, Onward, vars, antenna, worker, network
<1>2. \A t \in Sending : Untouched(t)
  BY DEF vars, Untouched, worker, network
<1>3. \A t \in Sending : SendingOK(t)' /\ Named(t)' = Named(t)
  BY <1>1, <1>2, Frame
<1> QED BY <1>1, <1>2, <1>3, AntennaStands DEF Untouched

-----------------------------------------------------------------------------
(* Antenna's steps.                                                        *)

LEMMA AnswerForm ==
  ASSUME TypeOK, NEW s \in Sending, NEW status \in Nat, NEW n \in Nat \cup {None},
         NEW b \in BOOLEAN, Answer(s, status, n, b)
  PROVE  \E a \in Answers :
           /\ a = [status |-> status, kind |-> "object", receipt |-> n, duplicate |-> b]
           /\ \/ at[s] = "fetching" /\ answer[s] = None /\ answer' = [answer EXCEPT ![s] = a]
              \/ answer' = answer
<1> DEFINE a == [status |-> status, kind |-> "object", receipt |-> n, duplicate |-> b]
<1>1. a \in Answers
  BY DEF Answers
<1>2. CASE at[s] = "fetching" /\ answer[s] = None
  BY <1>1, <1>2 DEF TypeOK, Answer
<1>3. CASE ~(at[s] = "fetching" /\ answer[s] = None)
  <2>1. answer' = [answer EXCEPT ![s] = answer[s]]
    BY <1>3 DEF TypeOK, Answer
  <2> QED BY <1>1, <2>1 DEF TypeOK
<1> QED BY <1>2, <1>3

\* Antenna answers without a receipt.
LEMMA RefusalInv ==
  ASSUME Inv, NEW s \in Sending, NEW status \in Nat, status # 202,
         Answer(s, status, None, FALSE),
         UNCHANGED <<config, now, worker, handoff, antenna>>,
         wire' \subseteq wire,
         struck \subseteq struck', struck' \subseteq Sending, faults' \in 0..MaxFaults,
         Excused(s)'
  PROVE  Inv'
<1>1. TypeOK
  BY DEF Inv
<1>2. PICK a \in Answers :
        /\ a = [status |-> status, kind |-> "object", receipt |-> None, duplicate |-> FALSE]
        /\ \/ at[s] = "fetching" /\ answer[s] = None /\ answer' = [answer EXCEPT ![s] = a]
           \/ answer' = answer
  BY <1>1, AnswerForm
<1>3. a.status # 202
  BY <1>2
<1>4. CASE at[s] = "fetching" /\ answer' = [answer EXCEPT ![s] = a]
  BY <1>3, <1>4, NoReceipt
<1>5. CASE answer' = answer
  <2>1. Onward /\ UNCHANGED antenna /\ TypeOK'
    BY <1>1, <1>5 DEF TypeOK, Onward, worker, antenna
  <2>2. \A t \in Sending : Untouched(t)
    BY <1>5 DEF Untouched, worker
  <2>3. \A t \in Sending : SendingOK(t)' /\ Named(t)' = Named(t)
    BY <2>1, <2>2, Frame
  <2> QED BY <2>1, <2>2, <2>3, AntennaStands DEF Untouched
<1> QED BY <1>2, <1>4, <1>5

\* What Antenna may refuse a hand-off for.
LEMMA Turned ==
  ASSUME Inv, NEW s \in Sending, handoff[s] # None, Reception(handoff[s]) # 202
  PROVE  Excused(s)
<1> DEFINE r == request[s]
           h == handoff[s]
           digest == Hex(Sha(r.body))
<1>1. TypeOK /\ Acceptable(r)
  BY DEF Inv, HandoffOK
<1>2. PICK t \in 0..MaxTime : t <= now \div PerSecond /\ h = Posted(r, t)
  BY DEF Inv, HandoffOK
<1>3. r # None
  BY <1>1 DEF Inv, StageOK
<1>4. r \in Request /\ r.delivery # None /\ r.event # None
      /\ r.delivery.chars <= 200 /\ r.event.chars <= 100
  BY <1>1, <1>3 DEF TypeOK, RequestOrNone, Acceptable
<1> DEFINE sealed == Mac(HandoffSecret, Canonical(t, r.delivery, r.event, digest))
<1>5. Sha(r.body) \in Digest /\ sealed \in Digest /\ DigestSize \in Nat
  BY <1>4, DigestAssumption
<1>6. h.stamp = t /\ h.delivery = r.delivery /\ h.event = r.event /\ h.body = r.body
      /\ h.digest = digest /\ h.scheme = "v1=" /\ h.digits = Hex(sealed)
  BY <1>2 DEF Posted
<1>7. Sha256Hex(h.body) = digest
  BY <1>5, <1>6, SameText
<1>8. HexDecode(h.digits) = sealed
  BY <1>5, <1>6, RoundTrip
<1>9. CASE config.key # HandoffSecret
  BY <1>9 DEF Excused, Misconfigured
<1>10. CASE Len(h.body) > config.maxEvent
  <2>1. config.limit \in Int /\ config.maxEvent \in Nat /\ Len(r.body) <= config.limit
    BY <1>1, ConfigAssumption DEF TypeOK, Acceptable, LimitIsBad
  <2>2. Len(r.body) \in Nat
    BY <1>4, RequestAssumption
  <2>3. BetweenLimits(s)
    BY <1>6, <1>10, <2>1, <2>2 DEF BetweenLimits
  <2> QED BY <2>3 DEF Excused
<1>11. CASE config.key = HandoffSecret /\ ~(Len(h.body) > config.maxEvent)
  <2>1. config.key # None
    BY <1>11, NoneAssumption
  <2>2. Age(h) \notin (-MaxAge)..MaxAge
    BY <1>4, <1>6, <1>7, <1>8, <1>11, <2>1 DEF VerifyHandoff, Reception
  <2>3. Age(h) \in Int /\ -MaxAge <= Age(h)
    <3>1. PerSecond \in Nat \ {0} /\ Skew \in Int /\ MaxAge \in Nat /\ now \in Int
          /\ -Skew <= MaxAge * PerSecond /\ MaxTime \in Nat
      BY <1>1, ClockAssumption, BoundsAssumption DEF TypeOK
    <3> DEFINE back == now - MaxAge * PerSecond
    <3>2. MaxAge * PerSecond \in Int
      BY <3>1
    <3>3. back \in Int /\ now + Skew \in Int /\ back <= now + Skew
      BY <3>1, <3>2
    <3>4. back \div PerSecond <= (now + Skew) \div PerSecond
          /\ back \div PerSecond \in Int /\ (now + Skew) \div PerSecond \in Int
      <4> HIDE DEF back
      <4> QED BY <3>1, <3>3, DivMonotone
    <3>5. back \div PerSecond = now \div PerSecond - MaxAge
      <4>1. /\ now \div PerSecond \in Int /\ now % PerSecond \in 0..(PerSecond - 1)
            /\ now = PerSecond * (now \div PerSecond) + (now % PerSecond)
        BY <3>1
      <4> DEFINE q == now \div PerSecond - MaxAge
                 m == now % PerSecond
      <4>2. q \in Int /\ m \in 0..(PerSecond - 1) /\ back = PerSecond * q + m
        BY <3>1, <3>2, <4>1
      <4>3. back \div PerSecond = q
        <5> HIDE DEF back, q, m
        <5> QED BY <3>1, <3>3, <4>2, DivUnique
      <4> QED BY <4>3
    <3>6. now \div PerSecond \in Int
      BY <3>1
    <3>7. Age(h) = (now + Skew) \div PerSecond - t
      BY <1>6 DEF Age
    <3> QED BY <1>2, <3>1, <3>4, <3>5, <3>6, <3>7
  <2>4. Age(h) > MaxAge
    BY <2>2, <2>3, ClockAssumption
  <2> QED BY <2>4 DEF Excused, Late
<1> QED BY <1>9, <1>10, <1>11

LEMMA TurnAwayInv ==
  ASSUME Inv, NEW s \in Sending, TurnAway(s)
  PROVE  Inv'
<1> DEFINE status == Reception(handoff[s])
<1>1. TypeOK /\ handoff[s] # None
  BY DEF Inv, TypeOK, TurnAway
<1>2. status \in {401, 413, 503}
  BY DEF TurnAway, Reception, VerifyHandoff
<1>3. Onward /\ UNCHANGED <<config, now, worker, handoff, antenna>>
  BY <1>1 DEF TypeOK, Onward, TurnAway, antenna
<1>4. Excused(s)'
  <2>1. Excused(s)
    BY <1>1, Turned DEF TurnAway
  <2> QED BY <1>3, <2>1, ExcuseKept DEF worker
<1>5. /\ struck \subseteq struck' /\ struck' \subseteq Sending /\ faults' \in 0..MaxFaults
      /\ wire' \subseteq wire /\ Answer(s, status, None, FALSE)
  BY <1>1 DEF TypeOK, TurnAway
<1> HIDE DEF status
<1>6. status \in Nat /\ status # 202
  BY <1>2
<1> QED BY <1>3, <1>4, <1>5, <1>6, RefusalInv

LEMMA TakeFailsInv ==
  ASSUME Inv, NEW s \in Sending, TakeFails(s)
  PROVE  Inv'
<1>1. TypeOK
  BY DEF Inv
<1>2. /\ struck \subseteq struck' /\ struck' \subseteq Sending
      /\ faults' \in 0..MaxFaults /\ Excused(s)'
  BY <1>1, StrikeForm DEF TakeFails
<1> DEFINE status == 500
<1>3. status \in Nat /\ status # 202
  OBVIOUS
<1>4. wire' \subseteq wire /\ Answer(s, status, None, FALSE)
      /\ UNCHANGED <<config, now, worker, handoff, antenna>>
  BY DEF TakeFails
<1> HIDE DEF status
<1> QED BY <1>2, <1>3, <1>4, RefusalInv

\* One receipt more.
LEMMA Appended ==
  ASSUME TypeOK, NEW new \in Receipts, receipts' = Append(receipts, new)
  PROVE  /\ receipts' \in Seq(Receipts)
         /\ DOMAIN receipts' = DOMAIN receipts \cup {Len(receipts) + 1}
         /\ Len(receipts) + 1 \notin DOMAIN receipts /\ Len(receipts) + 1 \in Nat
         /\ \A i \in DOMAIN receipts : receipts'[i] = receipts[i]
         /\ receipts'[Len(receipts) + 1] = new
<1>1. receipts \in Seq(Receipts)
  BY DEF TypeOK
<1>2. Len(receipts) \in Nat /\ DOMAIN receipts = 1..Len(receipts)
  BY <1>1
<1>3. /\ receipts' \in Seq(Receipts) /\ Len(receipts') = Len(receipts) + 1
      /\ DOMAIN receipts' = 1..(Len(receipts) + 1)
      /\ \A i \in 1..Len(receipts) : receipts'[i] = receipts[i]
      /\ receipts'[Len(receipts) + 1] = new
  BY <1>1, AppendProperties
<1> QED BY <1>2, <1>3

LEMMA RowsAgree ==
  ASSUME Inv, NEW d \in Delivery, NEW new \in Receipts,
         new.delivery = d, new.duplicate = (deliveries[d] # None),
         receipts' = Append(receipts, new),
         deliveries' = [deliveries EXCEPT ![d] =
           IF deliveries[d] # None THEN [first |-> @.first, duplicates |-> @.duplicates + 1]
           ELSE [first |-> Len(receipts) + 1, duplicates |-> 0]]
  PROVE  /\ deliveries' \in [Delivery -> Rows \cup {None}]
         /\ \A e \in Delivery : RowOK(e)'
<1> DEFINE n == Len(receipts) + 1
<1>1. TypeOK /\ deliveries \in [Delivery -> Rows \cup {None}] /\ RowOK(d) /\ None \notin Rows
  BY NoneAssumption DEF Inv, TypeOK
<1>2. /\ DOMAIN receipts' = DOMAIN receipts \cup {n}
      /\ n \notin DOMAIN receipts /\ n \in Nat
      /\ \A i \in DOMAIN receipts : receipts'[i] = receipts[i]
      /\ receipts'[n] = new
  BY <1>1, Appended
<1> HIDE DEF n
<1>3. ASSUME NEW e \in Delivery, e # d PROVE RowOK(e)'
  <2>1. deliveries'[e] = deliveries[e] /\ RowOK(e)
    BY <1>1, <1>3 DEF Inv
  <2>2. Arrived(e)' = Arrived(e)
    BY <1>2, <1>3 DEF Arrived
  <2>3. \A i \in Arrived(e) : receipts'[i] = receipts[i]
    BY <1>2 DEF Arrived
  <2>4. {i \in Arrived(e)' : ~receipts'[i].duplicate} = {i \in Arrived(e) : ~receipts[i].duplicate}
    BY <2>2, <2>3
  <2>5. (\E i \in Arrived(e)' : receipts'[i].duplicate) <=> (\E i \in Arrived(e) : receipts[i].duplicate)
    BY <2>2, <2>3
  <2> QED BY <2>1, <2>2, <2>4, <2>5 DEF RowOK
<1>4. Arrived(d)' = Arrived(d) \cup {n} /\ n \notin Arrived(d)
  BY <1>2 DEF Arrived
<1>5. Cardinality(Arrived(d)') = Cardinality(Arrived(d)) + 1 /\ Cardinality(Arrived(d)) \in Nat
  <2>1. IsFiniteSet(DOMAIN receipts)
    <3>1. receipts \in Seq(Receipts)
      BY <1>1 DEF TypeOK
    <3>2. DOMAIN receipts = 1..Len(receipts) /\ Len(receipts) \in Int /\ 1 \in Int
      BY <3>1
    <3> QED BY <3>2, FS_Interval
  <2>2. IsFiniteSet(Arrived(d))
    BY <2>1, FS_Subset DEF Arrived
  <2> QED BY <1>4, <2>2, FS_AddElement, FS_CardinalityType
<1>6. \A i \in Arrived(d) : receipts'[i] = receipts[i]
  BY <1>2 DEF Arrived
<1>7. CASE deliveries[d] = None
  <2>1. deliveries' = [deliveries EXCEPT ![d] = [first |-> n, duplicates |-> 0]]
    BY <1>7 DEF n
  <2>2. [first |-> n, duplicates |-> 0] \in Rows
    BY <1>2 DEF Rows
  <2>3. deliveries' \in [Delivery -> Rows \cup {None}]
        /\ deliveries'[d] = [first |-> n, duplicates |-> 0]
    BY <1>1, <2>1, <2>2
  <2>4. Arrived(d) = {}
    BY <1>1, <1>7 DEF RowOK
  <2>5. Cardinality(Arrived(d)') = 1
    BY <1>5, <2>4, FS_EmptySet
  <2>6. ~new.duplicate
    BY <1>7
  <2>7. RowOK(d)'
    <3>1. deliveries'[d] # None
      BY <1>1, <2>2, <2>3
    <3>2. Arrived(d)' = {n}
      BY <1>4, <2>4
    <3>3. {i \in Arrived(d)' : ~receipts'[i].duplicate} = {deliveries'[d].first}
      BY <1>2, <2>3, <2>6, <3>2
    <3>4. ~ \E i \in Arrived(d)' : receipts'[i].duplicate
      BY <1>2, <2>6, <3>2
    <3>5. Cardinality(Arrived(d)') = deliveries'[d].duplicates + 1
      <4>1. deliveries'[d].duplicates = 0
        BY <2>3
      <4> QED BY <2>5, <4>1
    <3> QED BY <3>1, <3>3, <3>4, <3>5 DEF RowOK
  <2> QED BY <1>3, <2>3, <2>7
<1>8. CASE deliveries[d] # None
  <2> DEFINE row == [first |-> deliveries[d].first, duplicates |-> deliveries[d].duplicates + 1]
  <2>1. deliveries' = [deliveries EXCEPT ![d] = row]
    BY <1>1, <1>8 DEF Rows
  <2>2. /\ deliveries[d] \in Rows /\ row \in Rows /\ row # None
        /\ row.first = deliveries[d].first /\ row.duplicates = deliveries[d].duplicates + 1
    BY <1>1, <1>8 DEF Rows
  <2> HIDE DEF row
  <2>3. deliveries' \in [Delivery -> Rows \cup {None}] /\ deliveries'[d] = row
    BY <1>1, <2>1, <2>2
  <2>4. /\ {i \in Arrived(d) : ~receipts[i].duplicate} = {deliveries[d].first}
        /\ Cardinality(Arrived(d)) = deliveries[d].duplicates + 1
        /\ deliveries[d].duplicates \in Nat
    BY <1>1, <1>8, <2>2 DEF RowOK, Rows
  <2>5. new.duplicate
    BY <1>8
  <2>6. {i \in Arrived(d)' : ~receipts'[i].duplicate} = {row.first}
    <3>1. \A i \in Arrived(d)' : ~receipts'[i].duplicate <=> i \in Arrived(d) /\ ~receipts[i].duplicate
      BY <1>2, <1>4, <1>6, <2>5
    <3>2. {i \in Arrived(d)' : ~receipts'[i].duplicate} = {i \in Arrived(d) : ~receipts[i].duplicate}
      BY <1>4, <3>1
    <3> QED BY <2>2, <2>4, <3>2
  <2>7. Cardinality(Arrived(d)') = row.duplicates + 1 /\ row.duplicates > 0
    BY <1>5, <2>2, <2>4
  <2> QED BY <1>3, <2>2, <2>3, <2>6, <2>7 DEF RowOK
<1> QED BY <1>7, <1>8

LEMMA TakeInv ==
  ASSUME Inv, NEW s \in Sending, Take(s)
  PROVE  Inv'
<1> DEFINE r == request[s]
           h == handoff[s]
           n == Len(receipts) + 1
           again == deliveries[h.delivery] # None
           new == [delivery |-> h.delivery, event |-> h.event, body |-> h.body,
                   duplicate |-> again]
<1>1. TypeOK /\ SendingOK(s) /\ h # None
  BY DEF Inv, SendingOK, TypeOK, Take
<1>2. Acceptable(r) /\ r # None /\ h.delivery = r.delivery /\ h.event = r.event /\ h.body = r.body
  <2>1. Acceptable(r) /\ r # None
    BY <1>1 DEF SendingOK, StageOK, HandoffOK
  <2>2. PICK t \in 0..MaxTime : h = Posted(r, t)
    BY <1>1 DEF SendingOK, HandoffOK
  <2> QED BY <2>1, <2>2 DEF Posted
<1>3. h \in Handoffs
  BY <1>1 DEF TypeOK
<1>4. h.delivery \in Delivery /\ new \in Receipts
  BY <1>3 DEF Handoffs, Receipts
<1>5. /\ receipts' = Append(receipts, new)
      /\ deliveries' = [deliveries EXCEPT ![h.delivery] =
           IF again THEN [first |-> @.first, duplicates |-> @.duplicates + 1]
           ELSE [first |-> n, duplicates |-> 0]]
      /\ wire' \subseteq wire
      /\ UNCHANGED <<config, now, worker, handoff, struck, faults>>
      /\ Answer(s, 202, n, again)
  BY DEF Take
<1>6. /\ receipts' \in Seq(Receipts)
      /\ DOMAIN receipts' = DOMAIN receipts \cup {n}
      /\ n \notin DOMAIN receipts /\ n \in Nat
      /\ \A i \in DOMAIN receipts : receipts'[i] = receipts[i]
      /\ receipts'[n] = new
  BY <1>1, <1>4, <1>5, Appended
<1>7. new.delivery = h.delivery /\ new.duplicate = again /\ new.event = h.event /\ new.body = h.body
      /\ again \in BOOLEAN
  OBVIOUS
<1>8. deliveries' \in [Delivery -> Rows \cup {None}] /\ \A e \in Delivery : RowOK(e)'
  BY <1>4, <1>5, <1>7, RowsAgree
<1>9. Onward
  BY <1>1, <1>5, <1>6 DEF TypeOK, Onward
<1>10. PICK a \in Answers :
         /\ a = [status |-> 202, kind |-> "object", receipt |-> n, duplicate |-> again]
         /\ \/ at[s] = "fetching" /\ answer[s] = None /\ answer' = [answer EXCEPT ![s] = a]
            \/ answer' = answer
  <2> DEFINE status == 202
  <2>1. status \in Nat /\ Answer(s, status, n, again)
    BY <1>5
  <2> HIDE DEF status, n, again
  <2>2. \E a \in Answers :
          /\ a = [status |-> status, kind |-> "object", receipt |-> n, duplicate |-> again]
          /\ \/ at[s] = "fetching" /\ answer[s] = None /\ answer' = [answer EXCEPT ![s] = a]
             \/ answer' = answer
    BY <1>1, <1>6, <1>7, <2>1, AnswerForm
  <2> QED BY <2>2 DEF status
<1> HIDE DEF n, again
<1>11. PICK k, b :
         /\ k = n
         /\ a.status = 202 /\ a.receipt = k /\ a.duplicate = b
         /\ receipts'[k] = [delivery |-> r.delivery, event |-> r.event, body |-> r.body,
                            duplicate |-> b]
  BY <1>2, <1>6, <1>10
<1> HIDE DEF new
<1>12. /\ answer' \in [Sending -> Answers \cup {None}]
       /\ \A t \in Sending \ {s} : answer'[t] = answer[t]
       /\ \/ at[s] = "fetching" /\ answer[s] = None /\ answer'[s] = a
          \/ answer'[s] = answer[s]
  <2>1. CASE answer' = answer
    BY <1>1, <2>1 DEF TypeOK
  <2>2. CASE at[s] = "fetching" /\ answer[s] = None /\ answer' = [answer EXCEPT ![s] = a]
    BY <1>1, <2>2 DEF TypeOK
  <2> QED BY <1>10, <2>1, <2>2
<1>13. TypeOK'
  BY <1>1, <1>5, <1>6, <1>8, <1>12 DEF TypeOK, worker
<1>14. \A t \in Sending \ {s} : Untouched(t)
  BY <1>5, <1>12 DEF Untouched, worker
<1>15. \A t \in Sending \ {s} : SendingOK(t)' /\ Named(t)' = Named(t)
  BY <1>9, <1>14, Frame
<1>16. Holds(s, k, b)'
  BY <1>5, <1>6, <1>11 DEF Holds, worker
<1>17. SendingOK(s)'
  <2>1. (Presentable(r)' <=> Presentable(r)) /\ (Acceptable(r)' <=> Acceptable(r))
    BY <1>5, ConfigKept DEF worker
  <2>2. HandoffOK(s)'
    BY <1>1, <1>5, <1>9, StillPosted DEF worker
  <2>3. ToldOK(s)'
    BY <1>1, <1>5, <1>9, <2>1, HoldsKept, ExcuseKept DEF SendingOK, ToldOK, worker
  <2>4. AnswerOK(s)'
    <3>1. CASE answer'[s] = a
      BY <1>10, <1>11, <1>16, <3>1 DEF AnswerOK
    <3>2. CASE answer'[s] = answer[s]
      BY <1>1, <1>5, <1>9, <3>2, HoldsKept, ExcuseKept DEF SendingOK, AnswerOK, worker
    <3> QED BY <1>12, <3>1, <3>2
  <2>5. StageOK(s)'
    BY <1>1, <1>5, <1>12, <2>1 DEF SendingOK, StageOK, worker
  <2> QED BY <2>2, <2>3, <2>4, <2>5 DEF SendingOK
<1>18. \A t \in Sending : Named(t) \subseteq DOMAIN receipts
  BY DEF Named
<1>19. Named(s)' \subseteq Named(s) \cup {n}
  <2> SUFFICES ASSUME NEW i \in Named(s)', i # n PROVE i \in Named(s)
    OBVIOUS
  <2>1. i \in DOMAIN receipts /\ told'[s] = told[s]
    BY <1>5, <1>6 DEF Named, worker
  <2>2. CASE answer'[s] = a
    BY <1>11, <2>1, <2>2 DEF Named
  <2>3. CASE answer'[s] = answer[s]
    BY <2>1, <2>3 DEF Named
  <2> QED BY <1>12, <2>2, <2>3
<1>20. NamesApart'
  <2> SUFFICES ASSUME NEW t \in Sending, NEW u \in Sending, t # u
               PROVE  Named(t)' \cap Named(u)' = {}
    BY DEF NamesApart
  <2>1. Named(t) \cap Named(u) = {} /\ n \notin Named(t) /\ n \notin Named(u)
    BY <1>6, <1>18 DEF Inv, NamesApart
  <2>2. \/ t = s /\ Named(u)' = Named(u)
        \/ u = s /\ Named(t)' = Named(t)
        \/ Named(t)' = Named(t) /\ Named(u)' = Named(u)
    BY <1>15
  <2> QED BY <1>19, <2>1, <2>2
<1>21. OnlyVettedStored'
  <2>1. request' = request /\ config' = config
    BY <1>5 DEF worker
  <2>2. \A t \in Sending : Acceptable(request[t])' <=> Acceptable(request[t])
    BY <2>1, ConfigKept
  <2> SUFFICES ASSUME NEW i \in DOMAIN receipts'
               PROVE  \E t \in Sending :
                        /\ request[t] # None
                        /\ Acceptable(request[t])
                        /\ receipts'[i].delivery = request[t].delivery
                        /\ receipts'[i].event = request[t].event
                        /\ receipts'[i].body = request[t].body
    BY <2>1, <2>2 DEF OnlyVettedStored
  <2>3. CASE i = n
    BY <1>2, <1>6, <2>3 DEF new
  <2>4. CASE i \in DOMAIN receipts
    BY <1>6, <2>4 DEF Inv, OnlyVettedStored
  <2> QED BY <1>6, <2>3, <2>4
<1> QED BY <1>8, <1>13, <1>15, <1>17, <1>20, <1>21 DEF Inv, SendingOK

-----------------------------------------------------------------------------
LEMMA NextInv == Inv /\ [Next]_vars => Inv'
<1> SUFFICES ASSUME Inv, [Next]_vars PROVE Inv'
  OBVIOUS
<1>1. CASE UNCHANGED vars
  BY <1>1, StutterInv
<1>2. CASE Tick
  BY <1>2, TickInv
<1>3. ASSUME NEW s \in Sending, NEW r \in MaySend[s], Arrive(s, r) PROVE Inv'
  BY <1>3, ArriveInv
<1>4. ASSUME NEW s \in Sending, WorkerStep(s) PROVE Inv'
  BY <1>4, ReadInv, VetInv, HandOffInv, AcknowledgeInv DEF WorkerStep
<1>5. ASSUME NEW s \in Sending, Take(s) \/ TurnAway(s) PROVE Inv'
  BY <1>5, TakeInv, TurnAwayInv
<1>6. ASSUME NEW s \in Sending, Trouble(s) PROVE Inv'
  BY <1>6, StreamFailsInv, TakeFailsInv, BreakInv, ProxiedInv, CutInv DEF Trouble
<1> QED BY <1>1, <1>2, <1>3, <1>4, <1>5, <1>6 DEF Next

LEMMA SpecInv == Spec => []Inv
  BY InitInv, NextInv, PTL DEF Spec

\* Every variable has its type, for any requests, secrets, digests and clocks.
THEOREM EdgeTypeCorrect == Spec => []TypeOK
  BY SpecInv, PTL DEF Inv

\* What GitHub is told was accepted is stored, byte for byte and as the first
\* or as a duplicate, whatever the digests and the authentication codes are.
THEOREM EdgeAckIsDurable == Spec => []AckIsDurable
<1>1. Inv => AckIsDurable
  <2> SUFFICES ASSUME Inv, NEW s \in Sending, Accepted(s)
               PROVE  /\ told[s].receipt \in DOMAIN receipts
                      /\ receipts[told[s].receipt] =
                           [delivery |-> request[s].delivery, event |-> request[s].event,
                            body |-> request[s].body, duplicate |-> told[s].duplicate]
    BY DEF AckIsDurable
  <2> QED BY DEF Inv, ToldOK, Holds, Accepted
<1> QED BY <1>1, SpecInv, PTL

\* The row of a delivery counts each of its arrivals once, exactly one of them
\* is the first, and no two sendings are told of the same receipt.
THEOREM EdgeOneFirst == Spec => []OneFirst
<1>1. Inv => OneFirst
  <2> SUFFICES ASSUME Inv PROVE OneFirst
    OBVIOUS
  <2>1. \A d \in Delivery :
          IF deliveries[d] = None THEN Arrived(d) = {}
          ELSE /\ {n \in Arrived(d) : ~receipts[n].duplicate} = {deliveries[d].first}
               /\ Cardinality(Arrived(d)) = deliveries[d].duplicates + 1
    BY DEF Inv, RowOK
  <2>2. ASSUME NEW s \in Sending, NEW t \in Sending, s # t, Accepted(s), Accepted(t)
        PROVE  told[s].receipt # told[t].receipt
    <3>1. told[s].receipt \in Named(s) /\ told[t].receipt \in Named(t)
      <4>1. \A u \in Sending : Accepted(u) => Holds(u, told[u].receipt, told[u].duplicate)
        BY DEF Inv, ToldOK, Accepted
      <4>2. told[s].receipt \in DOMAIN receipts /\ told[t].receipt \in DOMAIN receipts
        BY <2>2, <4>1 DEF Holds
      <4> QED BY <2>2, <4>2 DEF Accepted, Named
    <3> QED BY <2>2, <3>1 DEF Inv, NamesApart
  <2> QED BY <2>1, <2>2 DEF OneFirst, Arrived
<1> QED BY <1>1, SpecInv, PTL

\* Nothing is stored but what GitHub signed and the worker should have let by.
THEOREM EdgeOnlyVetted == Spec => []OnlyVettedStored
  BY SpecInv, PTL DEF Inv

\* A 4xx is told only of a request that will never do, a 5xx only after a
\* fault, a delay longer than a hand-off lives, or a wrong configuration, of
\* which one is a limit of Antenna's that the body exceeds and the worker's not.
THEOREM EdgeStatusIsEarned == Spec => []StatusIsEarned
<1>1. Inv => StatusIsEarned
  <2> SUFFICES ASSUME Inv, NEW s \in Sending, told[s] # None
               PROVE  \/ told[s].status = 202 /\ Acceptable(request[s])
                      \/ told[s].status \in 400..499 /\ ~Acceptable(request[s])
                      \/ told[s].status \in 500..599 /\ Excused(s)
    BY DEF StatusIsEarned
  <2> QED BY DEF Inv, ToldOK
<1> QED BY <1>1, SpecInv, PTL

-----------------------------------------------------------------------------
(* The edge implements DurableAck.                                         *)

About == [s \in Sending |-> IF request[s] = None THEN None ELSE request[s].delivery]
Kept  == [d \in Delivery |-> IF deliveries[d] = None THEN 0 ELSE deliveries[d].duplicates + 1]
Words == [s \in Sending |-> Word(s)]

LEMMA AckInit == Init => Ack!Init
<1> SUFFICES ASSUME Init PROVE Ack!Init
  OBVIOUS
<1>1. About = [s \in Sending |-> None]
  BY DEF Init, About
<1>2. Kept = [d \in Delivery |-> 0]
  BY DEF Init, Kept
<1>3. Words = [s \in Sending |-> "nothing"]
  BY DEF Init, Words, Word
<1> QED BY <1>1, <1>2, <1>3 DEF Ack!Init, About, Kept, Words

LEMMA OneWord ==
  ASSUME NEW s \in Sending, NEW w, Word(s)' = w,
         \A t \in Sending \ {s} : Word(t)' = Word(t)
  PROVE  Words' = [Words EXCEPT ![s] = w]
  BY DEF Words

\* Nothing is said, and nothing is kept.
LEMMA AckStutters ==
  ASSUME request' = request, deliveries' = deliveries, told' = told
  PROVE  UNCHANGED Ack!dvars
  BY DEF Ack!dvars, Word

\* An error is told to a sending that was told nothing yet.
LEMMA AckFails ==
  ASSUME TypeOK, NEW s \in Sending, told[s] = None, NEW status \in Nat, Reply(s, status),
         request' = request, deliveries' = deliveries,
         status \in 400..499 \/ status \in 500..599
  PROVE  Ack!Fail(s)
<1>1. told'[s] # None /\ told'[s].status = status
      /\ \A t \in Sending \ {s} : told'[t] = told[t]
  BY ReplyForm
<1>2. About' = About /\ Kept' = Kept
  BY DEF About, Kept
<1>3. Words[s] = "nothing"
  BY DEF Words, Word
<1>4. PICK w \in {"refused", "failed"} : Word(s)' = w
  <2>1. CASE status \in 400..499
    <3>1. status # 202
      BY <2>1
    <3> QED BY <1>1, <2>1, <3>1 DEF Word
  <2>2. CASE status \in 500..599
    <3>1. status # 202 /\ status \notin 400..499
      BY <2>2
    <3> QED BY <1>1, <3>1 DEF Word
  <2> QED BY <2>1, <2>2
<1>5. Words' = [Words EXCEPT ![s] = w]
  <2>1. \A t \in Sending \ {s} : Word(t)' = Word(t)
    BY <1>1 DEF Word
  <2> QED BY <1>4, <2>1, OneWord
<1> QED BY <1>2, <1>3, <1>4, <1>5 DEF Ack!Fail, About, Kept, Words

LEMMA AckArrive ==
  ASSUME Inv, NEW s \in Sending, NEW r \in MaySend[s], Arrive(s, r)
  PROVE  Ack!Send(s)
<1>1. r \in Request /\ r # None
  BY RequestAssumption, NoneAssumption
<1>2. TypeOK /\ request[s] = None /\ told[s] = None /\ at[s] = "idle"
  BY DEF Inv, StageOK, Arrive
<1>3. request'[s] = r /\ \A t \in Sending \ {s} : request'[t] = request[t]
  BY <1>2 DEF TypeOK, Arrive
<1>4. About[s] = None /\ About' = [About EXCEPT ![s] = r.delivery] /\ About'[s] = r.delivery
  BY <1>1, <1>2, <1>3 DEF About
<1>5. r.delivery \in Delivery \cup {None}
  BY <1>1 DEF Delivery
<1>6. Kept' = Kept
  BY DEF Arrive, antenna, Kept
<1>7. Words[s] = "nothing"
  BY <1>2 DEF Words, Word
<1>8. Words' \in {Words, [Words EXCEPT ![s] = "refused"], [Words EXCEPT ![s] = "failed"]}
  <2>1. CASE told' = told
    BY <2>1 DEF Words, Word
  <2>2. CASE Verdict(r) # 0 /\ Reply(s, Verdict(r))
    <3> DEFINE status == Verdict(r)
    <3>1. status \in {400, 404, 405, 413, 503}
      BY <2>2 DEF Verdict
    <3>2. status \in Nat /\ status # 202 /\ (status \in 400..499 \/ status = 503)
      BY <3>1
    <3> HIDE DEF status
    <3>3. told'[s] # None /\ told'[s].status = status
          /\ \A t \in Sending \ {s} : told'[t] = told[t]
      BY <1>2, <2>2, <3>2, ReplyForm DEF status
    <3>4. PICK w \in {"refused", "failed"} : Word(s)' = w
      BY <3>2, <3>3 DEF Word
    <3>5. \A t \in Sending \ {s} : Word(t)' = Word(t)
      BY <3>3 DEF Word
    <3>6. Words' = [Words EXCEPT ![s] = w]
      BY <3>4, <3>5, OneWord
    <3> QED BY <3>4, <3>6
  <2> QED BY <2>1, <2>2 DEF Arrive
<1> QED BY <1>4, <1>5, <1>6, <1>7, <1>8 DEF Ack!Send, About, Kept, Words

\* The worker passes an acceptance on.
LEMMA AckTells ==
  ASSUME Inv, NEW s \in Sending, at[s] = "fetching", told[s] = None, answer[s] # None,
         answer[s].status = 202, answer[s].kind = "object",
         Tell(s, [status |-> 202, receipt |-> answer[s].receipt,
                  duplicate |-> answer[s].duplicate]),
         request' = request, deliveries' = deliveries
  PROVE  Ack!TellNew(s) \/ Ack!TellAgain(s)
<1> DEFINE response == [status |-> 202, receipt |-> answer[s].receipt,
                        duplicate |-> answer[s].duplicate]
<1>1. TypeOK /\ answer[s] \in Answers
  BY DEF Inv, TypeOK
<1>2. response \in Responses /\ response # None
  BY <1>1, NoneAssumption DEF Answers, Responses
<1>3. told'[s] = response /\ \A t \in Sending \ {s} : told'[t] = told[t]
  BY <1>1, <1>2, ToldForm
<1>4. Holds(s, answer[s].receipt, answer[s].duplicate) /\ request[s] # None
      /\ Acceptable(request[s])
  BY DEF Inv, AnswerOK, StageOK, HandoffOK
<1>5. PICK d \in Delivery : d = request[s].delivery
  BY <1>1, <1>4 DEF TypeOK, RequestOrNone, Delivery, Acceptable
<1>6. PICK n \in Arrived(d) : n = answer[s].receipt /\ receipts[n].duplicate = answer[s].duplicate
  BY <1>4, <1>5 DEF Holds, Arrived
<1>7. /\ deliveries[d] # None /\ deliveries[d].duplicates \in Nat
      /\ {i \in Arrived(d) : ~receipts[i].duplicate} = {deliveries[d].first}
      /\ (\E i \in Arrived(d) : receipts[i].duplicate) => deliveries[d].duplicates > 0
  <2>1. RowOK(d) /\ deliveries[d] \in Rows \cup {None}
    BY <1>1 DEF Inv, TypeOK
  <2>2. deliveries[d] # None
    BY <1>6, <2>1 DEF RowOK
  <2> QED BY <2>1, <2>2 DEF RowOK, Rows
<1>8. About' = About /\ Kept' = Kept /\ About[s] = d /\ Kept[d] = deliveries[d].duplicates + 1
  BY <1>4, <1>5, <1>7 DEF About, Kept
<1>9. Words[s] = "nothing"
  BY DEF Words, Word
<1>10. \A t \in Sending \ {s} : Word(t)' = Word(t)
  BY <1>3 DEF Word
<1>11. told'[s] # None /\ told'[s].status = 202 /\ told'[s].duplicate = answer[s].duplicate
  BY <1>2, <1>3
<1> HIDE DEF response
<1>12. CASE answer[s].duplicate
  <2>1. Word(s)' = "again"
    BY <1>11, <1>12 DEF Word
  <2>2. Words' = [Words EXCEPT ![s] = "again"]
    BY <1>10, <2>1, OneWord
  <2>3. Kept[About[s]] > 1
    <3>1. receipts[n].duplicate
      BY <1>6, <1>12
    <3>2. deliveries[d].duplicates > 0
      BY <1>7, <3>1
    <3> QED BY <1>7, <1>8, <3>2
  <2>4. Ack!TellAgain(s)
    BY <1>8, <1>9, <2>2, <2>3 DEF Ack!TellAgain, About, Kept, Words
  <2> QED BY <2>4
<1>13. CASE ~answer[s].duplicate
  <2>1. Word(s)' = "new"
    BY <1>11, <1>13 DEF Word
  <2>2. Words' = [Words EXCEPT ![s] = "new"]
    BY <1>10, <2>1, OneWord
  <2>3. Kept[About[s]] > 0
    BY <1>7, <1>8
  <2>4. ASSUME NEW t \in Sending, About[t] = About[s], Words[t] = "new"
        PROVE  FALSE
    <3>1. told[t] # None /\ told[t].status = 202 /\ ~told[t].duplicate
      BY <2>4 DEF Words, Word
    <3>2. Holds(t, told[t].receipt, told[t].duplicate)
      BY <3>1 DEF Inv, ToldOK
    <3>3. request[t] # None /\ request[t].delivery = d
      <4>1. at[t] # "idle"
        BY <3>1 DEF Inv, StageOK
      <4>2. request[t] # None
        BY <4>1 DEF Inv, StageOK
      <4> QED BY <1>8, <2>4, <4>2 DEF About
    <3>4. told[t].receipt \in Arrived(d) /\ ~receipts[told[t].receipt].duplicate
      BY <3>1, <3>2, <3>3 DEF Holds, Arrived
    <3>5. told[t].receipt = n
      BY <1>6, <1>7, <1>13, <3>4
    <3>6. n \in Named(s) /\ n \in Named(t)
      BY <1>6, <3>1, <3>5 DEF Arrived, Named
    <3>7. t # s
      BY <3>1
    <3> QED BY <3>6, <3>7 DEF Inv, NamesApart
  <2>5. Ack!TellNew(s)
    BY <1>8, <1>9, <2>2, <2>3, <2>4 DEF Ack!TellNew, About, Kept, Words
  <2> QED BY <2>5
<1> QED BY <1>12, <1>13

\* Antenna commits a receipt.
LEMMA AckKeeps ==
  ASSUME Inv, NEW s \in Sending, Take(s)
  PROVE  \E d \in Delivery : Ack!Keep(d)
<1> DEFINE h == handoff[s]
           n == Len(receipts) + 1
           again == deliveries[h.delivery] # None
<1>1. TypeOK /\ h # None /\ h \in Handoffs
  BY DEF Inv, TypeOK, Take
<1>2. PICK d \in Delivery : d = h.delivery
  BY <1>1 DEF Handoffs
<1>3. request[s] # None /\ request[s].delivery = d
  <2>1. request[s] # None
    BY <1>1 DEF Inv, StageOK
  <2>2. PICK t \in 0..MaxTime : h = Posted(request[s], t)
    BY <1>1 DEF Inv, HandoffOK
  <2> QED BY <1>2, <2>1, <2>2 DEF Posted
<1>4. deliveries' = [deliveries EXCEPT ![d] =
        IF deliveries[d] # None
        THEN [first |-> @.first, duplicates |-> @.duplicates + 1]
        ELSE [first |-> n, duplicates |-> 0]]
  BY <1>2 DEF Take
<1>5. About' = About /\ Words' = Words /\ About[s] = d
  BY <1>3 DEF Take, worker, About, Words, Word
<1>6. \A e \in Delivery \ {d} : deliveries'[e] = deliveries[e]
  BY <1>1, <1>4 DEF TypeOK
<1>7. Kept' = [Kept EXCEPT ![d] = @ + 1]
  <2>1. n \in Nat /\ None \notin Rows
    BY <1>1, NoneAssumption DEF TypeOK
  <2>2. CASE deliveries[d] = None
    <3>1. deliveries'[d] = [first |-> n, duplicates |-> 0]
      BY <1>1, <1>4, <2>2 DEF TypeOK
    <3>2. deliveries'[d] \in Rows /\ deliveries'[d].duplicates = 0
      <4> HIDE DEF n
      <4> QED BY <2>1, <3>1 DEF Rows
    <3>3. deliveries'[d] # None
      BY <2>1, <3>2
    <3>4. Kept[d] = 0 /\ Kept[d] + 1 = 1
      BY <2>2 DEF Kept
    <3>5. Kept' = [Kept EXCEPT ![d] = 1]
      <4>1. Kept'[d] = 1
        <5>1. Kept'[d] = deliveries'[d].duplicates + 1
          BY <3>3 DEF Kept
        <5> QED BY <3>2, <5>1
      <4>2. \A e \in Delivery \ {d} : Kept'[e] = Kept[e]
        BY <1>6 DEF Kept
      <4>3. Kept' = [e \in Delivery |-> Kept'[e]] /\ DOMAIN Kept = Delivery
        BY DEF Kept
      <4> HIDE DEF Kept
      <4> QED BY <4>1, <4>2, <4>3
    <3> QED BY <3>4, <3>5
  <2>3. CASE deliveries[d] # None
    <3>1. deliveries[d] \in Rows
      BY <1>1, <2>3 DEF TypeOK
    <3>2. /\ deliveries'[d] =
               [first |-> deliveries[d].first, duplicates |-> deliveries[d].duplicates + 1]
          /\ deliveries'[d] \in Rows
      BY <1>1, <1>4, <2>3, <3>1 DEF TypeOK, Rows
    <3>3. deliveries'[d] # None /\ deliveries'[d].duplicates = deliveries[d].duplicates + 1
          /\ deliveries[d].duplicates \in Nat
      BY <2>1, <3>1, <3>2 DEF Rows
    <3> QED BY <1>6, <2>3, <3>3 DEF Kept
  <2> QED BY <2>2, <2>3
<1>8. Ack!Keep(d)
  BY <1>5, <1>7 DEF Ack!Keep, About, Kept, Words
<1> QED BY <1>8

LEMMA AckStep == Inv /\ [Next]_vars => [Ack!Next]_(Ack!dvars)
<1> SUFFICES ASSUME Inv, [Next]_vars
             PROVE  Ack!Next \/ UNCHANGED Ack!dvars
  OBVIOUS
<1>1. TypeOK
  BY DEF Inv
<1>2. CASE Tick \/ UNCHANGED vars
  BY <1>2, AckStutters DEF Tick, vars, worker, antenna
<1>3. ASSUME NEW s \in Sending, NEW r \in MaySend[s], Arrive(s, r)
      PROVE  Ack!Next
  BY <1>3, AckArrive DEF Ack!Next
<1>4. ASSUME NEW s \in Sending, NEW status \in Nat, Reply(s, status), at[s] # "done",
             status \in 400..499 \/ status \in 500..599,
             request' = request, deliveries' = deliveries
      PROVE  Ack!Next
  <2>1. told[s] = None
    BY <1>4 DEF Inv, StageOK
  <2> QED BY <1>1, <1>4, <2>1, AckFails DEF Ack!Next
<1>5. \A status \in {400, 401, 413, 500, 502} :
        status \in Nat /\ (status \in 400..499 \/ status \in 500..599)
  OBVIOUS
<1>6. ASSUME NEW s \in Sending, NEW status \in {400, 401, 413, 500, 502},
             Reply(s, status), at[s] # "done", request' = request, deliveries' = deliveries
      PROVE  Ack!Next
  BY <1>4, <1>5, <1>6
<1>7. ASSUME NEW s \in Sending, Read(s)
      PROVE  Ack!Next \/ UNCHANGED Ack!dvars
  <2>1. /\ request' = request /\ deliveries' = deliveries /\ at[s] # "done"
        /\ told' = told \/ Reply(s, 413)
    BY <1>7 DEF Read, antenna
  <2> QED BY <1>6, <2>1, AckStutters
<1>8. ASSUME NEW s \in Sending, Vet(s)
      PROVE  Ack!Next \/ UNCHANGED Ack!dvars
  <2>1. /\ request' = request /\ deliveries' = deliveries /\ at[s] # "done"
        /\ told' = told \/ Reply(s, 401) \/ Reply(s, 400)
    BY <1>8 DEF Vet, antenna
  <2> QED BY <1>6, <2>1, AckStutters
<1>9. ASSUME NEW s \in Sending, HandOff(s) \/ Proxied(s) \/ Cut(s) \/ TurnAway(s) \/ TakeFails(s)
      PROVE  UNCHANGED Ack!dvars
  BY <1>9, AckStutters DEF HandOff, Proxied, Cut, TurnAway, TakeFails, worker, antenna
<1>10. ASSUME NEW s \in Sending, Acknowledge(s)
       PROVE  Ack!Next
  <2>1. /\ request' = request /\ deliveries' = deliveries
        /\ at[s] = "fetching" /\ answer[s] # None
    BY <1>10 DEF Acknowledge, antenna
  <2>2. told[s] = None
    BY <2>1 DEF Inv, StageOK
  <2>3. \/ /\ answer[s].status = 202 /\ answer[s].kind = "object"
           /\ Tell(s, [status |-> 202, receipt |-> answer[s].receipt,
                       duplicate |-> answer[s].duplicate])
        \/ Reply(s, 502) \/ Reply(s, 500)
    BY <1>10 DEF Acknowledge
  <2>4. CASE Reply(s, 502) \/ Reply(s, 500)
    BY <1>6, <2>1, <2>4
  <2>5. CASE /\ answer[s].status = 202 /\ answer[s].kind = "object"
             /\ Tell(s, [status |-> 202, receipt |-> answer[s].receipt,
                         duplicate |-> answer[s].duplicate])
    BY <2>1, <2>2, <2>5, AckTells DEF Ack!Next
  <2> QED BY <2>3, <2>4, <2>5
<1>11. ASSUME NEW s \in Sending, StreamFails(s) \/ Break(s)
       PROVE  Ack!Next
  <2>1. request' = request /\ deliveries' = deliveries /\ at[s] # "done" /\ Reply(s, 500)
    BY <1>11 DEF StreamFails, Break, antenna
  <2> QED BY <1>6, <2>1
<1>12. ASSUME NEW s \in Sending, Take(s) PROVE Ack!Next
  BY <1>12, AckKeeps DEF Ack!Next
<1> QED BY <1>2, <1>3, <1>7, <1>8, <1>9, <1>10, <1>11, <1>12 DEF Next, WorkerStep, Trouble

\* GitHub, the worker and Antenna together keep the promise of DurableAck: a
\* sending is told it is the first, or one more, only if that is so and kept.
THEOREM EdgeKeepsPromise == Spec => AckPromise
  BY AckInit, AckStep, SpecInv, PTL DEF Spec, AckPromise, Ack!Spec
=============================================================================
