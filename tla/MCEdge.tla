-------------------------------- MODULE MCEdge --------------------------------
(***************************************************************************)
(* An instance of Edge for TLC: digests of two bytes, one of them always   *)
(* below 16 so that its text needs its padding, bodies of up to one byte   *)
(* more than the limit, and a request for every way to be refused.         *)
(***************************************************************************)
EXTENDS Edge

CONSTANTS
  other,   \* a secret that is not the worker's
  s1, s2

\* The sum of a text of at most four.
Total(b) == LET place(i) == IF i <= Len(b) THEN b[i] ELSE 0
            IN place(1) + place(2) + place(3) + place(4)

\* Two bytes that depend on two numbers, which TLC evaluates once.
Bytes(n, m) == CHOOSE code \in {<<(x + m) % 16, (7 * x + 171) % 256>> : x \in {n}} : TRUE

MCSha(b) == Bytes(Total(b), Len(b))

\* Of a body, or of a canonical text.
MCMac(k, m) ==
  IF k = GithubSecret THEN Bytes(5 * Total(m) + Len(m), 1)
  ELSE Bytes(m[1] + 3 * m[2].id + m[3].id + Total(m[4]), IF k = other THEN 1 ELSE 0)

MCJson(b) == IF b = <<>> \/ b[1] > 2 THEN "malformed" ELSE IF b[1] = 2 THEN "other" ELSE "object"

Header(i, n) == [id |-> i, chars |-> n]

\* The signature GitHub sends, in lower case.
Signed(b) == LET m == MCMac(GithubSecret, b) IN
  [scheme |-> "sha256=",
   digits |-> <<m[1] \div 16, m[1] % 16, m[2] \div 16, m[2] % 16>>]
Capitals(sig) == [sig EXCEPT !.digits =
  [i \in DOMAIN sig.digits |-> IF sig.digits[i] > 9 THEN sig.digits[i] + 6 ELSE sig.digits[i]]]

Small == <<1>>
Full  == <<1, 30>>

Good(d, b) ==
  [path |-> "/github", method |-> "POST", delivery |-> Header(d, 200), event |-> Header(1, 100),
   media |-> "application/json", length |-> Len(b), signature |-> Signed(b), body |-> b]

\* What the second sending may be: the first one's delivery or another.
MCRedelivered == {Good(1, Full), [Good(2, Small) EXCEPT !.length = None]}

MCVaried ==
  LET g == Good(1, Full) IN
  {g, [g EXCEPT !.signature = Capitals(@)],
   [g EXCEPT !.path = "/"], [g EXCEPT !.method = "GET"],
   [g EXCEPT !.delivery = None], [g EXCEPT !.delivery.chars = 201],
   [g EXCEPT !.event.chars = 101], [g EXCEPT !.media = "text/plain"],
   [g EXCEPT !.length = NaN], [g EXCEPT !.length = -1],
   Good(1, <<1, 2, 3>>), [Good(1, <<1, 2, 3>>) EXCEPT !.length = None],
   [g EXCEPT !.signature = Signed(Small)],
   [g EXCEPT !.signature.scheme = "sha1="],
   [g EXCEPT !.signature.digits = SubSeq(@, 1, 3)],
   [g EXCEPT !.signature.digits[1] = 22],
   Good(1, <<2, 1>>), Good(1, <<3>>), Good(1, <<>>)}

MCMaySend == [s \in Sending |-> IF s = s1 THEN MCVaried ELSE MCRedelivered]
MCRequest == MCVaried \cup MCRedelivered
=============================================================================
