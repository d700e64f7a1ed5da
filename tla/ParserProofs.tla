---------------------------- MODULE ParserProofs ----------------------------
(***************************************************************************)
(* What the parsers promise of every body and every card: texts, the        *)
(* contact that was stated, a valid number wherever there is one, the       *)
(* holder's name, the age in full years; and the checksum of the numbers.   *)
(***************************************************************************)
EXTENDS Extraction, FiniteSetTheorems, SequenceTheorems, TLAPS

(* Naturals: a set of them has a least one, and a bounded one a greatest.   *)

(* A set of naturals has a least element.                                   *)
LEMMA HasLeast ==
    ASSUME NEW S, S \subseteq Nat, S # {}
    PROVE  \E i \in S : \A k \in S : i <= k
<1>1. \E i \in S : \A k \in S : <<k, i>> \notin OpToRel(<, Nat)
  BY NatLessThanWellFounded, WFMin, Zenon
<1>2. \A i, k \in S : <<k, i>> \notin OpToRel(<, Nat) => i <= k
  BY DEF OpToRel
<1> QED  BY <1>1, <1>2

(* A bounded set of naturals has a greatest element.                        *)
LEMMA HasGreatest ==
    ASSUME NEW n \in Nat, NEW S, S \subseteq 1..n, S # {}
    PROVE  \E i \in S : \A k \in S : k <= i
<1> DEFINE D == {n - i : i \in S}
<1>1. \A i \in S : i \in Int /\ n - i \in Nat
  OBVIOUS
<1>2. D \subseteq Nat /\ D # {}
  BY <1>1
<1>3. PICK j \in D : \A k \in D : j <= k
  BY <1>2, HasLeast
<1>4. PICK i \in S : j = n - i
  BY <1>3
<1>5. \A k \in S : n - i <= n - k
  BY <1>3, <1>4
<1> QED  BY <1>1, <1>4, <1>5

-----------------------------------------------------------------------------
(* The parsers: from texts they make texts.                                 *)

(* The first text given, or the other, is a text.                           *)
LEMMA OrText ==
    ASSUME NEW x, NEW y, IsText(x), IsText(y)
    PROVE  IsText(Or(x, y))
BY DEF Or

(* The blank text is a text that gives nothing.                             *)
LEMMA BlankText == IsText(Blank) /\ ~Given(Blank)
BY DEF IsText, Blank, Text, Given

(* The first line with a pattern. *)
LEMMA FirstText ==
    ASSUME NEW body, IsBody(body), NEW p
    PROVE  IsText(First(body, p))
<1> DEFINE found == {i \in DOMAIN body : p \in DOMAIN body[i]}
<1>1. CASE found = {}
  BY <1>1, BlankText DEF First
<1>2. CASE found # {}
  <2> DEFINE i == CHOOSE i \in found : \A k \in found : i <= k
  <2>1. found \subseteq Nat
    <3>1. DOMAIN body = 1..Len(body) /\ Len(body) \in Nat
      BY DEF IsBody
    <3> QED  BY <3>1
  <2>2. i \in found
    BY <1>2, <2>1, HasLeast, Zenon
  <2>3. First(body, p) = body[i][p]
    BY <1>2 DEF First
  <2> HIDE DEF i
  <2> QED  BY <2>2, <2>3 DEF IsBody
<1> QED  BY <1>1, <1>2

(* Without its threading header a body is still a body.                     *)
LEMMA ScrubbedBody ==
    ASSUME NEW body, IsBody(body)
    PROVE  IsBody(Scrubbed(body))
<1>1. DOMAIN Scrubbed(body) = 1..Len(body) /\ Len(Scrubbed(body)) = Len(body)
  <2>1. DOMAIN body = 1..Len(body) /\ Len(body) \in Nat
    BY DEF IsBody
  <2>2. Scrubbed(body) = [i \in 1..Len(body) |-> IF IsIdHeader(body[i]) THEN <<>> ELSE body[i]]
    BY <2>1 DEF Scrubbed
  <2> QED  BY <2>1, <2>2
<1>2. DOMAIN <<>> = {}
  OBVIOUS
<1>3. ASSUME NEW i \in DOMAIN body
      PROVE  Scrubbed(body)[i] = body[i] \/ Scrubbed(body)[i] = <<>>
  BY DEF Scrubbed
<1> QED  BY <1>1, <1>2, <1>3 DEF IsBody

(* A sequence of one word. *)
LEMMA OneWord ==
    ASSUME NEW Words, NEW word \in Words
    PROVE  <<word>> \in Seq(Words)
OBVIOUS

(* A normalised phone number is a text.                                     *)
LEMMA PhoneText ==
    ASSUME NEW phone, IsText(phone)
    PROVE  IsText(NormalisePhone(phone))
<1>1. ASSUME NEW digits \in STRING \ {""}
      PROVE  IsText(Number(digits))
  <2>1. <<digits>> \in Seq(STRING)
    BY OneWord, Zenon
  <2> QED  BY <2>1 DEF Number, IsText, Text, Given
<1>2. \A s \in DOMAIN National : National[s] \in STRING \ {""}
  BY PhoneAssumption
<1>3. \A s \in DOMAIN LastTen : LastTen[s] \in STRING \ {""}
  BY PhoneAssumption
<1> QED  BY <1>1, <1>2, <1>3 DEF NormalisePhone

(* What is parsed from a body are four texts, with or without spaCy.        *)
LEMMA BodyText ==
    ASSUME NEW body, IsBody(body), NEW ner
    PROVE  LET parsed == ParseEmailBody(body, Blank, ner)
           IN  /\ parsed = [name |-> parsed.name, phone |-> parsed.phone,
                            email |-> parsed.email, address |-> parsed.address]
               /\ \A x \in {parsed.name, parsed.phone, parsed.email, parsed.address} : IsText(x)
<1> DEFINE parsed == ParseEmailBody(body, Blank, ner)
<1> USE OrText, BlankText, FirstText
<1>1. IsText(First(body, "sender")) /\ IsText(First(body, "from"))
  OBVIOUS
<1>2. IsText(ExtractEmail(body, Or(Blank, First(body, "sender"))))
  BY <1>1, ScrubbedBody DEF ExtractEmail
<1>3. IsText(parsed.email)
  BY <1>2 DEF ParseEmailBody, Labelled, FromHeader
<1>4. IsText(parsed.name)
  BY <1>1 DEF ParseEmailBody, Labelled, FromHeader, NerName, Ner
<1>5. IsText(parsed.address)
  BY DEF ParseEmailBody, Labelled, NerAddress, Ner
<1>6. IsText(parsed.phone)
  <2> DEFINE phone == Or(First(body, "phone:"), ExtractPhone(body))
  <2>1. IsText(phone)
    BY DEF ExtractPhone
  <2> HIDE DEF phone
  <2> QED  BY <2>1, PhoneText DEF ParseEmailBody, Labelled, phone
<1>7. parsed = [name |-> parsed.name, phone |-> parsed.phone,
                email |-> parsed.email, address |-> parsed.address]
  BY DEF ParseEmailBody
<1> QED  BY <1>3, <1>4, <1>5, <1>6, <1>7

(* What spaCy finds is not in the contact. *)
LEMMA ContactWithoutNer ==
    ASSUME NEW body, NEW ner
    PROVE  /\ ParseEmailBody(body, Blank, ner).email = ParseEmailBody(body, Blank, TRUE).email
           /\ ParseEmailBody(body, Blank, ner).phone = ParseEmailBody(body, Blank, TRUE).phone
BY DEF ParseEmailBody

-----------------------------------------------------------------------------
(* The checksum.                                                            *)

Digit == 0..9

(* A round takes digits to digits, and depends on the position modulo 8.    *)
LEMMA RoundTyped ==
    ASSUME NEW i \in Nat, NEW c \in Digit, NEW d \in Digit
    PROVE  /\ Round(c, i, d) \in Digit
           /\ Round(c, i, d) = Round(c, i % 8, d)
<1>1. \A j \in 0..7, x \in Digit : VerhoeffP[j + 1][x + 1] \in Digit
  BY DEF VerhoeffP, Digit
<1>2. \A x, y \in Digit : VerhoeffD[x + 1][y + 1] \in Digit
  BY DEF VerhoeffD, Digit
<1>3. i % 8 \in 0..7 /\ (i % 8) % 8 = i % 8
  OBVIOUS
<1> QED  BY <1>1, <1>2, <1>3 DEF Round

(* The first table is one-to-one in either digit.                           *)
LEMMA Cancels ==
    ASSUME NEW c \in Digit, NEW a \in Digit, NEW b \in Digit, a # b
    PROVE  /\ VerhoeffD[c + 1][a + 1] # VerhoeffD[c + 1][b + 1]
           /\ VerhoeffD[a + 1][c + 1] # VerhoeffD[b + 1][c + 1]
BY DEF VerhoeffD, Digit

(* The first table is associative.                                          *)
LEMMA Associates ==
    ASSUME NEW c \in Digit, NEW a \in Digit, NEW b \in Digit
    PROVE  VerhoeffD[VerhoeffD[c + 1][a + 1] + 1][b + 1] = VerhoeffD[c + 1][VerhoeffD[a + 1][b + 1] + 1]
BY DEF VerhoeffD, Digit

(* Each row of the second table permutes the digits, and is the one before  *)
(* it followed by row 2.                                                    *)
LEMMA Permutes ==
    ASSUME NEW i \in 0..7, NEW a \in Digit, NEW b \in Digit, a # b
    PROVE  /\ VerhoeffP[i + 1][a + 1] # VerhoeffP[i + 1][b + 1]
           /\ VerhoeffP[((i + 1) % 8) + 1][a + 1] = VerhoeffP[2][VerhoeffP[i + 1][a + 1] + 1]
BY DEF VerhoeffP, Digit

(* Row 2 does not let two digits commute.                                   *)
LEMMA Skews ==
    ASSUME NEW a \in Digit, NEW b \in Digit, a # b
    PROVE  VerhoeffD[a + 1][VerhoeffP[2][b + 1] + 1] # VerhoeffD[b + 1][VerhoeffP[2][a + 1] + 1]
BY DEF VerhoeffD, VerhoeffP, Digit

(* Rounds of the checksum are one-to-one, and two of them do not commute. *)
SlipsCaught ==
    \A i \in 0..7 : \A c, a, b \in 0..9 :
        a # b =>
            /\ Round(c, i, a) # Round(c, i, b)
            /\ Round(a, i, c) # Round(b, i, c)
            /\ Round(Round(c, i, a), i + 1, b) # Round(Round(c, i, b), i + 1, a)

(* Every slip changes a round, or two of them.                              *)
LEMMA RoundsTell == SlipsCaught
<1> SUFFICES ASSUME NEW i \in 0..7, NEW c \in Digit, NEW a \in Digit, NEW b \in Digit, a # b
             PROVE  /\ Round(c, i, a) # Round(c, i, b)
                    /\ Round(a, i, c) # Round(b, i, c)
                    /\ Round(Round(c, i, a), i + 1, b) # Round(Round(c, i, b), i + 1, a)
  BY DEF SlipsCaught, Digit
<1> DEFINE p(x) == VerhoeffP[i + 1][x + 1]
           q(x) == VerhoeffP[2][x + 1]
           D(x, y) == VerhoeffD[x + 1][y + 1]
<1>1. \A x \in Digit : p(x) \in Digit /\ q(x) \in Digit
  BY DEF VerhoeffP, Digit
<1>2. \A x, y \in Digit : D(x, y) \in Digit
  BY DEF VerhoeffD, Digit
<1>3. \A x \in Digit, y \in Digit : Round(x, i, y) = D(x, p(y)) /\ Round(x, i + 1, y) = D(x, q(p(y)))
  <2>1. i % 8 = i
    OBVIOUS
  <2>2. \A y \in Digit : VerhoeffP[((i + 1) % 8) + 1][y + 1] = q(p(y))
    BY DEF VerhoeffP, Digit
  <2> QED  BY <2>1, <2>2 DEF Round
<1>4. p(a) # p(b)
  BY Permutes
<1>5. \A x, y, z \in Digit : D(D(x, y), z) = D(x, D(y, z))
  BY Associates
<1>6. \A x, y, z \in Digit : y # z => D(x, y) # D(x, z) /\ D(y, x) # D(z, x)
  BY Cancels
<1>7. \A x, y \in Digit : x # y => D(x, q(y)) # D(y, q(x))
  BY Skews
<1> HIDE DEF p, q, D
<1>8. D(D(c, p(a)), q(p(b))) # D(D(c, p(b)), q(p(a)))
  <2>1. D(p(a), q(p(b))) # D(p(b), q(p(a)))
    BY <1>1, <1>4, <1>7
  <2>2. p(a) \in Digit /\ p(b) \in Digit /\ q(p(a)) \in Digit /\ q(p(b)) \in Digit
    BY <1>1
  <2>3. /\ D(D(c, p(a)), q(p(b))) = D(c, D(p(a), q(p(b))))
        /\ D(D(c, p(b)), q(p(a))) = D(c, D(p(b), q(p(a))))
    BY <1>5, <2>2
  <2>4. D(p(a), q(p(b))) \in Digit /\ D(p(b), q(p(a))) \in Digit
    BY <1>2, <2>2
  <2>5. D(c, D(p(a), q(p(b)))) # D(c, D(p(b), q(p(a))))
    BY <1>6, <2>1, <2>4
  <2> QED  BY <2>3, <2>5
<1>9. Round(c, i, a) \in Digit /\ Round(c, i, b) \in Digit
  BY RoundTyped, i \in Nat
<1>10. Round(c, i, a) # Round(c, i, b) /\ Round(a, i, c) # Round(b, i, c)
  BY <1>1, <1>3, <1>4, <1>6
<1>11. /\ Round(Round(c, i, a), i + 1, b) = D(D(c, p(a)), q(p(b)))
       /\ Round(Round(c, i, b), i + 1, a) = D(D(c, p(b)), q(p(a)))
  <2>1. /\ Round(Round(c, i, a), i + 1, b) = D(Round(c, i, a), q(p(b)))
        /\ Round(Round(c, i, b), i + 1, a) = D(Round(c, i, b), q(p(a)))
    BY <1>3, <1>9
  <2>2. Round(c, i, a) = D(c, p(a)) /\ Round(c, i, b) = D(c, p(b))
    BY <1>3
  <2> QED  BY <2>1, <2>2
<1> QED  BY <1>8, <1>10, <1>11

(* The same for positions beyond the eighth.                                *)
LEMMA RoundsDiffer ==
    ASSUME NEW i \in Nat, NEW c \in Digit, NEW a \in Digit, NEW b \in Digit, a # b
    PROVE  /\ Round(c, i, a) # Round(c, i, b)
           /\ Round(a, i, c) # Round(b, i, c)
           /\ Round(Round(c, i, a), i + 1, b) # Round(Round(c, i, b), i + 1, a)
<1> DEFINE j == i % 8
<1>1. j \in 0..7 /\ (j + 1) % 8 = (i + 1) % 8
  OBVIOUS
<1>2. \A x, y \in Digit : Round(x, i, y) = Round(x, j, y) /\ Round(x, j, y) \in Digit
  BY <1>1, RoundTyped
<1>3. \A x, y \in Digit : Round(x, i + 1, y) = Round(x, j + 1, y)
  BY <1>1 DEF Round
<1> HIDE DEF j
<1>4. /\ Round(c, j, a) # Round(c, j, b)
      /\ Round(a, j, c) # Round(b, j, c)
      /\ Round(Round(c, j, a), j + 1, b) # Round(Round(c, j, b), j + 1, a)
  BY <1>1, RoundsTell DEF SlipsCaught, Digit
<1> QED  BY <1>2, <1>3, <1>4

(* c is the check digit of number, after each of its digits from the right. *)
IsCheck(c, number) ==
    c = [i \in 0..Len(number) |->
            IF i = 0 THEN 0 ELSE Round(c[i - 1], i - 1, number[Len(number) + 1 - i])]

(* Every sequence of digits has check digits.                               *)
LEMMA CheckExists ==
    ASSUME NEW number \in Seq(Digit)
    PROVE  \E c : IsCheck(c, number)
<1> DEFINE n == Len(number)
           R(c, i) == IF i = 0 THEN 0 ELSE Round(c[i - 1], i - 1, number[n + 1 - i])
           P(m) == \E c : c = [i \in 0..m |-> R(c, i)]
           S == {m \in 0..n : ~P(m)}
<1>1. n \in Nat
  OBVIOUS
<1> HIDE DEF n
<1>2. CASE S = {}
  <2>1. P(n)
    <3> HIDE DEF P
    <3>1. n \in 0..n
      BY <1>1
    <3> QED  BY <1>2, <3>1
  <2> QED  BY <2>1 DEF IsCheck, n
<1>3. CASE S # {}
  <2>1. PICK m \in S : \A k \in S : m <= k
    <3>1. S \subseteq Nat
      BY <1>1
    <3> QED  BY <1>3, <3>1, HasLeast
  <2>2. m \in Nat /\ m <= n /\ ~P(m)
    BY <1>1, <2>1
  <2>3. m # 0
    <3> DEFINE z == [i \in 0..0 |-> 0]
    <3>1. z = [i \in 0..0 |-> R(z, i)]
      OBVIOUS
    <3>2. P(0)
      BY <3>1
    <3> QED  BY <2>2, <3>2
  <2>4. P(m - 1)
    <3>1. m - 1 \in 0..n /\ ~(m <= m - 1)
      BY <1>1, <2>2, <2>3
    <3> QED  BY <2>1, <3>1
  <2>5. PICK c : c = [i \in 0..(m - 1) |-> R(c, i)]
    BY <2>4
  <2> DEFINE g == [i \in 0..m |-> R(c, i)]
  <2>6. \A i \in 0..m : R(g, i) = R(c, i)
    <3>1. \A i \in 0..(m - 1) : g[i] = c[i]
      <4>1. \A i \in 0..(m - 1) : i \in 0..m /\ g[i] = R(c, i)
        BY <2>2, <2>3
      <4>2. \A i \in 0..(m - 1) : c[i] = R(c, i)
        BY <2>5, Zenon
      <4> QED  BY <4>1, <4>2
    <3> HIDE DEF g
    <3>2. ASSUME NEW i \in 0..m, i # 0
          PROVE  g[i - 1] = c[i - 1]
      BY <2>2, <3>1, <3>2
    <3> QED  BY <3>2
  <2>7. g = [i \in 0..m |-> R(g, i)]
    <3> DEFINE h == [i \in 0..m |-> R(g, i)]
    <3>1. \A i \in 0..m : g[i] = h[i]
      BY <2>6
    <3> QED  BY <3>1
  <2> HIDE DEF g
  <2>8. P(m)
    BY <2>7
  <2> QED  BY <2>2, <2>8
<1> QED  BY <1>2, <1>3

(* A 12-digit number, and c its check digits.                               *)
Checks(number, c) ==
    /\ number \in Seq(Digit) /\ Len(number) = 12
    /\ \A i \in 0..12 : c[i] \in Digit
    /\ c[0] = 0
    /\ \A i \in 1..12 : c[i] = Round(c[i - 1], i - 1, number[13 - i])
    /\ VerhoeffValid(number) <=> c[12] = 0

(* A 12-digit number has check digits, and the last says whether it is      *)
(* valid.                                                                   *)
LEMMA HasChecks ==
    ASSUME NEW number \in Seq(Digit), Len(number) = 12
    PROVE  \E c : Checks(number, c)
<1> DEFINE c == CHOOSE c : IsCheck(c, number)
<1>1. IsCheck(c, number)
  BY CheckExists, Zenon
<1>2. VerhoeffValid(number) <=> c[12] = 0
  BY DEF VerhoeffValid, IsCheck
<1> HIDE DEF c
<1>3. c = [i \in 0..12 |-> IF i = 0 THEN 0 ELSE Round(c[i - 1], i - 1, number[13 - i])]
  BY <1>1 DEF IsCheck
<1>4. c[0] = 0 /\ \A i \in 1..12 : c[i] = Round(c[i - 1], i - 1, number[13 - i])
  <2> DEFINE R(i) == IF i = 0 THEN 0 ELSE Round(c[i - 1], i - 1, number[13 - i])
  <2>1. \A i \in 0..12 : c[i] = R(i)
    BY <1>3, Zenon
  <2> QED  BY <2>1
<1>5. \A i \in 0..12 : c[i] \in Digit
  <2> DEFINE S == {i \in 0..12 : c[i] \notin Digit}
  <2> SUFFICES ASSUME S # {}
               PROVE  FALSE
    OBVIOUS
  <2>1. PICK i \in S : \A k \in S : i <= k
    <3>1. S \subseteq Nat
      OBVIOUS
    <3> QED  BY <3>1, HasLeast
  <2>2. i # 0
    BY <1>4, <2>1 DEF Digit
  <2>3. c[i - 1] \in Digit
    BY <2>1, <2>2
  <2>4. number[13 - i] \in Digit
    <3>1. 13 - i \in 1..Len(number)
      BY <2>1, <2>2
    <3> QED  BY <3>1, ElementOfSeq, Zenon
  <2>5. c[i] = Round(c[i - 1], i - 1, number[13 - i])
    BY <1>4, <2>1, <2>2
  <2> QED  BY <2>1, <2>2, <2>3, <2>4, <2>5, RoundTyped
<1> QED  BY <1>2, <1>4, <1>5 DEF Checks

(* Two numbers have the same digits in the last j places, before those.     *)
SameUpTo(n, m, j) == \A i \in 1..j : n[13 - i] = m[13 - i]

SameBeyond(n, m, j) == \A i \in (j + 1)..12 : n[13 - i] = m[13 - i]

(* Numbers that agree in the last places agree on the checks up to there.   *)
LEMMA ChecksAgree ==
    ASSUME NEW n, NEW c, Checks(n, c), NEW m, NEW e, Checks(m, e), NEW j \in 0..12,
           SameUpTo(n, m, j)
    PROVE  c[j] = e[j]
<1> DEFINE S == {i \in 0..j : c[i] # e[i]}
<1> SUFFICES ASSUME S # {}
             PROVE  FALSE
  OBVIOUS
<1>1. PICK i \in S : \A k \in S : i <= k
  <2>1. S \subseteq Nat
    OBVIOUS
  <2> QED  BY <2>1, HasLeast
<1>2. i # 0
  BY <1>1 DEF Checks
<1>3. c[i - 1] = e[i - 1]
  BY <1>1, <1>2
<1>4. i \in 1..12 /\ n[13 - i] = m[13 - i]
  BY <1>1, <1>2 DEF SameUpTo
<1>5. c[i] = Round(c[i - 1], i - 1, n[13 - i]) /\ e[i] = Round(e[i - 1], i - 1, m[13 - i])
  BY <1>4 DEF Checks
<1> QED  BY <1>1, <1>3, <1>4, <1>5

(* A difference in the checks stays, where the digits before it agree.      *)
LEMMA ChecksDiffer ==
    ASSUME NEW n, NEW c, Checks(n, c), NEW m, NEW e, Checks(m, e), NEW g \in 0..12,
           c[g] # e[g], SameBeyond(n, m, g)
    PROVE  c[12] # e[12]
<1> DEFINE S == {i \in g..12 : c[i] = e[i]}
<1> SUFFICES ASSUME S # {}
             PROVE  FALSE
  OBVIOUS
<1>1. PICK i \in S : \A k \in S : i <= k
  <2>1. S \subseteq Nat
    OBVIOUS
  <2> QED  BY <2>1, HasLeast
<1>2. i \in (g + 1)..12 /\ i \in 1..12
  BY <1>1
<1>3. c[i - 1] # e[i - 1]
  BY <1>1, <1>2
<1>4. /\ c[i] = Round(c[i - 1], i - 1, n[13 - i]) /\ e[i] = Round(e[i - 1], i - 1, n[13 - i])
      /\ c[i - 1] \in Digit /\ e[i - 1] \in Digit
  <2>1. n[13 - i] = m[13 - i] /\ i - 1 \in 0..12
    BY <1>2 DEF SameBeyond
  <2>2. c[i] = Round(c[i - 1], i - 1, n[13 - i]) /\ e[i] = Round(e[i - 1], i - 1, m[13 - i])
    BY <1>2 DEF Checks
  <2>3. c[i - 1] \in Digit /\ e[i - 1] \in Digit
    BY <2>1 DEF Checks
  <2> QED  BY <2>1, <2>2, <2>3
<1>5. n[13 - i] \in Digit
  <2>1. 13 - i \in 1..Len(n) /\ n \in Seq(Digit)
    BY <1>2 DEF Checks
  <2> QED  BY <2>1, ElementOfSeq, Zenon
<1>6. i - 1 \in Nat
  BY <1>2
<1> QED  BY <1>1, <1>3, <1>4, <1>5, <1>6, RoundsDiffer

(* Of any two 12-digit numbers, one of which is the other with a wrong      *)
(* digit or with two adjacent digits swapped, at most one is valid: no slip *)
(* in a card's number goes unnoticed (extractors.py: verhoeff_valid).       *)
THEOREM SlipsShow ==
    ASSUME NEW n \in Seq(Digit), NEW m \in Seq(Digit), Len(n) = 12, Len(m) = 12, n # m,
           NEW k \in 1..12,
           \/ \A i \in 1..12 : i # k => n[i] = m[i]
           \/ /\ k < 12 /\ n[k] = m[k + 1] /\ n[k + 1] = m[k]
              /\ \A i \in 1..12 : i \notin {k, k + 1} => n[i] = m[i]
    PROVE  ~(VerhoeffValid(n) /\ VerhoeffValid(m))
<1>1. PICK c : Checks(n, c)
  BY HasChecks
<1>2. PICK e : Checks(m, e)
  BY HasChecks
<1>3. \A i \in 1..12 : n[i] \in Digit /\ m[i] \in Digit
  BY ElementOfSeq, Zenon
<1>4. \E i \in 1..12 : n[i] # m[i]
  BY SeqEqual
<1>5. /\ \A i \in 0..12 : c[i] \in Digit /\ e[i] \in Digit
      /\ \A i \in 1..12 : /\ c[i] = Round(c[i - 1], i - 1, n[13 - i])
                          /\ e[i] = Round(e[i - 1], i - 1, m[13 - i])
      /\ VerhoeffValid(n) <=> c[12] = 0
      /\ VerhoeffValid(m) <=> e[12] = 0
  BY <1>1, <1>2 DEF Checks
<1>6. CASE \A i \in 1..12 : i # k => n[i] = m[i]
  <2>1. PICK j \in 1..12 : j = 13 - k
    OBVIOUS
  <2>0. 13 - j = k /\ n[k] # m[k]
    BY <1>4, <1>6, <2>1
  <2>2. c[j - 1] = e[j - 1]
    <3>1. \A i \in 1..(j - 1) : 13 - i \in 1..12 /\ 13 - i # k
      BY <2>1
    <3>2. j - 1 \in 0..12
      BY <2>1
    <3>3. SameUpTo(n, m, j - 1)
      BY <1>6, <3>1 DEF SameUpTo
    <3> QED  BY <1>1, <1>2, <3>2, <3>3, ChecksAgree
  <2>3. c[j] # e[j]
    <3>1. j - 1 \in Nat /\ j - 1 \in 0..12
      BY <2>1
    <3>2. c[j] = Round(c[j - 1], j - 1, n[k]) /\ e[j] = Round(c[j - 1], j - 1, m[k])
      BY <1>5, <2>0, <2>2
    <3>3. c[j - 1] \in Digit /\ n[k] \in Digit /\ m[k] \in Digit
      BY <1>3, <1>5, <3>1
    <3>4. Round(c[j - 1], j - 1, n[k]) # Round(c[j - 1], j - 1, m[k])
      BY <2>0, <3>1, <3>3, RoundsDiffer
    <3> QED  BY <3>2, <3>4
  <2>4. c[12] # e[12]
    <3>1. \A i \in (j + 1)..12 : 13 - i \in 1..12 /\ 13 - i # k
      BY <2>1
    <3>2. SameBeyond(n, m, j)
      BY <1>6, <3>1 DEF SameBeyond
    <3>3. j \in 0..12
      BY <2>1
    <3>4. Checks(n, c) /\ Checks(m, e) /\ c[j] # e[j]
      BY <1>1, <1>2, <2>3
    <3> QED  BY <3>2, <3>3, <3>4, ChecksDiffer
  <2> QED  BY <1>5, <2>4
<1>7. CASE /\ k < 12 /\ n[k] = m[k + 1] /\ n[k + 1] = m[k]
           /\ \A i \in 1..12 : i \notin {k, k + 1} => n[i] = m[i]
  <2>1. PICK j \in 1..11 : j = 12 - k
    BY <1>7
  <2>0. 13 - j = k + 1 /\ 13 - (j + 1) = k /\ (j + 1) - 1 = j
    BY <2>1
  <2>2. n[k] # n[k + 1]
    <3>1. n[k] = n[k + 1] => \A i \in 1..12 : n[i] = m[i]
      BY <1>7
    <3> QED  BY <1>4, <3>1
  <2>3. c[j - 1] = e[j - 1]
    <3>1. \A i \in 1..(j - 1) : 13 - i \in 1..12 /\ 13 - i \notin {k, k + 1}
      BY <2>1
    <3>2. j - 1 \in 0..12
      BY <2>1
    <3>3. SameUpTo(n, m, j - 1)
      BY <1>7, <3>1 DEF SameUpTo
    <3> QED  BY <1>1, <1>2, <3>2, <3>3, ChecksAgree
  <2>4. c[j + 1] # e[j + 1]
    <3>1. j - 1 \in Nat /\ j - 1 \in 0..12 /\ j \in 1..12 /\ j + 1 \in 1..12 /\ (j - 1) + 1 = j
          /\ k \in 1..12 /\ k + 1 \in 1..12
      BY <2>1
    <3>2. c[j] = Round(c[j - 1], j - 1, n[k + 1]) /\ e[j] = Round(c[j - 1], j - 1, n[k])
      <4>1. c[j] = Round(c[j - 1], j - 1, n[13 - j]) /\ e[j] = Round(e[j - 1], j - 1, m[13 - j])
        BY <1>5, <3>1
      <4>2. n[13 - j] = n[k + 1] /\ m[13 - j] = n[k]
        BY <1>7, <2>0
      <4> QED  BY <2>3, <4>1, <4>2
    <3>3. c[j + 1] = Round(c[j], j, n[k]) /\ e[j + 1] = Round(e[j], j, n[k + 1])
      <4>1. c[j + 1] = Round(c[(j + 1) - 1], (j + 1) - 1, n[13 - (j + 1)])
            /\ e[j + 1] = Round(e[(j + 1) - 1], (j + 1) - 1, m[13 - (j + 1)])
        BY <1>5, <3>1
      <4> QED  BY <1>7, <2>0, <4>1
    <3>4. c[j - 1] \in Digit /\ n[k] \in Digit /\ n[k + 1] \in Digit
      BY <1>3, <1>5, <3>1
    <3>5. Round(Round(c[j - 1], j - 1, n[k + 1]), (j - 1) + 1, n[k])
              # Round(Round(c[j - 1], j - 1, n[k]), (j - 1) + 1, n[k + 1])
      BY <2>2, <3>1, <3>4, RoundsDiffer
    <3> QED  BY <3>1, <3>2, <3>3, <3>5
  <2>5. c[12] # e[12]
    <3>1. \A i \in (j + 2)..12 : 13 - i \in 1..12 /\ 13 - i \notin {k, k + 1}
      BY <2>1
    <3>2. j + 1 \in 0..12 /\ (j + 1) + 1 = j + 2
      BY <2>1
    <3>3. SameBeyond(n, m, j + 1)
      BY <1>7, <3>1, <3>2 DEF SameBeyond
    <3> QED  BY <1>1, <1>2, <2>4, <3>2, <3>3, ChecksDiffer
  <2> QED  BY <1>5, <2>5
<1> QED  BY <1>6, <1>7

-----------------------------------------------------------------------------
(* What is read is what was written.                                        *)

(* The lines with a pattern. *)
With(body, p) == {i \in DOMAIN body : p \in DOMAIN body[i]}

(* First gives what one of them captures, and is blank if there are none.   *)
LEMMA FirstFound ==
    ASSUME NEW body, NEW n \in Nat, DOMAIN body = 1..n, NEW p
    PROVE  /\ With(body, p) = {} => First(body, p) = Blank
           /\ With(body, p) # {} => \E i \in With(body, p) : First(body, p) = body[i][p]
<1> DEFINE found == With(body, p)
<1>1. CASE found # {}
  <2> DEFINE i == CHOOSE i \in found : \A k \in found : i <= k
  <2>1. found \subseteq Nat
    BY DEF With
  <2>2. i \in found
    BY <1>1, <2>1, HasLeast, Zenon
  <2>3. First(body, p) = body[i][p]
    BY <1>1 DEF First, With
  <2> QED  BY <1>1, <2>2, <2>3
<1> QED  BY <1>1 DEF First, With

(* Of a body that states one address, or one number that reads as itself,   *)
(* that is the contact, with or without spaCy (email_parser.py).            *)
LEMMA ContactStated ==
    ASSUME NEW body, IsBody(body), NEW ner
    PROVE  LET parsed == ParseEmailBody(body, Blank, ner)
           IN  /\ \A e \in EmailsIn(body) : EmailsIn(body) = {e} /\ Given(e) => parsed.email = e
               /\ \A n \in NumbersIn(body) :
                     NumbersIn(body) = {n} /\ Given(n) /\ ReadsAsItself(n) => parsed.phone = n
<1> DEFINE parsed == ParseEmailBody(body, Blank, ner)
<1>1. DOMAIN body = 1..Len(body) /\ Len(body) \in Nat
  BY DEF IsBody
<1>2. ASSUME NEW e, EmailsIn(body) = {e}, Given(e)
      PROVE  parsed.email = e
  <2> DEFINE searched == Scrubbed(body)
             other == Or(Blank, First(body, "sender"))
  <2>1. parsed.email = Or(First(body, "email:"), Or(First(searched, "email"), other))
    BY DEF ParseEmailBody, ExtractEmail, Labelled, FromHeader
  <2>2. /\ DOMAIN searched = 1..Len(body)
        /\ \A i \in With(searched, "email") :
              i \in With(body, "email") /\ ~IsIdHeader(body[i]) /\ searched[i] = body[i]
        /\ \A i \in With(body, "email") : ~IsIdHeader(body[i]) => i \in With(searched, "email")
    BY <1>1 DEF Scrubbed, With
  <2>3. \A i \in With(body, "email:") : body[i]["email:"] = e
    BY <1>2 DEF EmailsIn, With
  <2>4. \A i \in With(searched, "email") : searched[i]["email"] = e
    BY <1>2, <2>2 DEF EmailsIn, With
  <2>5. With(body, "email:") # {} \/ With(searched, "email") # {}
    BY <1>2, <2>2 DEF EmailsIn, With
  <2> HIDE DEF parsed, searched, other
  <2>6. With(body, "email:") # {} => First(body, "email:") = e
    BY <1>1, <2>3, FirstFound
  <2>7. With(body, "email:") = {} => First(body, "email:") = Blank
    BY <1>1, FirstFound
  <2>8. With(searched, "email") # {} => First(searched, "email") = e
    BY <1>1, <2>2, <2>4, FirstFound
  <2> QED  BY <1>2, <2>1, <2>5, <2>6, <2>7, <2>8, BlankText DEF Or
<1>3. ASSUME NEW n, NumbersIn(body) = {n}, Given(n), ReadsAsItself(n)
      PROVE  parsed.phone = n
  <2> DEFINE by(p) == {body[i][p] : i \in With(body, p)}
             first(p) == First(body, p)
  <2>1. parsed.phone = NormalisePhone(Or(first("phone:"),
                            Or(first("valid"), Or(first("plain"), first("spaced")))))
    BY DEF ParseEmailBody, ExtractPhone, Labelled
  <2>2. \A p : (by(p) = {} => first(p) = Blank) /\ (by(p) # {} => first(p) \in by(p))
    BY <1>1, FirstFound
  <2>3. NormalisePhone(Blank) = Blank
    BY PhoneAssumption DEF NormalisePhone, Blank
  <2>4. NormalisePhone(n) = n /\ n # Blank /\ ~Given(Blank)
    BY <1>3, BlankText DEF ReadsAsItself
  <2>5. {n} = CASE by("phone:") # {} -> {NormalisePhone(x) : x \in by("phone:")}
                [] by("phone:") = {} /\ by("valid") # {} -> by("valid")
                [] OTHER -> by("plain") \cup by("spaced")
    BY <1>3 DEF NumbersIn, With
  <2>6. \A p : \A x \in by(p) : IsText(x)
    BY DEF IsBody, With
  <2> HIDE DEF by, first, parsed
  <2>7. CASE by("phone:") # {}
    <3>1. NormalisePhone(first("phone:")) = n /\ IsText(first("phone:"))
      BY <2>2, <2>5, <2>6, <2>7
    <3>2. Given(first("phone:"))
      BY <2>3, <2>4, <3>1 DEF IsText
    <3> QED  BY <2>1, <3>1, <3>2 DEF Or
  <2>8. CASE by("phone:") = {} /\ by("valid") # {}
    <3>1. first("phone:") = Blank /\ first("valid") = n
      BY <2>2, <2>5, <2>8
    <3> QED  BY <1>3, <2>1, <2>4, <3>1 DEF Or
  <2>9. CASE by("phone:") = {} /\ by("valid") = {}
    <3>1. first("phone:") = Blank /\ first("valid") = Blank
      BY <2>2, <2>9
    <3>2. by("plain") \cup by("spaced") = {n}
      BY <2>5, <2>9
    <3>3. first("plain") = n \/ (first("plain") = Blank /\ first("spaced") = n)
      BY <2>2, <3>2
    <3> QED  BY <1>3, <2>1, <2>4, <3>1, <3>3 DEF Or
  <2> QED  BY <2>7, <2>8, <2>9
<1> QED  BY <1>2, <1>3

(* A set of pairs of naturals has a first one, in the order of the runs.    *)
LEMMA HasFirstPair ==
    ASSUME NEW S, S \subseteq Nat \X Nat, S # {}
    PROVE  \E p \in S : \A q \in S : p[1] < q[1] \/ (p[1] = q[1] /\ p[2] <= q[2])
<1> DEFINE A == {p[1] : p \in S}
<1>1. PICK a \in A : \A x \in A : a <= x
  <2>1. A \subseteq Nat /\ A # {}
    OBVIOUS
  <2> QED  BY <2>1, HasLeast
<1> DEFINE B == {p[2] : p \in {p \in S : p[1] = a}}
<1>2. PICK b \in B : \A x \in B : b <= x
  <2>1. B \subseteq Nat /\ B # {}
    BY <1>1
  <2> QED  BY <2>1, HasLeast
<1>3. PICK p \in S : p[1] = a /\ p[2] = b
  BY <1>2
<1>4. ASSUME NEW q \in S
      PROVE  p[1] < q[1] \/ (p[1] = q[1] /\ p[2] <= q[2])
  <2>1. a <= q[1] /\ a \in Nat /\ q[1] \in Nat
    BY <1>1, <1>3
  <2>2. CASE q[1] = a
    BY <1>2, <1>3, <2>2
  <2>3. CASE q[1] # a
    BY <1>3, <2>1, <2>3
  <2> QED  BY <2>2, <2>3
<1> QED  BY <1>3, <1>4

(* Where a 12-digit part of a run of n digits starts.                       *)
LEMMA Starts ==
    ASSUME NEW size \in Nat, NEW at \in Nat
    PROVE  /\ size \in 12..24 /\ at \in 1..13 /\ at + 11 <= size
                => at \in 1..(size - 11) /\ size <= 24
           /\ at \in 1..(size - 11) /\ size <= 24
                => size \in 12..24 /\ at \in 1..13 /\ at \in 1..size /\ at + 11 <= size
OBVIOUS

(* The candidates start the 12-digit parts of the runs.                     *)
LEMMA CandidateWindows ==
    ASSUME NEW runs \in Seq(Seq(Digit))
    PROVE  TwelveDigits(runs) = {Window(runs, p) : p \in Candidates(runs)}
<1> DEFINE size(i) == Len(runs[i])
           starts(i) == {k \in 1..(size(i) - 11) : runs[i][k] >= 2}
           part(i, k) == SubSeq(runs[i], k, k + 11)
<1>1. \A i \in DOMAIN runs : runs[i] \in Seq(Digit) /\ size(i) \in Nat
  BY ElementOfSeq, LenProperties
<1>2. \A p \in Candidates(runs) : \E i \in DOMAIN runs, k \in 1..13 : p = <<i, k>>
  BY DEF Candidates
<1>3. \A i \in DOMAIN runs, k \in 1..13 :
          <<i, k>> \in Candidates(runs) <=>
              size(i) \in 12..24 /\ k + 11 <= size(i) /\ runs[i][k] \in 2..9
  BY DEF Candidates
<1>4. \A i, k : Window(runs, <<i, k>>) = part(i, k)
  BY DEF Window
<1>5. \A n : n \in TwelveDigits(runs) <=>
          \E i \in DOMAIN runs : size(i) <= 24 /\ \E k \in starts(i) : n = part(i, k)
  <2> DEFINE short == {i \in DOMAIN runs : Len(runs[i]) <= 24}
             parts(i) == {SubSeq(runs[i], k, k + 11) : k \in starts(i)}
  <2>1. TwelveDigits(runs) = UNION {parts(i) : i \in short}
    BY DEF TwelveDigits
  <2>2. \A n, i : n \in parts(i) <=> \E k \in starts(i) : n = part(i, k)
    OBVIOUS
  <2>3. \A i : i \in short <=> i \in DOMAIN runs /\ size(i) <= 24
    OBVIOUS
  <2> HIDE DEF parts, short, size, starts, part
  <2>4. \A n : n \in TwelveDigits(runs) <=> \E i \in short : n \in parts(i)
    BY <2>1
  <2> QED  BY <2>2, <2>3, <2>4
<1>6. ASSUME NEW i \in DOMAIN runs, NEW k \in 1..size(i)
      PROVE  runs[i][k] >= 2 <=> runs[i][k] \in 2..9
  <2>1. runs[i][k] \in Digit
    BY <1>1, ElementOfSeq, Zenon
  <2> QED  BY <2>1 DEF Digit
<1> HIDE DEF size, part
<1>7. ASSUME NEW p \in Candidates(runs)
      PROVE  Window(runs, p) \in TwelveDigits(runs)
  <2>1. PICK i \in DOMAIN runs, k \in 1..13 : p = <<i, k>>
    BY <1>2
  <2>2. size(i) \in 12..24 /\ k + 11 <= size(i) /\ runs[i][k] \in 2..9
    BY <1>3, <2>1
  <2>3. k \in 1..(size(i) - 11) /\ size(i) <= 24
    <3>1. k \in Nat /\ size(i) \in Nat
      BY <1>1
    <3> QED  BY <2>2, <3>1, Starts
  <2>4. k \in starts(i)
    <3>1. \A d : d \in 2..9 => d >= 2
      OBVIOUS
    <3> QED  BY <2>2, <2>3, <3>1
  <2> QED  BY <1>4, <1>5, <2>1, <2>3, <2>4
<1>8. ASSUME NEW n \in TwelveDigits(runs)
      PROVE  \E p \in Candidates(runs) : n = Window(runs, p)
  <2>1. PICK i \in DOMAIN runs : size(i) <= 24 /\ \E k \in starts(i) : n = part(i, k)
    BY <1>5, Zenon
  <2>2. PICK k \in starts(i) : n = part(i, k)
    BY <2>1
  <2>3. size(i) \in 12..24 /\ k \in 1..13 /\ k \in 1..size(i) /\ k + 11 <= size(i)
    <3>1. k \in Nat /\ k \in 1..(size(i) - 11) /\ size(i) \in Nat
      BY <1>1
    <3> QED  BY <2>1, <3>1, Starts
  <2>4. runs[i][k] \in 2..9
    BY <1>6, <2>3
  <2> QED  BY <1>3, <1>4, <2>2, <2>3, <2>4
<1> QED  BY <1>7, <1>8

(* What is read as a number is a valid one, unless the card has digits that *)
(* all fail the checksum.                                                   *)
LEMMA NumberShown ==
    ASSUME NEW text, text.runs \in Seq(Seq(Digit)), NEW n,
           n = IF text.pan # <<>> THEN text.pan ELSE ExtractAadhaar(text.runs), n # <<>>
    PROVE  n \in NumbersOn(text) \/ Misprinted(text)
<1> DEFINE runs == text.runs
           valid == {p \in Candidates(runs) : VerhoeffValid(Window(runs, p))}
           best == IF valid = {} THEN Candidates(runs) ELSE valid
           p == CHOOSE p \in best : \A q \in best : p[1] < q[1] \/ (p[1] = q[1] /\ p[2] <= q[2])
<1>1. CASE text.pan # <<>>
  BY <1>1 DEF NumbersOn
<1>2. CASE text.pan = <<>>
  <2>1. n = ExtractAadhaar(runs) /\ best # {} /\ n = Window(runs, p)
    BY <1>2 DEF ExtractAadhaar
  <2>2. best \subseteq Nat \X Nat
    BY DEF Candidates
  <2>3. p \in best
    BY <2>1, <2>2, HasFirstPair, Zenon
  <2> HIDE DEF p
  <2>4. TwelveDigits(runs) = {Window(runs, q) : q \in Candidates(runs)}
    BY CandidateWindows
  <2>5. CASE valid = {}
    <3>1. {m \in TwelveDigits(runs) : VerhoeffValid(m)} = {}
      BY <2>4, <2>5
    <3>2. n \in TwelveDigits(runs)
      BY <2>1, <2>3, <2>4, <2>5
    <3> QED  BY <1>2, <3>1, <3>2 DEF NumbersOn, Misprinted
  <2>6. CASE valid # {}
    <3>1. n \in TwelveDigits(runs) /\ VerhoeffValid(n)
      BY <2>1, <2>3, <2>4, <2>6
    <3> QED  BY <1>2, <3>1 DEF NumbersOn
  <2> QED  BY <2>5, <2>6
<1> QED  BY <1>1, <1>2

(* The line above a pattern looks like a name.                              *)
LEMMA NearestAbove ==
    ASSUME NEW lines, NEW n \in Nat, DOMAIN lines = 1..n, NEW pattern
    PROVE  LET above == {j \in With(lines, "like") : \A i \in With(lines, pattern) : j < i}
           IN  \/ /\ With(lines, pattern) = {} \/ above = {}
                  /\ NameAbove(lines, pattern) = Blank
               \/ /\ With(lines, pattern) # {} /\ above # {}
                  /\ \E j \in above : NameAbove(lines, pattern) = lines[j]["like"]
<1> DEFINE at == With(lines, pattern)
           above == {j \in With(lines, "like") : \A i \in at : j < i}
           like == {j \in DOMAIN lines : "like" \in DOMAIN lines[j] /\ at # {} /\ \A i \in at : j < i}
<1>1. like = IF at = {} THEN {} ELSE above
  BY DEF With
<1>2. NameAbove(lines, pattern) =
          IF like = {} THEN Blank ELSE lines[CHOOSE j \in like : \A k \in like : k <= j]["like"]
  BY DEF NameAbove, With
<1>3. CASE like # {}
  <2> DEFINE j == CHOOSE j \in like : \A k \in like : k <= j
  <2>1. like \subseteq 1..n
    OBVIOUS
  <2>2. j \in like
    BY <1>3, <2>1, HasGreatest, Zenon
  <2>3. NameAbove(lines, pattern) = lines[j]["like"]
    BY <1>2, <1>3
  <2> HIDE DEF j, like
  <2> QED  BY <1>1, <1>3, <2>2, <2>3
<1> QED  BY <1>1, <1>2, <1>3

(* A name that is read is one the card may be said to show, and no parent's *)
(* where a line above the parent's looks like a name (extractors.py).       *)
LEMMA NameShown ==
    ASSUME NEW lines, NEW n \in Nat, DOMAIN lines = 1..n,
           \A i \in With(lines, "like") : Given(lines[i]["like"]),
           Given(ExtractName(lines))
    PROVE  ExtractName(lines) \in NamesOn(lines)
<1> DEFINE named == First(lines, "name:")
           parent == NameAbove(lines, "parent")
           dob == NameAbove(lines, "dob")
           first == First(lines, "like")
           name == ExtractName(lines)
           above(pattern) == {j \in With(lines, "like") : \A i \in With(lines, pattern) : j < i}
           like == {lines[j]["like"] : j \in With(lines, "like")}
           labelled == {lines[j]["name:"] : j \in With(lines, "name:")}
<1>1. name = Or(named, Or(parent, Or(dob, first)))
  BY DEF ExtractName
<1>2. NamesOn(lines) =
          IF With(lines, "name:") = {} /\ With(lines, "parent") # {} /\ above("parent") # {}
          THEN {lines[j]["like"] : j \in above("parent")} ELSE labelled \cup like
  BY DEF NamesOn, With
<1>3. /\ named = Blank \/ named \in labelled
      /\ With(lines, "name:") = {} => named = Blank
  BY FirstFound
<1>4. first = Blank \/ first \in like
  BY FirstFound
<1>5. dob = Blank \/ dob \in like
  BY NearestAbove
<1>6. /\ parent = Blank \/ parent \in like
      /\ With(lines, "parent") # {} /\ above("parent") # {}
            => Given(parent) /\ parent \in {lines[j]["like"] : j \in above("parent")}
  BY NearestAbove
<1> HIDE DEF name, named, parent, dob, first, above, like, labelled
<1>7. name \in labelled \cup like
  BY <1>1, <1>3, <1>4, <1>5, <1>6, BlankText DEF Or, name
<1>8. With(lines, "name:") = {} /\ With(lines, "parent") # {} /\ above("parent") # {}
          => name = parent
  BY <1>1, <1>3, <1>6, BlankText DEF Or
<1>9. name \in NamesOn(lines)
  BY <1>2, <1>6, <1>7, <1>8
<1> QED  BY <1>9 DEF name

(* The age is the number of birthdays so far, and negative before the birth *)
(* (extractors.py: compute_age).                                            *)
LEMMA AgeCounted ==
    ASSUME NEW dob \in Nat \X Nat \X Nat, NEW day \in Nat \X Nat \X Nat
    PROVE  /\ ComputeAge(dob, day) \in Int
           /\ ComputeAge(dob, day) < 0 <=> Before(day, dob)
           /\ ~Before(day, dob) => ComputeAge(dob, day) = Cardinality(Birthdays(dob, day))
<1>1. PICK a \in Nat, b \in Nat, c \in Nat : dob = <<a, b, c>>
  OBVIOUS
<1>2. PICK y \in Nat, m \in Nat, d \in Nat : day = <<y, m, d>>
  OBVIOUS
<1> DEFINE early == m < b \/ (m = b /\ d < c)
           age == y - a - (IF early THEN 1 ELSE 0)
<1>3. ComputeAge(dob, day) = age
  BY <1>1, <1>2 DEF ComputeAge
<1>4. Before(day, dob) <=> y < a \/ (y = a /\ early)
  BY <1>1, <1>2 DEF Before
<1>5. Birthdays(dob, day) = {year \in (a + 1)..y : ~(y < year \/ (y = year /\ early))}
  BY <1>1, <1>2 DEF Birthdays, Before
<1>6. age \in Int /\ (age < 0 <=> y < a \/ (y = a /\ early))
  OBVIOUS
<1>7. ASSUME ~(y < a \/ (y = a /\ early))
      PROVE  Cardinality(Birthdays(dob, day)) = age
  <2>1. Birthdays(dob, day) = (a + 1)..(a + age)
    <3>1. ASSUME early  PROVE age = y - a - 1
      BY <3>1
    <3>2. ASSUME ~early PROVE age = y - a
      BY <3>2
    <3> HIDE DEF age, early
    <3> QED  BY <1>5, <3>1, <3>2
  <2>2. a + 1 \in Int /\ a + age \in Int /\ age \in Nat
    BY <1>6, <1>7
  <2> HIDE DEF age
  <2>3. Cardinality((a + 1)..(a + age)) = IF a + 1 <= a + age THEN (a + age) - (a + 1) + 1 ELSE 0
    BY <2>2, FS_Interval
  <2> QED  BY <2>1, <2>2, <2>3
<1> HIDE DEF age, early
<1> QED  BY <1>3, <1>4, <1>6, <1>7
=============================================================================
